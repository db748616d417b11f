----------------------------- MODULE HarvestCursor -----------------------------
(***************************************************************************)
(* The price harvest of category pages (workers/harvest_tasks.py).         *)
(*                                                                         *)
(* A run goes on where the cursor of the shop in Redis points: a category, *)
(* and a page in it.  It reads the cursor once and writes it once, at its  *)
(* end; the list of categories it reads may have been replaced by a        *)
(* discovery run since the cursor was written.                             *)
(***************************************************************************)
EXTENDS Naturals, Sequences, SequencesExt, FiniteSets

CONSTANTS
    Walker,          \* harvest runs of the shop that may overlap
    Lists,           \* its category lists: sequences of first pages
    NextOf,          \* [page -> the page its "next" link names, or NoPage]
    NoPage,
    MaxPages,        \* HARVEST_MAX_PAGES_PER_CATEGORY
    Limit,           \* page quota of a run (pages_for_shop)
    MaxWalks, MaxFaults, MaxLists    \* bounds

VARIABLES
    cats, version,         \* the list of the shop, how often it was replaced
    cursor,                \* harvest:cursor:<code>
    mode,                  \* harvest:listmode:<code>
    pc, mine, list, visited, pages,   \* of a walker: place, cursor, list, pages seen
    walks, faults,
    asked, behind          \* history: <<version, pass, page>> asked for; given up behind a failure

vars == <<cats, version, cursor, mode, pc, mine, list, visited, pages, walks, faults, asked, behind>>

ListPage == DOMAIN NextOf

LinksAssumption ==
    /\ NoPage \notin ListPage /\ \A page \in ListPage : NextOf[page] \in ListPage \cup {NoPage}
    /\ \A l \in Lists : l \in Seq(ListPage)
    /\ MaxPages \in Nat \ {0} /\ MaxLists \in Nat

\* from: the version of the list this pass goes through (history).
NoVersion == MaxLists + 1
Fresh == [cat |-> 0, next |-> NoPage, page |-> 0, pass |-> 0, from |-> 0]

Init ==
    /\ cats \in Lists /\ version = 0 /\ cursor = Fresh /\ mode = "unknown"
    /\ pc = [w \in Walker |-> "idle"] /\ mine = [w \in Walker |-> Fresh]
    /\ list = [w \in Walker |-> [cats |-> <<>>, version |-> 0]] /\ visited = [w \in Walker |-> {}]
    /\ pages = [w \in Walker |-> 0]
    /\ walks = 0 /\ faults = 0
    /\ asked = {} /\ behind = {}

Fault == faults < MaxFaults /\ faults' = faults + 1

-----------------------------------------------------------------------------
(***************************************************************************)
(* _harvest.                                                               *)
(***************************************************************************)
Goto(w, to) == pc' = [pc EXCEPT ![w] = to]

\* The list of categories is read from the database.
Begin(w) ==
    /\ pc[w] = "idle" /\ walks < MaxWalks /\ walks' = walks + 1
    /\ cats # <<>>
    /\ list' = [list EXCEPT ![w] = [cats |-> cats, version |-> version]]
    /\ visited' = [visited EXCEPT ![w] = {}]
    /\ pages' = [pages EXCEPT ![w] = 0]
    /\ Goto(w, "load")
    /\ UNCHANGED <<cats, version, cursor, mode, mine, faults, asked, behind>>

\* load_cursor, and the list mode; a cursor into another list is of no pass.
LoadCursor(w) ==
    /\ pc[w] = "load"
    /\ mine' = [mine EXCEPT ![w] = IF cursor.from = list[w].version THEN cursor
                                   ELSE [cursor EXCEPT !.from = NoVersion]]
    /\ Goto(w, IF mode = "unknown" THEN "probe" ELSE "walk")
    /\ UNCHANGED <<cats, version, cursor, mode, list, visited, pages, walks, faults, asked, behind>>

\* probe_list_mode fetches the category without and with JS; a verdict is
\* kept, a probe the budget cut short is none.
Probe(w) ==
    /\ pc[w] = "probe"
    /\ \/ \E verdict \in {"js", "nojs"} : mode' = verdict /\ UNCHANGED faults
       \/ UNCHANGED mode /\ Fault
    /\ Goto(w, "walk")
    /\ UNCHANGED <<cats, version, cursor, mine, list, visited, pages, walks, asked, behind>>

\* The next category of the list; past the last one a new pass begins.
Wrapped(w) ==
    IF mine[w].cat >= Len(list[w].cats)
    THEN [Fresh EXCEPT !.pass = mine[w].pass + 1, !.from = list[w].version]
    ELSE mine[w]

PageUrl(w) == IF Wrapped(w).next # NoPage THEN Wrapped(w).next ELSE list[w].cats[Wrapped(w).cat + 1]

\* _advance_category
NextCategory(c) == [c EXCEPT !.cat = @ + 1, !.next = NoPage, !.page = 0]

Seen(w) == (IF Wrapped(w) = mine[w] THEN visited[w] ELSE {}) \cup {PageUrl(w)}

\* The pages behind a page of a category, up to n links away.
Chains(n, page) ==
    {chain \in [0..n -> ListPage] : chain[0] = page /\ \A i \in 1..n : chain[i] = NextOf[chain[i - 1]]}

Tails(n, page) == UNION {{chain[i] : chain \in Chains(i, page)} : i \in 1..n}

\* A page with offers: they are ingested, and its "next" is followed unless
\* the walk has seen it or the category is too long.
PageHarvested(w) ==
    /\ pc[w] = "walk" /\ pages[w] < Limit
    /\ LET c == Wrapped(w)
           next == NextOf[PageUrl(w)]
           follow == next # NoPage /\ next \notin Seen(w) /\ c.page + 1 < MaxPages
       IN  /\ mine' = [mine EXCEPT ![w] = IF follow THEN [c EXCEPT !.next = next, !.page = @ + 1]
                                          ELSE NextCategory(c)]
           /\ visited' = [visited EXCEPT ![w] = IF follow THEN Seen(w) ELSE {}]
           /\ asked' = asked \cup {<<c.from, c.pass, PageUrl(w)>>}
    /\ pages' = [pages EXCEPT ![w] = @ + 1]
    /\ UNCHANGED <<cats, version, cursor, mode, pc, list, walks, faults, behind>>

\* A page that cannot be had, or has no offers, ends its category.
PageEmpty(w) ==
    /\ pc[w] = "walk" /\ pages[w] < Limit /\ Fault
    /\ LET c == Wrapped(w)
       IN  /\ mine' = [mine EXCEPT ![w] = NextCategory(c)]
           /\ asked' = asked \cup {<<c.from, c.pass, PageUrl(w)>>}
           /\ behind' = behind \cup {<<c.from, c.pass, p>> : p \in Tails(MaxPages, PageUrl(w))}
    /\ visited' = [visited EXCEPT ![w] = {}]
    /\ pages' = [pages EXCEPT ![w] = @ + 1]
    /\ UNCHANGED <<cats, version, cursor, mode, pc, list, walks>>

\* Mutant: the refused page is counted as harvested.
StoppedPast(w) == NextCategory(Wrapped(w))

\* The cursor of a run the budget stopped: its page is the first one next time.
StoppedAt(w) == Wrapped(w)

\* No budget for the page.
BudgetStop(w) ==
    /\ pc[w] = "walk" /\ pages[w] < Limit /\ Fault
    /\ mine' = [mine EXCEPT ![w] = StoppedAt(w)]
    /\ Goto(w, "save")
    /\ UNCHANGED <<cats, version, cursor, mode, list, visited, pages, walks, asked, behind>>

QuotaReached(w) ==
    /\ pc[w] = "walk" /\ pages[w] = Limit
    /\ Goto(w, "save")
    /\ UNCHANGED <<cats, version, cursor, mode, mine, list, visited, pages, walks, faults,
                   asked, behind>>

\* save_cursor: whatever another run has written meanwhile is overwritten.
SaveCursor(w) ==
    /\ pc[w] = "save"
    /\ cursor' = mine[w]
    /\ Goto(w, "idle")
    /\ UNCHANGED <<cats, version, mode, mine, list, visited, pages, walks, faults, asked, behind>>

\* An exception, or the worker dies: the cursor stays where it was.
Dies(w) ==
    /\ pc[w] \in {"load", "probe", "walk", "save"} /\ Fault
    /\ Goto(w, "idle")
    /\ UNCHANGED <<cats, version, cursor, mode, mine, list, visited, pages, walks, asked, behind>>

-----------------------------------------------------------------------------
\* A discovery run or an enumeration publishes another list.
ReplaceList ==
    /\ version < MaxLists /\ version' = version + 1
    /\ \E other \in Lists : other # cats /\ cats' = other
    /\ UNCHANGED <<cursor, mode, pc, mine, list, visited, pages, walks, faults, asked, behind>>

\* HARVEST_LIST_MODE_TTL_SEC
ModeExpires ==
    /\ mode # "unknown" /\ mode' = "unknown"
    /\ UNCHANGED <<cats, version, cursor, pc, mine, list, visited, pages, walks, faults,
                   asked, behind>>

Next ==
    \/ \E w \in Walker :
          \/ Begin(w) \/ LoadCursor(w) \/ Probe(w) \/ PageHarvested(w) \/ PageEmpty(w) \/ BudgetStop(w)
          \/ QuotaReached(w) \/ SaveCursor(w) \/ Dies(w)
    \/ ReplaceList \/ ModeExpires

Spec == Init /\ [][Next]_vars

-----------------------------------------------------------------------------
Place == [cat : Nat, next : ListPage \cup {NoPage}, page : 0..MaxPages - 1, pass : Nat, from : Nat]

TypeOK ==
    /\ cursor \in Place /\ mine \in [Walker -> Place]
    /\ \A w \in Walker : pages[w] <= Limit /\ visited[w] \subseteq ListPage
    /\ mode \in {"unknown", "js", "nojs"}

\* A pass leaves no page out: when the cursor has passed a category, each of
\* its pages was asked for in this pass, or lies behind one that failed,
\* though runs overlap, die, or are stopped by the budget (_harvest: "stop
\* WITHOUT moving the cursor").  A list that was replaced under a pass is
\* excepted: the index then points into another list.
PassComplete ==
    cursor.from = version =>
        \A k \in 1..(IF cursor.cat < Len(cats) THEN cursor.cat ELSE Len(cats)) :
            \A p \in {cats[k]} \cup Tails(MaxPages - 1, cats[k]) :
                <<version, cursor.pass, p>> \in asked \cup behind
=============================================================================
