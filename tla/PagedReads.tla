----------------------------- MODULE PagedReads -----------------------------
(***************************************************************************)
(* The lists of the services: a page of rows and the number of all rows,   *)
(* by two statements that no transaction holds together; the export of     *)
(* orders, the shipments' SLA, low stock, exchange rates and warehouses    *)
(* keep each page in Redis, where it stays until its time is over: only    *)
(* the first page of low stock is ever evicted.  catalog's search reads    *)
(* one product to learn how many there are, and then as many.              *)
(*                                                                         *)
(* Clients are external: they walk from page to page until the total they  *)
(* were told, as the {items, total} of docs/contracts.md lets them.        *)
(***************************************************************************)
EXTENDS Naturals, Sequences, FiniteSets, SequencesExt, FiniteSetsExt

CONSTANTS
    Lists,          \* the lists that are looked at, a subset of AllLists
    Clients,        \* walks and searches at the same time
    Ids,            \* bound: rows that may be in a list over time
    PageSize,       \* limit of a walk
    PageTtl,        \* time to live of a cached page
    MaxPageRead     \* ticks between the first and the last command of a read

ASSUME PagedReadsAssumption ==
    /\ IsFiniteSet(Ids)
    /\ PageSize \in Nat \ {0}
    /\ PageTtl \in Nat \ {0}
    /\ MaxPageRead \in Nat

VARIABLES
    list,           \* which list this is
    table,          \* its rows, in its order
    unused,         \* rows that have not been created yet
    pages,          \* cached pages, by offset
    walk,           \* what each client is doing
    quiet           \* history: ticks since the last write of a cached list, up to TooLongAgo

pagedReadsVars == <<list, table, unused, pages, walk, quiet>>

-----------------------------------------------------------------------------
(* The lists: which statement may come first, whether pages are cached,     *)
(* whether a service writes the rows, whether a write can move a row or      *)
(* evict the first page, and whether the list is searched                   *)

\* orders of services/orders
orderList ==
    [first |-> {"count"}, cached |-> FALSE, written |-> TRUE, moves |-> FALSE,
     evicts |-> FALSE, search |-> FALSE]

\* payments: intents, and the attempts of an intent; returns
intentList == orderList
attemptList == orderList
returnList == orderList

\* the export of orders, and the shipments' SLA
exportList == [orderList EXCEPT !.cached = TRUE]
slaList == exportList

\* low stock, where a change of the stock moves a row
lowStockList == [exportList EXCEPT !.moves = TRUE, !.evicts = TRUE]

\* products, page by page; and as searchProducts reads them
productList == [orderList EXCEPT !.first = {"rows"}]
searchList == [productList EXCEPT !.search = TRUE]

\* lines of a settlement, all of one transaction; categories, which are seeded
lineList == [productList EXCEPT !.written = FALSE]
categoryList == lineList

\* seeded, too: exchange rates, and warehouses, where Promise.all starts both
rateList == [exportList EXCEPT !.written = FALSE]
warehouseList == [rateList EXCEPT !.first = {"count", "rows"}]

AllLists ==
    {orderList, intentList, attemptList, returnList, exportList, slaList, lowStockList,
     productList, searchList, lineList, categoryList, rateList, warehouseList}

ASSUME ListsAssumption == Lists \subseteq AllLists

\* As many writes as there are rows, or more.
Many == Cardinality(Ids)

Offsets == {n * PageSize : n \in 0 .. Cardinality(Ids)}

Rows == SeqOf(Ids, Cardinality(Ids))

Page == [items : Rows, total : 0 .. Cardinality(Ids)]

NoPage == [items |-> <<>>, total |-> 0]

TooLongAgo == PageTtl + MaxPageRead + 1

Walk ==
    [at : {"idle", "look", "read", "store", "done"}, offset : Offsets,
     todo : SUBSET {"count", "rows"}, limit : 1 .. Cardinality(Ids) + PageSize,
     page : Page, seen : Seq(Ids), again : BOOLEAN, since : SUBSET Ids,
     writes : 0 .. Many, age : 0 .. MaxPageRead]

PagedReadsTypeOK ==
    /\ list \in AllLists
    /\ table \in Rows
    /\ unused \subseteq Ids
    /\ pages \in [Offsets -> [page : Page, ttl : 0 .. PageTtl]]
    /\ walk \in [Clients -> Walk]
    /\ quiet \in 0 .. TooLongAgo

NoWalk ==
    [at |-> "idle", offset |-> 0, todo |-> {}, limit |-> 1, page |-> NoPage, seen |-> <<>>,
     again |-> FALSE, since |-> {}, writes |-> 0, age |-> 0]

\* Any rows, and no page cached.
PagedReadsInit ==
    /\ list \in Lists
    /\ unused \in SUBSET Ids
    /\ table = SetToSeq(Ids \ unused)
    /\ pages = [o \in Offsets |-> [page |-> NoPage, ttl |-> 0]]
    /\ walk = [c \in Clients |-> NoWalk]
    /\ quiet = TooLongAgo

-----------------------------------------------------------------------------
(* Writes *)

Walking(c) == walk[c].at \in {"look", "read", "store"}

\* A write counts against the walks that go on; what has ended is not what the list
\* is now.  One write is as bad as many for a walk over cached pages.
Disturbs ==
    /\ walk' = [c \in Clients |->
                  CASE walk[c].at = "idle" -> walk[c]
                    [] walk[c].at # "idle" /\ list.cached -> [walk[c] EXCEPT !.writes = Many, !.seen = <<>>]
                    [] OTHER -> [walk[c] EXCEPT !.writes = Min({@ + 1, Many})]]
    /\ quiet' = IF list.cached THEN 0 ELSE quiet
    /\ UNCHANGED <<list, pages>>

\* A row comes into the list: it is created, or begins to match the filter.
Insert(id) ==
    /\ list.written
    /\ id \in unused
    /\ unused' = unused \ {id}
    /\ \E i \in 1 .. Len(table) + 1 : table' = InsertAt(table, i, id)
    /\ Disturbs

\* A row changes what the list is ordered by.
Move(id) ==
    /\ list.moves
    /\ \E j, i \in DOMAIN table :
           table[j] = id /\ table' = InsertAt(RemoveAt(table, j), i, id)
    /\ unused' = unused
    /\ Disturbs

\* A row ceases to match the filter.
Leave(id) ==
    /\ list.written
    /\ \E j \in DOMAIN table : table[j] = id /\ table' = RemoveAt(table, j)
    /\ unused' = unused
    /\ Disturbs

\* A transfer or a cycle count, of whatever row, ends with the deletion of the
\* first page, when the client asks for it with the default limits.
EvictFirstPage ==
    /\ list.evicts
    /\ pages' = [pages EXCEPT ![0] = [page |-> NoPage, ttl |-> 0]]
    /\ UNCHANGED <<list, table, unused, walk, quiet>>

-----------------------------------------------------------------------------
(* A page *)

\* LIMIT limit OFFSET offset
Slice(s, offset, limit) ==
    SubSeq(s, offset + 1, IF offset + limit < Len(s) THEN offset + limit ELSE Len(s))

\* The handler of the page at an offset begins.
Reads(w, offset, limit) ==
    [w EXCEPT !.at = IF list.cached THEN "look" ELSE "read", !.offset = offset,
              !.limit = limit, !.todo = {"count", "rows"}, !.page = NoPage, !.age = 0]

\* A client begins.  A write counts that is so recent that a cached page can be
\* from before it.
BeginWalk(c) ==
    /\ walk[c].at \in {"idle", "done"}
    /\ walk' = [walk EXCEPT ![c] =
                  Reads([NoWalk EXCEPT !.writes = IF quiet = TooLongAgo THEN 0 ELSE Many,
                                       !.since = IF list.cached THEN {} ELSE ToSet(table)],
                        0, IF list.search THEN 1 ELSE PageSize)]
    /\ UNCHANGED <<list, table, unused, pages, quiet>>

\* Where the client goes on.
After(w) == w.offset + PageSize

\* A page of a walk is answered.  What was seen is kept while it can matter.
Turned(w, page) ==
    LET all == [w EXCEPT !.seen = IF w.writes < Many THEN @ \o page.items ELSE @,
                      !.page = NoPage, !.todo = {}] IN
    IF After(w) < page.total THEN Reads(all, After(w), PageSize)
    ELSE [all EXCEPT !.at = "done", !.offset = 0, !.age = 0]

\* limit: firstPage.total
SearchLimit(page) == page.total

\* searchProducts: the first page tells how many; if it is not all, all are read.
Searched(w, page) ==
    IF page.total <= Len(page.items) \/ w.again
    THEN [w EXCEPT !.at = "done", !.seen = page.items, !.page = NoPage, !.todo = {}, !.age = 0]
    ELSE [Reads(w, 0, SearchLimit(page)) EXCEPT !.again = TRUE]

\* The page is answered, and the client goes on.
Continues(c, page) ==
    walk' = [walk EXCEPT ![c] = IF list.search THEN Searched(@, page) ELSE Turned(@, page)]

\* Seeded fault: a hit sets the time to live again.
PageHit_Renews(c) ==
    LET o == walk[c].offset IN
    /\ pages[o].ttl > 0
    /\ Continues(c, pages[o].page)
    /\ pages' = [pages EXCEPT ![o].ttl = PageTtl]

\* withCache around the two statements.
PageHit(c) ==
    LET o == walk[c].offset IN
    /\ pages[o].ttl > 0
    /\ Continues(c, pages[o].page)
    /\ pages' = pages

PageMiss(c) ==
    /\ pages[walk[c].offset].ttl = 0
    /\ walk' = [walk EXCEPT ![c].at = "read"]
    /\ pages' = pages

LookUp(c) ==
    /\ walk[c].at = "look"
    /\ PageHit(c) \/ PageMiss(c)
    /\ UNCHANGED <<list, table, unused, quiet>>

\* One of the two statements, on what is committed by then.  After the second the
\* page goes to the cache, or to the client.
Statement(c, q) ==
    LET w == walk[c]
        page == IF q = "count" THEN [w.page EXCEPT !.total = Len(table)]
                ELSE [w.page EXCEPT !.items = Slice(table, w.offset, w.limit)]
    IN
    /\ w.at = "read"
    /\ q \in w.todo
    /\ w.todo = {"count", "rows"} => q \in list.first
    /\ IF w.todo # {q} \/ list.cached
       THEN walk' = [walk EXCEPT ![c].page = page, ![c].todo = @ \ {q},
                                 ![c].at = IF w.todo = {q} THEN "store" ELSE "read"]
       ELSE Continues(c, page)
    /\ UNCHANGED <<list, table, unused, pages, quiet>>

\* cache.set
StorePage(c) ==
    /\ walk[c].at = "store"
    /\ pages' = [pages EXCEPT ![walk[c].offset] = [page |-> walk[c].page, ttl |-> PageTtl]]
    /\ Continues(c, walk[c].page)
    /\ UNCHANGED <<list, table, unused, quiet>>

\* A command or a statement fails, or the client has seen enough.
WalkEnds(c) ==
    /\ walk[c].at # "idle"
    /\ walk' = [walk EXCEPT ![c] = NoWalk]
    /\ UNCHANGED <<list, table, unused, pages, quiet>>

-----------------------------------------------------------------------------

\* Time passes, for everyone who is not at the end of MaxPageRead.  It only
\* matters to cached pages.
PagesAge ==
    /\ list.cached
    /\ \A c \in Clients : Walking(c) => walk[c].age < MaxPageRead
    /\ walk' = [c \in Clients |-> IF Walking(c) THEN [walk[c] EXCEPT !.age = @ + 1] ELSE walk[c]]
    /\ pages' = [o \in Offsets |->
                    IF pages[o].ttl <= 1 THEN [page |-> NoPage, ttl |-> 0]
                    ELSE [pages[o] EXCEPT !.ttl = @ - 1]]
    /\ quiet' = IF quiet = TooLongAgo THEN quiet ELSE quiet + 1
    /\ UNCHANGED <<list, table, unused>>

ClientStep(c) ==
    \/ BeginWalk(c) \/ LookUp(c) \/ StorePage(c) \/ WalkEnds(c)
    \/ \E q \in {"count", "rows"} : Statement(c, q)

PagedReadsNext ==
    \/ \E id \in Ids : Insert(id) \/ Move(id) \/ Leave(id)
    \/ EvictFirstPage
    \/ \E c \in Clients : ClientStep(c)
    \/ PagesAge

PagedReadsSpec == PagedReadsInit /\ [][PagedReadsNext]_pagedReadsVars

-----------------------------------------------------------------------------
(* Properties *)

\* A walk over the pages of a list, or a search, misses a row only because of a
\* write: at most one for each write while it goes on, when its pages are not
\* cached.  When they are, pages of different ages lie next to each other, and a walk
\* sees every row, once and in order, if nothing was written in the time that a page
\* is kept, and a read takes, before it.
MissesAreExplained ==
    \A c \in Clients : LET w == walk[c] IN w.at = "done" =>
        IF list.cached THEN w.writes = 0 => w.seen = table
        ELSE Cardinality((w.since \cap ToSet(table)) \ ToSet(w.seen)) <= w.writes

\* Every row that was there all the time is found.  It is not: in a search new rows
\* push it behind the limit, in a walk others leave and it moves to a page already read.
OldRowsAreFound ==
    \A c \in Clients :
        walk[c].at = "done" /\ ~list.cached
            => (walk[c].since \cap ToSet(table)) \subseteq ToSet(walk[c].seen)
=============================================================================
