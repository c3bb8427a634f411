------------------------------ MODULE Paginator ------------------------------
(* The pager below a table: its state, what it renders, the clicks on its  *)
(* items, and the pages' way to use it: the table is emptied when a page   *)
(* of rows is asked for, and every answer appends its rows and is handed   *)
(* to the pager.  Texts, classes, the events before a click, and the       *)
(* layout of older versions are left out.                                  *)
EXTENDS Integers, FiniteSets

CONSTANTS NumberOfPages, MaxPages, MaxShows
          \* numberOfPages; bounds: pages that the server has, clicks and lists

ASSUME PagerAssumption == NumberOfPages \in Nat \ {0} /\ MaxPages \in Nat \ {0}

VARIABLES exists,                    \* the element has its paginator
          totalPages, currentPage, lastPage,
          items,                     \* what was rendered
          asked,                     \* how often a page is asked for and not
                                     \* answered yet
          tableRows,                 \* the table: how often it has a page's
          without,                   \* the last request brought no rows
          overlapped,                \* and was made while another was out
          thrown,                    \* the last answer was out of range
          shows

kVars == <<exists, totalPages, currentPage, lastPage, items, asked, tableRows,
           without, overlapped, thrown, shows>>

NoPage       == [p \in 1..MaxPages |-> 0]
RowsOf(page) == [NoPage EXCEPT ![page] = 1]
More(f, p)   == [f EXCEPT ![p] = @ + 1]
Fewer(f, p)  == [f EXCEPT ![p] = @ - 1]

\* loadTables, when pending are the requests that are out.
LoadTables(page, pending) ==
  /\ tableRows' = NoPage /\ asked' = More(pending, page)
  /\ overlapped' = (pending # NoPage)

NothingRendered == [current |-> 0, total |-> 0, pages |-> {}]

KInit ==
  /\ exists = FALSE /\ totalPages = 0 /\ currentPage = 1 /\ lastPage = 1
  /\ items = NothingRendered
  /\ asked = NoPage /\ tableRows = NoPage /\ without = TRUE
  /\ overlapped = FALSE /\ thrown = FALSE /\ shows = 0

\* A mutant for the runs: the last page of a block begins the next.
PageStartOfNext(current) == (current \div NumberOfPages) * NumberOfPages + 1

\* getPages: the block of pages that the current one is in.
PageStart(current) ==
  IF current % NumberOfPages = 0
  THEN (current \div NumberOfPages - 1) * NumberOfPages + 1
  ELSE (current \div NumberOfPages) * NumberOfPages + 1
getPages(current, total) ==
  {p \in 1..total : PageStart(current) <= p /\ p < PageStart(current) + NumberOfPages}

\* render: first and prev are there except on the first page, next and last
\* except on the last.
Rendered(current, total) ==
  [current |-> current, total |-> total, pages |-> getPages(current, total)]
Offers(type) == IF type \in {"first", "prev"} THEN items.current # 1
                ELSE items.current # items.total

\* Where an item leads; the page of the state counts, not the rendered one.
Leads(type) ==
  CASE type = "first" -> 1
    [] type = "prev"  -> IF currentPage > 1 THEN currentPage - 1 ELSE 1
    [] type = "next"  -> IF currentPage < totalPages THEN currentPage + 1 ELSE totalPages
    [] type = "last"  -> totalPages

setCurrentPage(page) == lastPage' = currentPage /\ currentPage' = page

\* show: out of range it throws; onPageChanged asks for the rows.
showPage(page) ==
  /\ exists /\ shows < MaxShows /\ shows' = shows + 1
  /\ IF page \notin 1..totalPages
     THEN UNCHANGED <<currentPage, lastPage, items, asked, tableRows, overlapped, thrown>>
     ELSE /\ setCurrentPage(page)
          /\ items' = Rendered(page, totalPages) /\ thrown' = FALSE
          /\ IF page # currentPage THEN LoadTables(page, asked)
             ELSE UNCHANGED <<asked, tableRows, overlapped>>
  /\ UNCHANGED <<exists, totalPages, without>>

ClickPage(page) == page \in items.pages /\ showPage(page)
Click(type) == exists /\ Offers(type) /\ showPage(Leads(type))

\* The page shows another list, from its first page.
List == /\ shows < MaxShows /\ shows' = shows + 1 /\ LoadTables(1, asked)
        /\ UNCHANGED <<exists, totalPages, currentPage, lastPage, items, without, thrown>>

\* setOptions: the total is there before the current page is found out of
\* range.
setOptions(page, total) ==
  /\ totalPages' = total /\ UNCHANGED exists
  /\ IF page > total THEN thrown' = TRUE /\ UNCHANGED <<currentPage, lastPage, items>>
     ELSE thrown' = FALSE /\ setCurrentPage(page) /\ items' = Rendered(page, total)

\* init: an element has its paginator when nothing was thrown.
init(page, total) ==
  IF page > total
  THEN UNCHANGED <<exists, totalPages, currentPage, lastPage, items, thrown>>
  ELSE /\ exists' = TRUE /\ totalPages' = total /\ UNCHANGED thrown
       /\ lastPage' = 1 /\ currentPage' = page /\ items' = Rendered(page, total)

bootstrapPaginator(page, total) ==
  (exists /\ setOptions(page, total)) \/ (~exists /\ init(page, total))

\* The answer for a page, with the number of pages that there are by now; it
\* has rows if the page is one of them.  An empty list leaves the paginator as
\* it was.  A first paginator that begins on another page than the first asks
\* for the page again.
Answer(page, total) ==
  /\ asked[page] > 0 /\ without' = (page > total)
  /\ IF ~exists /\ page # 1 /\ page <= total
     THEN LoadTables(page, Fewer(asked, page))
     ELSE /\ asked' = Fewer(asked, page) /\ UNCHANGED overlapped
          /\ tableRows' = IF page <= total THEN More(tableRows, page) ELSE tableRows
  /\ IF total = 0
     THEN UNCHANGED <<exists, totalPages, currentPage, lastPage, items, thrown>>
     ELSE bootstrapPaginator(page, total)
  /\ UNCHANGED shows

\* No page has a handler for it: the emptied table stays.
RequestFails(page) ==
  /\ asked[page] > 0 /\ asked' = Fewer(asked, page) /\ without' = TRUE
  /\ UNCHANGED <<exists, totalPages, currentPage, lastPage, items, tableRows, overlapped,
                 thrown, shows>>

KNext ==
  \/ \E page \in 1..MaxPages : ClickPage(page) \/ RequestFails(page)
  \/ \E type \in {"first", "prev", "next", "last"} : Click(type)
  \/ List
  \/ \E page \in 1..MaxPages, total \in 0..MaxPages : Answer(page, total)

KSpec == KInit /\ [][KNext]_kVars

(******************************** properties *******************************)
(* The items are those of a block of consecutive pages, at most as many as *)
(* there should be, none beyond the last; the rendered page is the current *)
(* one and among them, and the total the one in use, unless the last       *)
(* answer said that there are fewer pages than the one it is for.  Unless  *)
(* a page was asked for while another was, when the table gets the rows of *)
(* both: the table is empty while a request is out, and has the rows of    *)
(* the current page, once, when it is answered, or none, below a pager     *)
(* that shows the page, if it failed or the list has no such page.         *)
PagerShowsThePage ==
  /\ exists =>
       /\ items.pages \subseteq 1..items.total
       /\ items.current \in items.pages /\ items.current = currentPage
       /\ \A p \in items.pages : p < PageStart(items.current) + NumberOfPages
       /\ \A p, q \in items.pages : q - p < NumberOfPages
       /\ ~thrown => items.total = totalPages
  /\ ~overlapped => IF asked # NoPage \/ without THEN tableRows = NoPage
                    ELSE exists /\ tableRows = RowsOf(currentPage)
=============================================================================
