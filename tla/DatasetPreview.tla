--------------------------- MODULE DatasetPreview ---------------------------
(***************************************************************************)
(* The table of an uploaded dataset's rows in the data lab                 *)
(* (DatasetPreview.tsx): searched, sorted by a column, cut into pages.     *)
(* The page and the size of a page are kept apart from the search, so the  *)
(* page shown is clamped to those there are.                               *)
(***************************************************************************)
EXTENDS Integers, SequencesExt

CONSTANTS
  Rows,      \* the rows: the searches that find each, and its rank by every field
  Terms,     \* the searches
  NoTerm,    \* the empty search
  Fields,    \* the columns
  Sizes,     \* rows per page
  FirstSize, \* ... to begin with
  AllRows,   \* the size "All"
  Closed     \* no table is shown

ASSUME PreviewAssumption ==
  /\ Rows \in Seq([found : SUBSET Terms, rank : [Fields -> Nat]])
  /\ "timestamp" \in Fields
  /\ Sizes \subseteq Nat \ {0} /\ FirstSize \in Sizes /\ AllRows \notin Sizes

VARIABLE view

FirstView == [size |-> FirstSize, page |-> 1, term |-> NoTerm,
              field |-> "timestamp", ascending |-> TRUE]

-----------------------------------------------------------------------------
\* What the table shows.  A row is told by its number in Rows.

Matches(v) == {i \in DOMAIN Rows : v.term = NoTerm \/ v.term \in Rows[i].found}

RankOf(v, i) == Rows[i].rank[v.field]

\* The sort of a browser keeps the order of equal rows, whichever way it sorts.
Before(v, i, j) ==
  IF RankOf(v, i) = RankOf(v, j) THEN i < j
  ELSE (RankOf(v, i) < RankOf(v, j)) = v.ascending

\* sortedRows: the row at place k comes after k - 1 others.
Sorted(v) ==
  LET rows == Matches(v)
      place(i) == Cardinality({j \in rows : Before(v, j, i)}) + 1
  IN [k \in 1..Cardinality(rows) |-> CHOOSE i \in rows : place(i) = k]

Count(v) == Cardinality(Matches(v))

\* effectivePageSize || 1
PageSize(v) == Max({1, IF v.size = AllRows THEN Count(v) ELSE v.size})

TotalPages(v) == Max({1, (Count(v) + PageSize(v) - 1) \div PageSize(v)})

SafePage(v) == Min({v.page, TotalPages(v)})

StartRow(v) ==
  IF Count(v) = 0 THEN 0 ELSE (SafePage(v) - 1) * PageSize(v) + 1

EndRow(v) == Min({SafePage(v) * PageSize(v), Count(v)})

\* slice clamps its bounds, as SubSeq does not.
PageRows(v) ==
  SubSeq(Sorted(v), (SafePage(v) - 1) * PageSize(v) + 1, EndRow(v))

\* The buttons are there when there is more than one page.
Paged(v) == v.size # AllRows /\ TotalPages(v) > 1

-----------------------------------------------------------------------------
\* The controls.

SearchKeepingPage(term) == view' = [view EXCEPT !.term = term]

Search(term) == view' = [view EXCEPT !.term = term, !.page = 1]

SetPageSize(size) ==
  view' = [view EXCEPT !.size = size, !.page = 1]

HandleSort(field) ==
  view' = [view EXCEPT !.field = field,
                       !.ascending = IF field = view.field THEN ~@ ELSE TRUE]

FirstPage ==
  /\ Paged(view) /\ SafePage(view) # 1
  /\ view' = [view EXCEPT !.page = 1]

PreviousPage ==
  /\ Paged(view) /\ SafePage(view) # 1
  /\ view' = [view EXCEPT !.page = Max({1, @ - 1})]

NextPage ==
  /\ Paged(view) /\ SafePage(view) # TotalPages(view)
  /\ view' = [view EXCEPT !.page = Min({TotalPages(view), @ + 1})]

LastPage ==
  /\ Paged(view) /\ SafePage(view) # TotalPages(view)
  /\ view' = [view EXCEPT !.page = TotalPages(view)]

Browse ==
  /\ view # Closed
  /\ \/ \E term \in Terms \cup {NoTerm} : term # view.term /\ Search(term)
     \/ \E size \in Sizes \cup {AllRows} : size # view.size /\ SetPageSize(size)
     \/ \E field \in Fields : HandleSort(field)
     \/ FirstPage \/ PreviousPage \/ NextPage \/ LastPage

-----------------------------------------------------------------------------

\* The rows of page p, as the buttons would show it, each with its line.
OnPage(p) == PageRows([view EXCEPT !.page = p])

LinesOf(p) ==
  LET rows == OnPage(p)
  IN {[page |-> p, place |-> k, row |-> rows[k]] : k \in DOMAIN rows}

Above(line, other) ==
  line.page < other.page \/ (line.page = other.page /\ line.place < other.place)

\* Whatever was searched and sorted before, the table shows a part of what
\* matches, the pages from the first to the last show every match once and in
\* order, and the page that is kept is the page that is shown, so that a button
\* moves by one page from what the user sees.
PagesCoverMatches ==
  view # Closed =>
    LET lines == UNION {LinesOf(p) : p \in 1..TotalPages(view)}
        shown == PageRows(view)
    IN /\ view.page = SafePage(view)
       /\ Matches(view) = {line.row : line \in lines}
       /\ \A line, other \in lines :
            Above(line, other) => Before(view, line.row, other.row)
       /\ Matches(view) # {} => shown # <<>>
       /\ Len(shown) =
            (IF StartRow(view) = 0 THEN 0 ELSE EndRow(view) - StartRow(view) + 1)
=============================================================================
