------------------------------ MODULE DataTable ------------------------------
(***************************************************************************)
(* The dashboard's table (dashboard/components/data-table.tsx) over the    *)
(* table library: the text filter, the pages, the checkboxes, the saved    *)
(* view.  Rows are numbers, the newest or highest first; the page that     *)
(* shows the table decides which rows there are.  Pages take this module   *)
(* by INSTANCE.                                                            *)
(***************************************************************************)
EXTENDS Integers, FiniteSets

CONSTANTS
  Hits,       \* the rows each text typed into the filter matches
  PageSize,
  None

VARIABLES
  rows,       \* the rows handed to the table
  filter, page,
  selection,  \* the keys of the ticked rows
  view,       \* sorting, hidden columns and density
  stored,     \* the view kept in localStorage
  ticked      \* history: the rows the operator ticked and has not cleared

Default == [desc |-> TRUE, hidden |-> {}, compact |-> FALSE]

\* Where a row stands in what the server sent.
Position(r) == Cardinality({q \in rows : q > r})

\* Mutant: the library's default, a row's position.
KeyByPosition(r) == Position(r)

\* getRowId: the row's own id.
Key(r) == r

Selected == {r \in rows : Key(r) \in selection}

Matching == rows \cap Hits[filter]
Ahead(r) == {q \in Matching : IF view.desc THEN q > r ELSE q < r}
PageCount == (Cardinality(Matching) + PageSize - 1) \div PageSize
PageRows == {r \in Matching : Cardinality(Ahead(r)) \div PageSize = page}

\* Other rows, another order or another filter bring back the first page.
FirstPage == page' = 0

\* The page is opened: the saved view is restored and saved again.
Mount ==
  /\ view' = (IF stored = None THEN Default ELSE stored) /\ stored' = view'
  /\ filter' \in {f \in DOMAIN Hits : Hits[f] = UNION {Hits[g] : g \in DOMAIN Hits}}
  /\ selection' = {} /\ ticked' = {} /\ FirstPage

Type(f) ==
  /\ f \in DOMAIN Hits /\ f # filter /\ filter' = f /\ FirstPage
  /\ UNCHANGED <<selection, view, stored, ticked>>

SetView(v) ==
  /\ view' = v /\ stored' = v
  /\ UNCHANGED <<filter, selection, ticked>>

\* A sortable header: ascending first, then to and fro, never unsorted.
ToggleSort == SetView([view EXCEPT !.desc = ~@]) /\ FirstPage
ToggleColumn(c) ==
  /\ SetView([view EXCEPT !.hidden = IF c \in @ THEN @ \ {c} ELSE @ \cup {c}])
  /\ UNCHANGED page
ToggleDensity == SetView([view EXCEPT !.compact = ~@]) /\ UNCHANGED page

Turn(p) ==
  /\ p \in {page - 1, page + 1} /\ p >= 0 /\ p < PageCount /\ page' = p
  /\ UNCHANGED <<filter, selection, view, stored, ticked>>

Tick(r) ==
  /\ r \in PageRows
  /\ IF Key(r) \in selection
     THEN selection' = selection \ {Key(r)} /\ ticked' = ticked \ {r}
     ELSE selection' = selection \cup {Key(r)} /\ ticked' = ticked \cup {r}
  /\ UNCHANGED <<filter, page, view, stored>>

\* The box in the header ticks the page on show, or clears it when all is ticked.
TickPage ==
  LET keys == {Key(r) : r \in PageRows}
  IN  /\ PageRows # {}
      /\ IF keys \subseteq selection
         THEN selection' = selection \ keys /\ ticked' = ticked \ PageRows
         ELSE selection' = selection \cup keys /\ ticked' = ticked \cup PageRows
      /\ UNCHANGED <<filter, page, view, stored>>

Clear ==
  /\ selection' = {} /\ ticked' = {}
  /\ UNCHANGED <<filter, page, view, stored>>

\* The keys the library holds are those of the rows the operator ticked, on show or not.
TicksKept == selection = {Key(r) : r \in ticked}
=============================================================================
