------------------------------ MODULE LiveList -------------------------------
(***************************************************************************)
(* The dashboard's live, paginated list of events: useLiveList in          *)
(* dashboard/lib/use-data.ts under the Events page, with the query and the *)
(* broadcast of the server behind it.                                      *)
(*                                                                         *)
(* Three things fill one list: the first page, loaded when the filters     *)
(* change; the tail, polled for what is newer than the newest row seen and *)
(* pushed as the server broadcasts; and older pages, on request.  A request*)
(* is sent, answered and received in three steps, so that answers overtake *)
(* each other and the operator.  What a closed effect still has under way  *)
(* is thrown away (its flag `on`); an older page belongs to no effect.     *)
(*                                                                         *)
(* An event is its timestamp.  A hidden tab does not poll: that is a Tick  *)
(* not taken.  Spinners and the connection lamp are left out.              *)
(***************************************************************************)
EXTENDS Integers, FiniteSets, Sequences, FiniteSetsExt

CONSTANTS
  Events,       \* timestamps, hence positive
  Late,         \* the events an agent's spool may bring behind younger ones
  Filters, Matches,
  Local,        \* the filters a browser can apply: others have no push
  PageSize, TailLimit, Cap,
  Slots,        \* polls of the tail that may be under way at once
  None, Asked,
  MaxMoves      \* bound

VARIABLES
  db,        \* the events table
  pushes,    \* broadcasts on their way to this browser, in order
  filter,    \* the page's filters, debounced: basePath
  live,      \* the Live button
  items,     \* the rows on the page, top first
  seen, newest, hasMore,
  first,     \* the load of the first page
  tails,     \* per slot: a poll of the tail
  older,     \* the load of an older page; while there is one its button is off
  moves      \* bound: clicks and failures so far

list == <<items, seen, newest, hasMore>>
vars == <<db, pushes, filter, live, list, first, tails, older, moves>>

Rows    == Seq(Events)
Pending == Rows \cup {Asked}

TypeOK ==
  /\ db \subseteq Events /\ pushes \in Rows
  /\ filter \in Filters /\ live \in BOOLEAN /\ hasMore \in BOOLEAN
  /\ items \in Rows /\ seen \subseteq Events /\ newest \in Events \cup {0}
  /\ first \in Pending \cup {None}
  /\ tails \in [Slots -> [since : Events, rows : Pending] \cup {None}]
  /\ older \in [f : Filters, offset : Nat, rows : Pending] \cup {None}
  /\ moves \in 0..MaxMoves

Init ==
  /\ db \in SUBSET Events /\ IsFiniteSet(db) /\ pushes = <<>>
  /\ filter \in Filters /\ live = TRUE
  /\ items = <<>> /\ seen = {} /\ newest = 0 /\ hasMore = TRUE
  /\ first = Asked /\ tails = [t \in Slots |-> None] /\ older = None
  /\ moves = 0

Move == moves < MaxMoves /\ moves' = moves + 1

\* The rows of a sequence from position m to n, as far as it goes.
Slice(rows, m, n) == SubSeq(rows, m, Min({n, Len(rows)}))

\* The rows of a set, newest first.
Ordered(S) ==
  [k \in 1..Cardinality(S) |-> CHOOSE e \in S : Cardinality({x \in S : x > e}) = k - 1]

\* QueryEvents: the newest rows of a filter from a timestamp on.
Query(f, since, limit, offset) ==
  LET all == Ordered({e \in db \cap Matches[f] : e >= since})
  IN  Slice(all, offset + 1, offset + limit)

\* Rows come newest first, and those not seen stay so.
Fresh(rows) == Ordered(Range(rows) \ seen)
Capped(rows) == Slice(rows, 1, Cap)
Later(a, b) == IF a > b THEN a ELSE b

-----------------------------------------------------------------------------
(* The server *)

\* The pipeline stores an event, then broadcasts it; a broadcast may be lost.
Store(e) ==
  /\ e \notin db /\ (e \in Late \/ \A f \in db : f < e)
  /\ db' = db \cup {e}
  /\ pushes' \in {pushes, Append(pushes, e)}
  /\ UNCHANGED <<filter, live, list, first, tails, older, moves>>

\* The requests reach the database.
AnswerFirst ==
  /\ first = Asked
  /\ first' = Query(filter, 0, PageSize, 0)
  /\ UNCHANGED <<db, pushes, filter, live, list, tails, older, moves>>

AnswerTail(t) ==
  /\ tails[t] # None /\ tails[t].rows = Asked
  /\ tails' = [tails EXCEPT ![t].rows = Query(filter, tails[t].since, TailLimit, 0)]
  /\ UNCHANGED <<db, pushes, filter, live, list, first, older, moves>>

AnswerOlder ==
  /\ older # None /\ older.rows = Asked
  /\ older' = [older EXCEPT !.rows = Query(older.f, 0, PageSize, older.offset)]
  /\ UNCHANGED <<db, pushes, filter, live, list, first, tails, moves>>

-----------------------------------------------------------------------------
(* The first page *)

Reset ==
  /\ items' = <<>> /\ seen' = {} /\ newest' = 0 /\ hasMore' = TRUE /\ first' = Asked

\* Mutant: the tail's polls survive the filters they were sent for.
SetFilterKeepsTail(f) ==
  /\ f # filter /\ Move /\ filter' = f /\ Reset
  /\ UNCHANGED <<db, pushes, live, tails, older>>

\* The operator changes a filter: both effects start anew, without a row.
SetFilter(f) ==
  /\ f # filter /\ Move /\ filter' = f /\ Reset
  /\ tails' = [t \in Slots |-> None]
  /\ UNCHANGED <<db, pushes, live, older>>

FirstArrives ==
  /\ first \notin {None, Asked}
  /\ items' = first /\ seen' = seen \cup Range(first)
  /\ newest' = IF first = <<>> THEN newest ELSE first[1]
  /\ hasMore' = (Len(first) >= PageSize)
  /\ first' = None
  /\ UNCHANGED <<db, pushes, filter, live, tails, older, moves>>

FirstFails ==
  /\ first # None /\ Move
  /\ first' = None
  /\ UNCHANGED <<db, pushes, filter, live, list, tails, older>>

-----------------------------------------------------------------------------
(* The tail *)

\* Pausing closes the tail's effects; resuming opens them again.
ToggleLive ==
  /\ Move /\ live' = ~live /\ tails' = [t \in Slots |-> None]
  /\ UNCHANGED <<db, pushes, filter, list, first, older>>

\* The interval fires.  It polls from the newest row, and not at all without one.
Tick(t) ==
  /\ live /\ newest # 0 /\ tails[t] = None
  /\ tails' = [tails EXCEPT ![t] = [since |-> newest, rows |-> Asked]]
  /\ UNCHANGED <<db, pushes, filter, live, list, first, older, moves>>

\* Mutant: new rows go to the end, where the cap cuts them off.
PrependLast(rows) ==
  IF rows = <<>> THEN UNCHANGED <<items, seen, newest>>
  ELSE /\ items' = Capped(items \o rows) /\ seen' = seen \cup Range(rows)
       /\ newest' = Later(rows[1], newest)

\* New rows go on top; the newest timestamp only grows.
Prepend(rows) ==
  IF rows = <<>> THEN UNCHANGED <<items, seen, newest>>
  ELSE /\ items' = Capped(rows \o items) /\ seen' = seen \cup Range(rows)
       /\ newest' = Later(rows[1], newest)

TickArrives(t) ==
  /\ tails[t] # None /\ tails[t].rows # Asked
  /\ Prepend(Fresh(tails[t].rows))
  /\ tails' = [tails EXCEPT ![t] = None]
  /\ UNCHANGED <<db, pushes, filter, live, hasMore, first, older, moves>>

TickFails(t) ==
  /\ tails[t] # None /\ Move
  /\ tails' = [tails EXCEPT ![t] = None]
  /\ UNCHANGED <<db, pushes, filter, live, list, first, older>>

\* A broadcast arrives: it is of the whole fleet, and filtered here.
Push ==
  /\ pushes # <<>> /\ pushes' = Tail(pushes)
  /\ LET e == Head(pushes)
     IN  IF live /\ filter \in Local /\ e \in Matches[filter]
         THEN Prepend(Fresh(<<e>>)) ELSE UNCHANGED <<items, seen, newest>>
  /\ UNCHANGED <<db, filter, live, hasMore, first, tails, older, moves>>

-----------------------------------------------------------------------------
(* Older pages *)

\* Below the table, and off while a page is on its way.
OlderOffered == hasMore /\ older = None

\* The offset is the number of rows on the page.
LoadMore ==
  /\ OlderOffered
  /\ older' = [f |-> filter, offset |-> Len(items), rows |-> Asked]
  /\ UNCHANGED <<db, pushes, filter, live, list, first, tails, moves>>

MoreArrives ==
  /\ older # None /\ older.rows # Asked
  /\ items' = items \o Fresh(older.rows)
  /\ seen' = seen \cup Range(older.rows)
  /\ hasMore' = (hasMore /\ Len(older.rows) >= PageSize)
  /\ older' = None
  /\ UNCHANGED <<db, pushes, filter, live, newest, first, tails, moves>>

MoreFails ==
  /\ older # None /\ Move
  /\ older' = None
  /\ UNCHANGED <<db, pushes, filter, live, list, first, tails>>

-----------------------------------------------------------------------------
Next ==
  \/ ToggleLive \/ \E f \in Filters : SetFilter(f)
  \/ AnswerFirst \/ FirstArrives \/ FirstFails
  \/ \E t \in Slots : Tick(t) \/ AnswerTail(t) \/ TickArrives(t) \/ TickFails(t)
  \/ LoadMore \/ AnswerOlder \/ MoreArrives \/ MoreFails
  \/ Push \/ \E e \in Events : Store(e)

\* The browser fires its timers, requests are answered and answers handled.
Fairness ==
  \A t \in Slots :
    WF_vars(Tick(t)) /\ WF_vars(AnswerTail(t)) /\ WF_vars(TickArrives(t))

Spec == Init /\ [][Next]_vars /\ Fairness

-----------------------------------------------------------------------------
(* Properties *)

\* Whatever the order of pages, polls and broadcasts, no event is listed twice.
NoDuplicates == \A i, j \in DOMAIN items : items[i] = items[j] => i = j

\* A row that does not match the filters comes from an older page requested
\* before they changed, and from nothing else: what the first page and the tail
\* of the previous filters still had under way is dropped.
OnlyOlderPageStrays ==
  \A e \in Range(items') \ Range(items) :
    \/ e \in Matches[filter']
    \/ older # None /\ older.f # filter /\ e \in Range(older.rows)

\* With a row to poll from, whatever is stored above it and was not seen before
\* gets on the page, or the operator looks elsewhere; the poll alone is enough.
Missed(f, e) ==
  /\ live /\ filter = f /\ newest # 0
  /\ e \in db \cap Matches[f] /\ e > newest /\ e \notin seen
ShownOrLeft(f, e) == e \in Range(items) \/ filter # f \/ ~live
TailShows == \A f \in Filters \ Local, e \in Events : Missed(f, e) ~> ShownOrLeft(f, e)

\* Why no row is there twice, and why only an older page strays: what is on the page was
\* seen, and what is under way for the first page and the tail answers to the filters
\* in force; the first page holds no row twice.
Once(rows) == \A i, j \in DOMAIN rows : rows[i] = rows[j] => i = j
Answers(rows, f) == rows # Asked => Range(rows) \subseteq Matches[f]

Stored == db \subseteq Events /\ IsFiniteSet(db) /\ pushes \in Rows
Listed ==
  /\ items \in Rows /\ seen \subseteq Events /\ newest \in Events \cup {0}
  /\ Range(items) \subseteq seen /\ Once(items)
Asking ==
  /\ filter \in Filters
  /\ first \in Pending \cup {None}
  /\ first # None => Answers(first, filter) /\ (first # Asked => Once(first))
  /\ tails \in [Slots -> [since : Events, rows : Pending] \cup {None}]
  /\ \A t \in Slots : tails[t] # None => Answers(tails[t].rows, filter)
  /\ older \in [f : Filters, offset : Nat, rows : Pending] \cup {None}
  /\ older # None => Answers(older.rows, older.f)
IInv == Stored /\ Listed /\ Asking
=============================================================================
