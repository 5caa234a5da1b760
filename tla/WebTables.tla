------------------------------ MODULE WebTables ------------------------------
(***************************************************************************)
(* The older console's tables (web/src/filters.tsx and the pages           *)
(* Endpoints, Detections, Responses, Dlp, Internet and Rules): the list of *)
(* the store that each shows, its rows by kind, text and, on the Endpoints *)
(* page, order, and the counts beside it.                                  *)
(*                                                                         *)
(* A row has a kind: an endpoint's or a detection's status, whether a      *)
(* response was automatic, an incident's classifier, the destination of a  *)
(* connection.  The network page filters nothing, the rules page and the   *)
(* DLP page go by text alone.  What a push does differs from list to list. *)
(* How many rows a page draws is left out.                                 *)
(***************************************************************************)
EXTENDS Lists, Functions

CONSTANTS
  Ids,         \* rows
  Kinds,       \* by page
  Words,       \* of each row: what may be typed that it contains
  Cap,         \* how many rows a list holds
  None, MaxMoves

VARIABLES
  held,           \* by row, the server's: None, or its kind and a number: what a column sorts by, the bytes sent
  answer, feed,   \* reads answered and rows pushed, under way
  list,           \* the store's
  where,          \* the page
  pick, word,     \* kind and text asked for
  key, dir,       \* the order: the column, and 1 or -1
  moves

lists == <<held, answer, feed, list>>
view  == <<pick, word, key, dir>>
vars  == <<lists, where, view, moves>>

Numbers == {1, 2, None}
Versions(i) ==
  [id : {i}, kind : Kinds[where], n : IF where \in {"endpoints", "internet"} THEN Numbers ELSE {None}]
Texts   == UNION {Words[i] : i \in Ids}

\* Pages on events, which never change and are not looked for in the list; and those
\* whose list is read once.
Streams == {"dlp", "internet"}
Once    == Streams \cup {"responses", "rules"}

TypeOK ==
  /\ where \in DOMAIN Kinds /\ Len(list) <= Cap
  /\ \A r \in Range(list) : r.id \in Ids /\ r.kind \in Kinds[where] /\ r.n \in Numbers
  /\ pick \in Kinds[where] \cup {None} /\ word \in Texts \cup {None}
  /\ key \in {"name", "n"} /\ dir \in {1, -1} /\ moves \in 0..MaxMoves

Move == moves < MaxMoves /\ moves' = moves + 1

Init ==
  /\ where \in DOMAIN Kinds
  /\ held \in [Ids -> UNION {Versions(i) : i \in Ids} \cup {None}]
  /\ \A i \in Ids : held[i] \in Versions(i) \cup {None}
  /\ answer = None /\ feed = <<>> /\ list = <<>>
  /\ pick = None /\ word = None /\ key = "name" /\ dir = 1
  /\ moves = 0

-----------------------------------------------------------------------------
(* The lists *)

\* Rules are not pushed.
Changes(i) ==
  /\ where \in Streams => held[i] = None
  /\ Move
  /\ \E r \in Versions(i) \ {held[i]} :
       /\ held[i] # None /\ where \notin {"endpoints", "detections"} => r.kind = held[i].kind
       /\ held' = [held EXCEPT ![i] = r]
       /\ feed' \in {feed} \cup (IF where = "rules" THEN {} ELSE {Append(feed, r)})
  /\ UNCHANGED <<answer, list, where, view>>

\* A read: endpoints by name, the others the newest first.
Answered ==
  /\ answer # None => ~answer.due /\ where \notin Once
  /\ Move
  /\ LET Earlier(a, b) == IF where = "endpoints" THEN a < b ELSE a > b
         ids == Arranged({i \in Ids : held[i] # None}, Earlier)
     IN  answer' = [rows |-> [j \in DOMAIN ids |-> held[ids[j]]], due |-> TRUE]
  /\ UNCHANGED <<held, feed, list, where, view>>

Arrives ==
  /\ answer # None /\ answer.due /\ list' = answer.rows /\ answer' = [answer EXCEPT !.due = FALSE]
  /\ UNCHANGED <<held, feed, where, view, moves>>

\* Mutant: the row that is replaced stays.
IntoTwice(r) == Prefix(<<r>> \o list, Cap)

\* A row pushed: an event in front, an endpoint in its place by name, any other in
\* front and no longer where it was.
Into(r) ==
  LET Rest(Test(_)) == Pick(list, {i \in DOMAIN list : Test(list[i].id)})
  IN  IF where = "endpoints"
      THEN Rest(LAMBDA i : i < r.id) \o <<r>> \o Rest(LAMBDA i : i > r.id)
      ELSE Prefix(<<r>> \o (IF where \in Streams THEN list ELSE Rest(LAMBDA i : i # r.id)), Cap)

Push ==
  /\ feed # <<>> /\ list' = Into(Head(feed)) /\ feed' = Tail(feed)
  /\ UNCHANGED <<held, answer, where, view, moves>>

-----------------------------------------------------------------------------
(* The tables *)

\* The tabs, or the menu of statuses.
Tabs == IF where \in {"endpoints", "detections", "responses"} THEN Kinds[where] \cup {None} ELSE {}

SetKind(k) ==
  /\ k \in Tabs /\ Move /\ pick' = k
  /\ UNCHANGED <<lists, where, word, key, dir>>

SetText(t) ==
  /\ where # "internet" /\ Move /\ word' = t
  /\ UNCHANGED <<lists, where, pick, key, dir>>

\* The header of a column: that of the column in force turns the order round.
Toggle(k) ==
  /\ where = "endpoints" /\ Move
  /\ key' = k /\ dir' = IF k = key THEN -dir ELSE 1
  /\ UNCHANGED <<lists, where, pick, word>>

matchText(r) == word = None \/ word \in Words[r.id]
Matches(r) == pick \in {None, r.kind} /\ matchText(r)

Value(r) == IF key = "name" THEN r.id ELSE r.n

\* Unknown numbers sink whatever the direction.
Over(a, b) ==
  IF b = None THEN a # None ELSE a # None /\ a * dir < b * dir

\* Rows of one place in the order stay as they are in the list.
Above(i, j) ==
  LET v == Value(list[i])  w == Value(list[j])
  IN  IF where = "endpoints" /\ Over(v, w) # Over(w, v) THEN Over(v, w) ELSE i < j

Shown == {i \in DOMAIN list : Matches(list[i])}
Rows  == LET at == Arranged(Shown, Above) IN [k \in DOMAIN at |-> list[at[k]]]

\* How many rows are of a kind: on its tab, beside a classifier, of a destination.
Count(k) == Cardinality({i \in DOMAIN list : list[i].kind = k})

\* The bytes sent to a destination, and those there are, the most bytes first.
Bytes(r) == IF r.n = None THEN 0 ELSE r.n
Out(k)   == Sum([i \in DOMAIN list |-> IF list[i].kind = k THEN Bytes(list[i]) ELSE 0])
totalOut == Sum([i \in DOMAIN list |-> Bytes(list[i])])

Heads == {i \in DOMAIN list : \A j \in 1..(i - 1) : list[j].kind # list[i].kind}
topDomains ==
  LET Higher(i, j) ==
        LET v == Out(list[i].kind)  w == Out(list[j].kind) IN v > w \/ (v = w /\ i < j)
      at == Arranged(Heads, Higher)
  IN  [k \in DOMAIN at |-> list[at[k]].kind]

-----------------------------------------------------------------------------
Next ==
  \/ Answered \/ Arrives \/ Push
  \/ \E i \in Ids : Changes(i)
  \/ \E k \in {"name", "n"} : Toggle(k)
  \/ \E k \in Tabs : SetKind(k)
  \/ \E t \in Texts \cup {None} : SetText(t)

Spec == Init /\ [][Next]_vars

-----------------------------------------------------------------------------
(* Properties *)

\* No row is in s twice.
Listing(s) == IsInjective([j \in DOMAIN s |-> s[j].id])

\* However reads and pushes cross, a list that is patched has each row once; the
\* table has the rows asked for, in order, the unknown last in both directions; and
\* the counts add up to the list, the one of the kind asked for to the table.
ListedOnce ==
  /\ where \notin Streams => Listing(list)
  /\ pick # None /\ word = None => Len(Rows) = Count(pick)
  /\ Range(Rows) = {r \in Range(list) : Matches(r)}
  /\ where = "endpoints" => \A i, j \in DOMAIN Rows : i < j =>
       LET a == Value(Rows[i])  b == Value(Rows[j])
       IN  b = None \/ (a # None /\ a * dir <= b * dir)
  /\ LET top == topDomains IN
       /\ Sum([k \in DOMAIN top |-> Count(top[k])]) = Len(list)
       /\ Sum([k \in DOMAIN top |-> Out(top[k])]) = totalOut
       /\ \A i, j \in DOMAIN top : i < j => Out(top[i]) >= Out(top[j]) /\ top[i] # top[j]

\* What makes it so: no list is ever answered with a row twice.
Row == UNION {Versions(i) : i \in Ids}
IInv ==
  /\ held \in [Ids -> Row \cup {None}] /\ \A i \in Ids : held[i] \in Versions(i) \cup {None}
  /\ feed \in Seq(Row) /\ list \in Seq(Row)
  /\ answer = None \/ (answer \in [rows : Seq(Row), due : BOOLEAN] /\ Listing(answer.rows))
  /\ where \notin Streams => Listing(list)
  /\ key \in {"name", "n"} /\ dir \in {1, -1}
=============================================================================
