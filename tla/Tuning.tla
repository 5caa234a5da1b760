------------------------------- MODULE Tuning --------------------------------
(***************************************************************************)
(* The dashboard's Rules page (app/(app)/rules/page.tsx): the switches of  *)
(* the detection rules, one by one or in bulk, and the suppressions, which *)
(* are added by a dialog and removed by a button.                          *)
(*                                                                         *)
(* Two lists are read here, and a write that succeeded reads both anew: it *)
(* changes the number in their paths (bump), which closes the effects that *)
(* read the old ones.  The server's tuning is the cache its lists of rules *)
(* are read from; n, how often it was written, is history and no part of   *)
(* an answer's text.  The table of suppressions has no ticks and is left   *)
(* out.                                                                    *)
(***************************************************************************)
EXTENDS Integers, FiniteSets

CONSTANTS
  Rules,            \* numbers, by severity
  Supps,            \* suppressions
  Hits, PageSize,   \* of the table of rules
  Columns,          \* those that can be hidden
  None, Asked, Gone,
  MaxReads, MaxMoves

VARIABLES
  srv,       \* the tuning: rules that are on, suppressions, and n
  data, asked, replies,      \* useData of the rules
  supps, sasked, sreplies,   \* useData of the suppressions
  filter, page, selection, view, stored, ticked,   \* DataTable
  dialog,    \* the New suppression dialog is open
  busy,      \* and has sent its request
  posts,     \* requests that write, and their answers
  bulks,     \* the bulk actions that wait for their requests, by their click
  told,      \* history: n when the page was last told of a write
  moves      \* bound: clicks, changes by others and failures so far

list   == <<data, asked, replies>>
slist  == <<supps, sasked, sreplies>>
table  == <<filter, page, selection, view, stored, ticked>>
vars   == <<srv, list, slist, table, dialog, busy, posts, bulks, told, moves>>

RuleLists == [on : SUBSET Rules, n : 0..MaxMoves]
SuppLists == [supps : SUBSET Supps, n : 0..MaxMoves]
Verbs     == {"on", "off", "remove", "create"}
Posts == [what : Verbs, of : Rules \cup Supps \cup {None},
          bulk : 0..MaxMoves \cup {Gone},       \* 0: not in bulk; Gone: the page is
          answer : {Asked, "ok", "refused", "lost"}]

Rows == IF data = None THEN {} ELSE Rules

R == INSTANCE UseData   WITH answer <- [on |-> srv.on, n |-> srv.n]
S == INSTANCE UseData   WITH answer <- [supps |-> srv.supps, n |-> srv.n],
                             data <- supps, asked <- sasked, replies <- sreplies
T == INSTANCE DataTable WITH rows <- Rows

TypeOK ==
  /\ srv \in [on : SUBSET Rules, supps : SUBSET Supps, n : 0..MaxMoves]
  /\ data \in RuleLists \cup {None} /\ replies \subseteq RuleLists
  /\ supps \in SuppLists \cup {None} /\ sreplies \subseteq SuppLists
  /\ {asked, sasked} \subseteq 0..MaxReads
  /\ filter \in DOMAIN Hits /\ page \in Nat /\ ticked \subseteq Rules
  /\ {dialog, busy} \subseteq BOOLEAN /\ posts \subseteq Posts
  /\ bulks \subseteq 1..MaxMoves /\ told \in 0..MaxMoves /\ moves \in 0..MaxMoves

Init ==
  /\ srv \in [on : {Rules}, supps : {{}}, n : {0}]
  /\ data = None /\ asked = 1 /\ replies = {}
  /\ supps = None /\ sasked = 1 /\ sreplies = {}
  /\ page = 0 /\ selection = {} /\ ticked = {} /\ view = T!Default /\ stored = view
  /\ filter \in {f \in DOMAIN Hits : Hits[f] = Rules}
  /\ dialog = FALSE /\ busy = FALSE /\ posts = {} /\ bulks = {} /\ told = 0 /\ moves = 0

Move == moves < MaxMoves /\ moves' = moves + 1

-----------------------------------------------------------------------------
(* The server *)

\* What a request makes of the tuning.
Written(what, x) ==
  [on    |-> CASE what = "on" -> srv.on \cup {x} [] what = "off" -> srv.on \ {x}
               [] OTHER -> srv.on,
   supps |-> CASE what = "create" -> srv.supps \cup {x} [] what = "remove" -> srv.supps \ {x}
               [] OTHER -> srv.supps,
   n     |-> srv.n + 1]

OtherAdmin(what, x) ==
  /\ Move /\ srv' = Written(what, x)
  /\ UNCHANGED <<list, slist, table, dialog, busy, posts, bulks, told>>

Answer(p, a) == posts' = (posts \ {p}) \cup {[p EXCEPT !.answer = a]}

\* toggleRule, deleteSuppression, createSuppression
Apply(p) ==
  /\ p \in posts /\ p.answer = Asked
  /\ IF p.what = "create" THEN \E s \in Supps \ srv.supps : srv' = Written("create", s)
     ELSE srv' = Written(p.what, p.of)
  /\ Answer(p, "ok")
  /\ UNCHANGED <<list, slist, table, dialog, busy, bulks, told, moves>>

\* The role is too low; or there is no answer, which makes post throw.
Refuse(p, a) ==
  /\ p \in posts /\ p.answer = Asked /\ Move /\ Answer(p, a)
  /\ UNCHANGED <<srv, list, slist, table, dialog, busy, bulks, told>>

-----------------------------------------------------------------------------
(* The lists *)

Tick   == R!Tick  /\ UNCHANGED <<srv, slist, table, dialog, busy, posts, bulks, told, moves>>
Reply  == R!Reply /\ UNCHANGED <<srv, slist, table, dialog, busy, posts, bulks, told, moves>>
STick  == S!Tick  /\ UNCHANGED <<srv, list, table, dialog, busy, posts, bulks, told, moves>>
SReply == S!Reply /\ UNCHANGED <<srv, list, table, dialog, busy, posts, bulks, told, moves>>
ReadFails ==
  /\ Move
  /\ \/ R!Fail /\ UNCHANGED slist
     \/ S!Fail /\ UNCHANGED list
  /\ UNCHANGED <<srv, table, dialog, busy, posts, bulks, told>>

Receive(r) ==
  /\ R!Receive(r)
  /\ IF data # None /\ r.on = data.on THEN UNCHANGED page ELSE T!FirstPage
  /\ UNCHANGED <<srv, slist, filter, selection, view, stored, ticked, dialog, busy, posts,
                 bulks, told, moves>>

SReceive(r) ==
  /\ S!Receive(r)
  /\ UNCHANGED <<srv, list, table, dialog, busy, posts, bulks, told, moves>>

\* The number in the paths goes up: both effects start anew.
Reload == R!Restart /\ S!Restart /\ UNCHANGED <<data, supps>>

\* The page is left and opened again.  Requests go on without it.
Reopen ==
  /\ Move /\ R!Restart /\ S!Restart /\ data' = None /\ supps' = None /\ T!Mount
  /\ dialog' = FALSE /\ busy' = FALSE /\ bulks' = {}
  /\ posts' = {[p EXCEPT !.bulk = Gone] : p \in posts}
  /\ UNCHANGED <<srv, told>>

-----------------------------------------------------------------------------
(* The table of rules *)

UseTable ==
  /\ ~dialog /\ Move
  /\ \/ \E r \in Rules : T!Tick(r)
     \/ T!TickPage
     \/ T!Selected # {} /\ T!Clear
     \/ \E f \in DOMAIN Hits : T!Type(f)
     \/ T!ToggleSort \/ T!ToggleDensity
     \/ \E c \in Columns : T!ToggleColumn(c)
     \/ \E p \in {page - 1, page + 1} : T!Turn(p)
  /\ UNCHANGED <<srv, list, slist, dialog, busy, posts, bulks, told>>

Request(what, xs, b) ==
  {[what |-> what, of |-> x, bulk |-> b, answer |-> Asked] : x \in xs}

\* The switch of a row on show says the opposite of the list.
Toggle(r) ==
  /\ ~dialog /\ r \in T!PageRows /\ Move
  /\ posts' = posts \cup Request(IF r \in data.on THEN "off" ELSE "on", {r}, 0)
  /\ UNCHANGED <<srv, list, slist, table, dialog, busy, bulks, told>>

\* bulkToggle: those that are so already, too.
Bulk(what) ==
  /\ ~dialog /\ T!Selected # {} /\ Move /\ bulks' = bulks \cup {moves + 1}
  /\ posts' = posts \cup Request(what, T!Selected, moves + 1)
  /\ UNCHANGED <<srv, list, slist, table, dialog, busy, told>>

RemoveSupp(s) ==
  /\ ~dialog /\ supps # None /\ s \in supps.supps /\ Move
  /\ posts' = posts \cup Request("remove", {s}, 0)
  /\ UNCHANGED <<srv, list, slist, table, dialog, busy, bulks, told>>

-----------------------------------------------------------------------------
(* The dialog, which can be closed while its request is under way *)

SwitchDialog ==
  /\ dialog' = ~dialog
  /\ UNCHANGED <<srv, list, slist, table, busy, posts, bulks, told, moves>>

Submit ==
  /\ dialog /\ ~busy /\ Move /\ busy' = TRUE /\ posts' = posts \cup Request("create", {None}, 0)
  /\ UNCHANGED <<srv, list, slist, table, dialog, bulks, told>>

-----------------------------------------------------------------------------
(* Answers *)

Settled(p) == p \in posts /\ p.answer # Asked

\* A single write: only one that succeeded reads anew.  Without an answer post
\* throws, and the button of the dialog stays off.
Done(p) ==
  /\ Settled(p) /\ p.bulk = 0 /\ posts' = posts \ {p}
  /\ IF p.answer = "ok" THEN Reload /\ told' = srv.n ELSE UNCHANGED <<list, slist, told>>
  /\ dialog' = (dialog /\ ~(p.what = "create" /\ p.answer = "ok"))
  /\ busy' = (busy /\ (p.what = "create" => p.answer = "lost"))
  /\ UNCHANGED <<srv, table, bulks, moves>>

\* All of a bulk have come back: the ticks go, and both lists are read anew, also
\* when some were refused.
BulkDone(b) ==
  LET of == {p \in posts : p.bulk = b}
  IN  /\ b \in bulks /\ \A p \in of : p.answer \in {"ok", "refused"}
      /\ bulks' = bulks \ {b} /\ posts' = posts \ of /\ T!Clear /\ Reload
      /\ told' = (IF \E p \in of : p.answer = "ok" THEN srv.n ELSE told)
      /\ UNCHANGED <<srv, dialog, busy, moves>>

\* One that threw ends the wait for the others, and neither happens.
BulkThrows(b) ==
  /\ b \in bulks /\ \E p \in posts : p.bulk = b /\ p.answer = "lost"
  /\ bulks' = bulks \ {b} /\ posts' = {IF p.bulk = b THEN [p EXCEPT !.bulk = Gone] ELSE p : p \in posts}
  /\ UNCHANGED <<srv, list, slist, table, dialog, busy, told, moves>>

\* Nobody waits for it any more.
Unheard(p) ==
  /\ Settled(p) /\ p.bulk = Gone /\ posts' = posts \ {p}
  /\ UNCHANGED <<srv, list, slist, table, dialog, busy, bulks, told, moves>>

-----------------------------------------------------------------------------
Next ==
  \/ Tick \/ Reply \/ STick \/ SReply \/ ReadFails
  \/ (\E r \in replies : Receive(r)) \/ (\E r \in sreplies : SReceive(r))
  \/ Reopen \/ UseTable \/ SwitchDialog \/ Submit
  \/ \E r \in Rules : Toggle(r) \/ OtherAdmin("off", r)
  \/ \E s \in Supps : RemoveSupp(s) \/ OtherAdmin("create", s)
  \/ \E what \in {"on", "off"} : Bulk(what)
  \/ \E b \in bulks : BulkDone(b) \/ BulkThrows(b)
  \/ \E p \in posts :
       Apply(p) \/ Done(p) \/ Unheard(p) \/ \E a \in {"refused", "lost"} : Refuse(p, a)

Spec == Init /\ [][Next]_vars

-----------------------------------------------------------------------------
(* Properties *)

\* A bulk action switches only rules the operator ticked.
BulkHitsTicked == T!Selected \subseteq ticked

\* Once the page was told that a write succeeded, no list it takes in was read
\* before that: what was under way for the old list is thrown away.
ReadYourWrites ==
  /\ data'  \notin {data, None}  => data'.n  >= told
  /\ supps' \notin {supps, None} => supps'.n >= told

\* Why they hold: what is still under way was read after the write the page was last
\* told of.
ReadSinceTold ==
  /\ srv.n \in Nat /\ told \in Nat /\ told <= srv.n
  /\ \A r \in replies \cup sreplies : r.n \in Nat /\ r.n >= told
IInv == T!TicksKept /\ ReadSinceTold
=============================================================================
