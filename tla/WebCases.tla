------------------------------ MODULE WebCases -------------------------------
(***************************************************************************)
(* The older console's Cases page and the drawer of one case               *)
(* (web/src/pages/Cases.tsx): its loads, its changes of status and         *)
(* assignee and its notes, each a request followed by a load.              *)
(*                                                                         *)
(* The drawer covers the rows but they can still be reached by keyboard,   *)
(* and then the drawer changes its case and keeps all else.  Nothing marks *)
(* an answer as meant for an earlier case.  A note is a number, blank ones *)
(* are left out.  The page's own list is read anew after each change and   *)
(* is otherwise kept as WebStore says.                                     *)
(***************************************************************************)
EXTENDS Naturals, FiniteSets

CONSTANTS Cases, None, MaxMoves

VARIABLES
  srv,      \* the cases: status, assigned or not, notes
  cases,    \* the store's list: what it knows of the cases
  filter,   \* the page's status filter
  act,      \* whether the operator's role may act
  sel,      \* the case whose drawer is open
  detail,   \* what the drawer shows: a case as it was loaded
  note,     \* the text in its field
  busy,
  task,     \* update or submitNote: what it waits for
  loads,    \* loads of the drawer under way, and their answers
  moves     \* bound: clicks, texts typed and failures so far

drawer == <<sel, detail, note, busy>>
vars   == <<srv, cases, filter, act, drawer, task, loads, moves>>

Statuses == {"open", "investigating", "contained", "closed"}
Texts    == 1..MaxMoves
Case     == [status : Statuses, mine : BOOLEAN, notes : SUBSET Texts]
Shown    == [id : Cases, of : Case]
Bodies   == [status : Statuses \cup {None}, text : Texts \cup {None}]   \* neither: assign

\* A task: its case and body, and whether the request was answered; "here" while the
\* drawer that started it is there.
TypeOK ==
  /\ srv \in [Cases -> Case] /\ cases \in [Cases -> Statuses]
  /\ filter \in Statuses \cup {"all"} /\ act \in BOOLEAN
  /\ sel \in Cases \cup {None} /\ detail \in Shown \cup {None}
  /\ note \in Texts \cup {None} /\ busy \in BOOLEAN
  /\ task = None \/ (task.id \in Cases /\ task.body \in Bodies /\ task.done \in BOOLEAN)
  /\ \A l \in loads : l.id \in Cases /\ l.got \in Case \cup {None} /\ l.last \in BOOLEAN
  /\ moves \in 0..MaxMoves

New == [status |-> "open", mine |-> FALSE, notes |-> {}]

Init ==
  /\ srv = [k \in Cases |-> New] /\ cases = [k \in Cases |-> "open"] /\ filter = "all"
  /\ act \in BOOLEAN /\ sel = None /\ detail = None /\ note = None /\ busy = FALSE
  /\ task = None /\ loads = {} /\ moves = 0

Move == moves < MaxMoves /\ moves' = moves + 1

\* What a body makes of a case.
Write(c, b) ==
  IF b.status # None    THEN [c EXCEPT !.status = b.status]
  ELSE IF b.text # None THEN [c EXCEPT !.notes = @ \cup {b.text}]
  ELSE [c EXCEPT !.mine = TRUE]

-----------------------------------------------------------------------------
(* The page *)

\* The page lists the cases of the status chosen.
Rows == {k \in Cases : filter \in {"all", cases[k]}}

SetFilter(f) ==
  /\ f # filter /\ Move /\ filter' = f
  /\ UNCHANGED <<srv, cases, act, drawer, task, loads>>

\* A drawer that opens, or turns to another case, loads it.
Load(k, last) == [id |-> k, got |-> None, last |-> last]
Open(k) ==
  /\ k \in Rows /\ k # sel /\ Move /\ sel' = k
  /\ loads' = loads \cup {Load(k, FALSE)}
  /\ UNCHANGED <<srv, cases, filter, act, detail, note, busy, task>>

\* The drawer goes with all it keeps.  What it waits for may still reach the server.
Close ==
  /\ sel # None /\ sel' = None /\ detail' = None /\ note' = None /\ busy' = FALSE
  /\ task' = None /\ loads' = {}
  /\ srv' \in {srv} \cup {[srv EXCEPT ![t.id] = Write(@, t.body)] :
                          t \in {x \in {task} \ {None} : ~x.done}}
  /\ UNCHANGED <<cases, filter, act, moves>>

\* A colleague works on a case, and the store hears of it.
Colleague(k) ==
  /\ Move /\ \E s \in Statuses : srv' = [srv EXCEPT ![k].status = s]
  /\ cases' = [cases EXCEPT ![k] = srv'[k].status]
  /\ UNCHANGED <<filter, act, drawer, task, loads>>

-----------------------------------------------------------------------------
(* The drawer *)

LoadAnswered(l) ==
  /\ l \in loads /\ l.got = None
  /\ loads' = (loads \ {l}) \cup {[l EXCEPT !.got = srv[l.id]]}
  /\ UNCHANGED <<srv, cases, filter, act, drawer, task, moves>>

\* The end of a change: the page reads its list, and the drawer is free.
Finish ==
  /\ task' = None /\ busy' = FALSE
  /\ cases' = [k \in Cases |-> srv[k].status]

\* A load that fails leaves what there was.  The last of a change ends it.
Loaded(l) ==
  /\ l \in loads /\ loads' = loads \ {l}
  /\ \/ l.got # None /\ detail' = [id |-> l.id, of |-> l.got] /\ UNCHANGED moves
     \/ l.got = None /\ Move /\ UNCHANGED detail
  /\ IF l.last THEN Finish ELSE UNCHANGED <<task, busy, cases>>
  /\ UNCHANGED <<srv, filter, act, sel, note>>

\* Mutant: the field takes text while a note is sent.
TypeAlways(t) ==
  /\ detail # None /\ act /\ t # note /\ Move /\ note' = t
  /\ UNCHANGED <<srv, cases, filter, act, sel, detail, busy, task, loads>>

Type(t) ==
  /\ detail # None /\ act /\ ~busy /\ t # note /\ Move /\ note' = t
  /\ UNCHANGED <<srv, cases, filter, act, sel, detail, busy, task, loads>>

\* The changes the drawer offers for what it shows.
Offered ==
  [status : {None} \cup (Statuses \ {detail.of.status, "open"})
             \cup (IF detail.of.status = "closed" THEN {"open"} ELSE {}), text : {None}]
  \cup [status : {None}, text : {note} \ {None}]

\* update and submitNote: of the case the drawer is open for.
Send(body) ==
  /\ detail # None /\ act /\ ~busy /\ body \in Offered /\ Move
  /\ busy' = TRUE /\ task' = [id |-> sel, body |-> body, done |-> FALSE]
  /\ UNCHANGED <<srv, cases, filter, act, sel, detail, note, loads>>

\* The server has it; the field is cleared of a note, and the case loaded again.
Sent ==
  /\ task # None /\ ~task.done /\ task' = [task EXCEPT !.done = TRUE]
  /\ srv' = [srv EXCEPT ![task.id] = Write(@, task.body)]
  /\ note' = IF task.body.text # None THEN None ELSE note
  /\ loads' = loads \cup {Load(task.id, TRUE)}
  /\ UNCHANGED <<cases, filter, act, sel, detail, busy, moves>>

SendFails ==
  /\ task # None /\ ~task.done /\ Move /\ task' = None /\ busy' = FALSE
  /\ UNCHANGED <<srv, cases, filter, act, sel, detail, note, loads>>

-----------------------------------------------------------------------------
Next ==
  \/ Close \/ Sent \/ SendFails
  \/ \E f \in {"all", "closed"} : SetFilter(f)
  \/ \E k \in Cases : Open(k) \/ Colleague(k)
  \/ \E l \in loads : LoadAnswered(l) \/ Loaded(l)
  \/ \E t \in Texts \cup {None} : Type(t)
  \/ detail # None /\ \E b \in Offered : Send(b)

Spec == Init /\ [][Next]_vars

-----------------------------------------------------------------------------
(* Properties *)

\* Whatever is loaded, sent or opened meanwhile, text leaves the field of a note only
\* when the operator changes it or closes the drawer, or when the server has it.
NoteKept ==
  note' # note =>
    \/ sel' = None
    \/ \E t \in Texts \cup {None} : Type(t)
    \/ note \in UNION {srv'[k].notes : k \in Cases}

\* What makes it so: a note under way is in the field, which takes nothing meanwhile,
\* and there is no task without a drawer.
NoteInField ==
  task # None =>
    /\ busy /\ task \in [id : Cases, body : Bodies, done : BOOLEAN]
    /\ task.body.text # None => task.body.status = None
    /\ task.body.text # None /\ ~task.done => note = task.body.text
IInv ==
  /\ srv \in [Cases -> Case] /\ sel \in Cases \cup {None} /\ note \in Texts \cup {None}
  /\ sel = None => detail = None /\ loads = {} /\ task = None
  /\ NoteInField
=============================================================================
