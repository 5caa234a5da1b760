------------------------------ MODULE CaseDesk -------------------------------
(***************************************************************************)
(* The dashboard's Cases page (app/(app)/cases/page.tsx): the list, the    *)
(* drawer with the case it loads, notes, and the dialog that opens a case. *)
(*                                                                         *)
(* The drawer has an identity, the case selected, and a content, the case  *)
(* last received; three things write the content: the load that follows    *)
(* the selection and every change of the list, and the answers to updates  *)
(* and to notes.  Severity, assignee and the linked detections are left    *)
(* out: a case is its status and how often it was written.                 *)
(***************************************************************************)
EXTENDS Integers, FiniteSets

CONSTANTS
  Cases,                    \* identifiers: numbers, given in turn
  None, Asked,
  MaxReads, MaxMoves        \* bounds

VARIABLES
  srv,       \* the cases table
  status,    \* the filter
  data, asked, replies,   \* useData
  sel,       \* selId: the case the drawer is open for
  detail,    \* the case the drawer shows
  load,      \* the read of the selected case, if the last effect still waits
  note,      \* the composer holds text
  dialog,    \* the New case dialog is open
  busy,      \* and has sent its request
  posts,     \* requests that write, and their answers
  moves      \* bound: selections, writes, changes by others and failures so far

list   == <<data, asked, replies>>
drawer == <<sel, detail, load>>
form   == <<dialog, busy>>
vars   == <<srv, status, list, drawer, note, form, posts, moves>>

Statuses == {"open", "closed"}
Versions == [status : Statuses, rev : 0..MaxMoves]
Shown    == [id : Cases, status : Statuses, rev : 0..MaxMoves]
Lists    == UNION {[C -> Versions] : C \in SUBSET Cases}
Posts    == [what : Statuses \cup {"note", "create"}, id : Cases \cup {None},
             answer : Shown \cup {Asked}]

Case(c) == [id |-> c, status |-> srv[c].status, rev |-> srv[c].rev]

\* ListCases
Query == [c \in {x \in DOMAIN srv : status \in {"all", srv[x].status}} |-> srv[c]]

List == INSTANCE UseData WITH answer <- Query

TypeOK ==
  /\ srv \in Lists /\ status \in {"all"} \cup Statuses
  /\ data \in Lists \cup {None} /\ asked \in 0..MaxReads /\ replies \subseteq Lists
  /\ sel \in Cases \cup {None} /\ detail \in Shown \cup {None}
  /\ load \in Shown \cup {None, Asked} /\ {note, dialog, busy} \subseteq BOOLEAN
  /\ posts \subseteq Posts /\ moves \in 0..MaxMoves

Init ==
  /\ \E n \in Cases \cup {0} : srv = [c \in {x \in Cases : x <= n} |-> [status |-> "open", rev |-> 0]]
  /\ status = "all" /\ data = None /\ asked = 1 /\ replies = {}
  /\ sel = None /\ detail = None /\ load = None /\ note = FALSE
  /\ dialog = FALSE /\ busy = FALSE /\ posts = {} /\ moves = 0

Move == moves < MaxMoves /\ moves' = moves + 1

\* The table can be reached; the drawer and the dialog are modal.
Free == sel = None /\ ~dialog

-----------------------------------------------------------------------------
(* The server *)

\* A fold, or another analyst: the case is written, and its time with it.
Touch(c) ==
  /\ c \in DOMAIN srv /\ Move /\ srv' = [srv EXCEPT ![c].rev = @ + 1]
  /\ UNCHANGED <<status, list, drawer, note, form, posts>>

\* updateCase, addCaseNote, createCase: what was written is the answer.
Apply(p) ==
  /\ p \in posts /\ p.answer = Asked
  /\ LET id == IF p.what = "create" THEN Cardinality(DOMAIN srv) + 1 ELSE p.id
         now == [status |-> IF p.what \in Statuses THEN p.what
                            ELSE IF p.what = "create" THEN "open" ELSE srv[id].status,
                 rev    |-> IF p.what = "create" THEN 0 ELSE srv[id].rev + 1]
     IN  /\ id \in Cases
         /\ srv' = [c \in DOMAIN srv \cup {id} |-> IF c = id THEN now ELSE srv[c]]
         /\ posts' = (posts \ {p}) \cup {[p EXCEPT !.answer =
                       [id |-> id, status |-> now.status, rev |-> now.rev]]}
  /\ UNCHANGED <<status, list, drawer, note, form, moves>>

-----------------------------------------------------------------------------
(* The list and the load of the selected case *)

Tick  == List!Tick  /\ UNCHANGED <<srv, status, drawer, note, form, posts, moves>>
Reply == List!Reply /\ UNCHANGED <<srv, status, drawer, note, form, posts, moves>>
ReadFails == List!Fail /\ Move /\ UNCHANGED <<srv, status, drawer, note, form, posts>>

\* Mutant: an answer on its way for the previous selection still counts.
HydrateKeeps(s) ==
  IF s = None THEN detail' = None /\ load' = None
  ELSE load' = (IF load = None THEN Asked ELSE load) /\ UNCHANGED detail

\* The effect on the selection and the list: it starts anew for this selection.
Hydrate(s) ==
  IF s = None THEN detail' = None /\ load' = None
  ELSE load' = Asked /\ UNCHANGED detail

Receive(r) ==
  /\ List!Receive(r)
  /\ IF r = data THEN UNCHANGED <<detail, load>> ELSE Hydrate(sel)
  /\ UNCHANGED <<srv, status, sel, note, form, posts, moves>>

SetStatus(s) ==
  /\ Free /\ s # status /\ Move
  /\ status' = s /\ List!Restart /\ UNCHANGED data
  /\ UNCHANGED <<srv, drawer, note, form, posts>>

LoadAnswered ==
  /\ load = Asked /\ sel \in DOMAIN srv /\ load' = Case(sel)
  /\ UNCHANGED <<srv, status, list, sel, detail, note, form, posts, moves>>

Loaded ==
  /\ load \notin {None, Asked} /\ detail' = load /\ load' = None
  /\ UNCHANGED <<srv, status, list, sel, note, form, posts, moves>>

LoadFails ==
  /\ load # None /\ Move /\ load' = None
  /\ UNCHANGED <<srv, status, list, sel, detail, note, form, posts>>

-----------------------------------------------------------------------------
(* The drawer *)

\* A selection that does not change runs no effect.
Select(s) == sel' = s /\ (IF s = sel THEN UNCHANGED <<detail, load>> ELSE Hydrate(s))

Open(c) ==
  /\ Free /\ data # None /\ c \in DOMAIN data /\ Move /\ Select(c)
  /\ UNCHANGED <<srv, status, list, note, form, posts>>

Close ==
  /\ sel # None /\ Select(None)
  /\ UNCHANGED <<srv, status, list, note, form, posts, moves>>

Type ==
  /\ sel # None /\ detail # None /\ note' = ~note
  /\ UNCHANGED <<srv, status, list, drawer, form, posts, moves>>

\* The controls are those of the case on show.
Target == detail.id

\* update and addNote
Write(what) ==
  /\ sel # None /\ detail # None /\ (what = "note" => note) /\ Move
  /\ posts' = posts \cup {[what |-> what, id |-> Target, answer |-> Asked]}
  /\ UNCHANGED <<srv, status, list, drawer, note, form>>

\* The answer becomes the drawer's content; after a note the composer is emptied.
Written(p) ==
  /\ p \in posts /\ p.answer # Asked /\ p.what # "create"
  /\ posts' = posts \ {p} /\ detail' = p.answer
  /\ note' = (note /\ p.what # "note")
  /\ UNCHANGED <<srv, status, list, sel, load, form, moves>>

-----------------------------------------------------------------------------
(* The New case dialog, which can be closed while its request is under way *)

OpenDialog  ==
  /\ Free /\ dialog' = TRUE
  /\ UNCHANGED <<srv, status, list, drawer, note, busy, posts, moves>>
CloseDialog ==
  /\ dialog /\ dialog' = FALSE
  /\ UNCHANGED <<srv, status, list, drawer, note, busy, posts, moves>>

Submit ==
  /\ dialog /\ ~busy /\ Move /\ busy' = TRUE
  /\ posts' = posts \cup {[what |-> "create", id |-> None, answer |-> Asked]}
  /\ UNCHANGED <<srv, status, list, drawer, note, dialog>>

\* The new case is selected, whatever the drawer is at by now.
Created(p) ==
  /\ p \in posts /\ p.answer # Asked /\ p.what = "create"
  /\ posts' = posts \ {p} /\ dialog' = FALSE /\ busy' = FALSE /\ Select(p.answer.id)
  /\ UNCHANGED <<srv, status, list, note, moves>>

\* A request or its answer is lost: postJSON tells so instead of throwing, and
\* the dialog can be sent again.
PostFails(p) ==
  /\ p \in posts /\ Move /\ posts' = posts \ {p}
  /\ busy' = (busy /\ p.what # "create")
  /\ UNCHANGED <<srv, status, list, drawer, note, dialog>>

-----------------------------------------------------------------------------
Next ==
  \/ Tick \/ Reply \/ ReadFails \/ (\E r \in replies : Receive(r))
  \/ LoadAnswered \/ Loaded \/ LoadFails \/ Close \/ Type
  \/ OpenDialog \/ CloseDialog \/ Submit
  \/ \E s \in {"all"} \cup Statuses : SetStatus(s)
  \/ \E what \in Statuses \cup {"note"} : Write(what)
  \/ \E c \in Cases : Touch(c) \/ Open(c)
  \/ \E p \in posts : Apply(p) \/ Written(p) \/ Created(p) \/ PostFails(p)

Spec == Init /\ [][Next]_vars

-----------------------------------------------------------------------------
(* Properties *)

\* However loads, polls and selections cross, a load never fills the drawer with
\* another case than the one selected; only answers to writes do.
LoadsShowSelection ==
  detail' \notin {detail, None} /\ posts' = posts => detail'.id = sel

\* Why it holds: what a load brings is the case selected.
IInv == load \notin {None, Asked} => load.id = sel
=============================================================================
