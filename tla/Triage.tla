------------------------------- MODULE Triage --------------------------------
(***************************************************************************)
(* The dashboard's Detections page (app/(app)/detections/page.tsx) with    *)
(* its table, its drawer, the triage by AI in the drawer and the           *)
(* confirmation of containment, against the detections of the server.      *)
(*                                                                         *)
(* The drawer and the confirmation are modal: while one is open the table  *)
(* cannot be reached.  Detections are numbered as they arise.  A request   *)
(* that writes reaches the server some time after the click, in any order, *)
(* or never.  Toasts, and what a drawer merely displays, are left out.     *)
(***************************************************************************)
EXTENDS Integers, FiniteSets

CONSTANTS
  Dets,             \* detections: numbers
  Severe,           \* those of the severity the second filter selects
  Hits, PageSize,   \* of the table
  Limit,            \* how many detections a read returns
  Links,            \* what the page's address may name: None, or a detection
  None,
  MaxReads, MaxMoves   \* moves

VARIABLES
  srv,       \* the detections table: status by detection, those there are
  deep,      \* the detection the page's address names, if any
  status, sev,              \* the two filters
  data, asked, replies,     \* useData
  filter, page, selection, view, stored, ticked,   \* DataTable
  sel,       \* the drawer: a detection and the status it shows
  pending,   \* the confirmation: a detection and what to do
  asks,      \* triages by AI this drawer still waits for
  triage,    \* the one it shows, by the detection it is about
  posts,     \* requests on their way to the server
  bulks,     \* the bulk actions that wait for their requests, by their click
  moves      \* bound: clicks, changes by others and failures so far

list   == <<data, asked, replies>>
table  == <<filter, page, selection, view, stored, ticked>>
drawer == <<sel, asks, triage>>
vars   == <<srv, deep, status, sev, list, table, drawer, pending, posts, bulks, moves>>

Statuses == {"open", "closed"}   \* "acknowledged" is treated as "closed" is
Verbs    == Statuses \cup {"isolate", "escalate"}

Newest(S) == {d \in S : Cardinality({e \in S : e > d}) < Limit}

\* ListDetections
Query ==
  LET of == {d \in DOMAIN srv : status = "all" \/ srv[d] = status}
  IN  [d \in Newest(of) |-> srv[d]]

Rows == IF data = None THEN {}
        ELSE {d \in DOMAIN data : sev = "all" \/ d \in Severe}

List == INSTANCE UseData WITH answer <- Query
T    == INSTANCE DataTable WITH rows <- Rows

Lists == UNION {[D -> Statuses] : D \in SUBSET Dets}
Posts == [d : Dets, what : Verbs, bulk : 0..MaxMoves]   \* 0: not in bulk

TypeOK ==
  /\ srv \in Lists /\ deep \in Links
  /\ status \in {"all"} \cup Statuses /\ sev \in {"all", "severe"}
  /\ data \in Lists \cup {None} /\ asked \in 0..MaxReads /\ replies \subseteq Lists
  /\ filter \in DOMAIN Hits /\ page \in Nat /\ ticked \subseteq Dets
  /\ sel \in [d : Dets, status : Statuses] \cup {None}
  /\ pending \in [d : Dets, what : {"isolate"}] \cup {None}
  /\ asks \subseteq Dets /\ triage \in Dets \cup {None}
  /\ posts \subseteq Posts /\ bulks \subseteq 1..MaxMoves
  /\ moves \in 0..MaxMoves

\* The page as it opens; its address may name a detection.
Opened ==
  /\ deep \in Links /\ status = "all" /\ sev = "all"
  /\ data = None /\ asked = 1 /\ replies = {}
  /\ page = 0 /\ selection = {} /\ ticked = {} /\ view = T!Default /\ stored = view
  /\ filter \in {f \in DOMAIN Hits : Hits[f] = Dets}
  /\ sel = None /\ pending = None /\ asks = {} /\ triage = None /\ bulks = {}

Init ==
  /\ \E D \in SUBSET Dets : srv \in [D -> {"open"}]
  /\ Opened /\ posts = {} /\ moves = 0

Move == moves < MaxMoves /\ moves' = moves + 1

\* The table can be reached.
Free == sel = None /\ pending = None

-----------------------------------------------------------------------------
(* The server: detections arise, others work on them, requests arrive *)

Detect(d) ==
  /\ \A e \in DOMAIN srv : e < d
  /\ srv' = [e \in DOMAIN srv \cup {d} |-> IF e = d THEN "open" ELSE srv[e]]
  /\ UNCHANGED <<deep, status, sev, list, table, drawer, pending, posts, bulks, moves>>

OtherAnalyst(d, s) ==
  /\ d \in DOMAIN srv /\ srv[d] # s /\ Move
  /\ srv' = [srv EXCEPT ![d] = s]
  /\ UNCHANGED <<deep, status, sev, list, table, drawer, pending, posts, bulks>>

\* UpdateDetectionStatus; containment and cases are other modules' concern.
Apply(p) ==
  /\ p \in posts /\ posts' = posts \ {p}
  /\ srv' = (IF p.what \in Statuses THEN [srv EXCEPT ![p.d] = p.what] ELSE srv)
  /\ UNCHANGED <<deep, status, sev, list, table, drawer, pending, bulks, moves>>

PostFails(p) ==
  /\ p \in posts /\ posts' = posts \ {p} /\ Move
  /\ UNCHANGED <<srv, deep, status, sev, list, table, drawer, pending, bulks>>

-----------------------------------------------------------------------------
(* The list and what follows it *)

Tick  == List!Tick  /\ UNCHANGED <<srv, deep, status, sev, table, drawer, pending, posts, bulks, moves>>
Reply == List!Reply /\ UNCHANGED <<srv, deep, status, sev, table, drawer, pending, posts, bulks, moves>>
ReadFails ==
  /\ List!Fail /\ Move
  /\ UNCHANGED <<srv, deep, status, sev, table, drawer, pending, posts, bulks>>

\* A drawer for another detection forgets the triage it shows; one closed, all.
Show(s) ==
  /\ sel' = s
  /\ triage' = (IF s # None /\ sel # None /\ s.d = sel.d THEN triage ELSE None)
  /\ asks' = (IF s = None THEN {} ELSE asks)

\* New rows: the address opens its drawer, and an open drawer follows its own
\* detection; when both apply the second effect has the last word.
Follow(rows) ==
  IF sel # None /\ sel.d \in DOMAIN rows /\ rows[sel.d] # sel.status
  THEN Show([sel EXCEPT !.status = rows[sel.d]])
  ELSE IF deep \in DOMAIN rows THEN Show([d |-> deep, status |-> rows[deep]])
  ELSE UNCHANGED drawer

Receive(r) ==
  /\ List!Receive(r)
  /\ IF r = data THEN UNCHANGED <<drawer, table>>
     ELSE Follow(r) /\ T!FirstPage /\ UNCHANGED <<filter, selection, view, stored, ticked>>
  /\ UNCHANGED <<srv, deep, status, sev, pending, posts, bulks, moves>>

\* Another status is another path; the severity is applied to what is there.
SetStatus(s) ==
  /\ Free /\ s # status /\ Move
  /\ status' = s /\ List!Restart /\ UNCHANGED data
  /\ UNCHANGED <<srv, deep, sev, table, drawer, pending, posts, bulks>>

SetSev(v) ==
  /\ Free /\ v # sev /\ Move
  /\ sev' = v /\ T!FirstPage
  /\ UNCHANGED <<srv, deep, status, list, drawer, pending, posts, bulks,
                 filter, selection, view, stored, ticked>>

-----------------------------------------------------------------------------
(* The table *)

UseTable ==
  /\ Free
  /\ \/ \E d \in Dets : T!Tick(d)
     \/ T!TickPage
     \/ T!Selected # {} /\ T!Clear
     \/ \E f \in DOMAIN Hits : T!Type(f)
  /\ Move
  /\ UNCHANGED <<srv, deep, status, sev, list, drawer, pending, posts, bulks>>

Send(ds, what, b) ==
  /\ Move
  /\ posts' = posts \cup {[d |-> d, what |-> what, bulk |-> b] : d \in ds}
  /\ UNCHANGED <<srv, deep, status, sev, list, table, drawer, pending>>

\* Acknowledge, close or escalate what is ticked, hidden by the text or not.
Bulk(what) ==
  /\ Free /\ T!Selected # {} /\ bulks' = bulks \cup {moves + 1}
  /\ Send(T!Selected, what, moves + 1)

\* All requests of the bulk action have come back, in whatever way.
BulkDone(b) ==
  /\ b \in bulks /\ \A p \in posts : p.bulk # b
  /\ bulks' = bulks \ {b} /\ T!Clear
  /\ UNCHANGED <<srv, deep, status, sev, list, drawer, pending, posts, moves>>

-----------------------------------------------------------------------------
(* One detection: from the menu of its row, or from its drawer *)

Offered == IF pending # None THEN {}
           ELSE IF sel # None THEN {sel.d} ELSE T!PageRows

Open(d) ==
  /\ Free /\ d \in T!PageRows /\ Show([d |-> d, status |-> data[d]])
  /\ Move
  /\ UNCHANGED <<srv, deep, status, sev, list, table, pending, posts, bulks>>

Close ==
  /\ sel # None /\ pending = None /\ Show(None)
  /\ Move
  /\ UNCHANGED <<srv, deep, status, sev, list, table, pending, posts, bulks>>

\* setStat and escalate go out at once.
SetStat(d, what) ==
  /\ d \in Offered /\ Send({d}, what, 0) /\ UNCHANGED bulks

\* Containment asks first.
Choose(d) ==
  /\ d \in Offered /\ pending' = [d |-> d, what |-> "isolate"]
  /\ Move
  /\ UNCHANGED <<srv, deep, status, sev, list, table, drawer, posts, bulks>>

\* Mutant: on whatever the drawer shows by now.
ActOnDrawer(p) ==
  posts' = posts \cup {[d |-> IF sel = None THEN p.d ELSE sel.d, what |-> p.what, bulk |-> 0]}

\* run: on what was asked about.
Act(p) == posts' = posts \cup {[d |-> p.d, what |-> p.what, bulk |-> 0]}

Confirm ==
  /\ pending # None /\ pending' = None /\ Move /\ Act(pending)
  /\ UNCHANGED <<srv, deep, status, sev, list, table, drawer, bulks>>

Cancel ==
  /\ pending # None /\ pending' = None
  /\ Move
  /\ UNCHANGED <<srv, deep, status, sev, list, table, drawer, posts, bulks>>

\* The button is off while an analysis is under way, and gone once one is shown.
Analyze ==
  /\ sel # None /\ pending = None /\ triage = None /\ Move
  /\ asks' = asks \cup {sel.d}
  /\ UNCHANGED <<srv, deep, status, sev, list, table, sel, triage, pending, posts, bulks>>

\* The drawer is still there: it shows the answer, whichever it asked for.  An
\* analysis that failed leaves what it shows.
Analyzed(d) ==
  /\ d \in asks /\ asks' = asks \ {d} /\ triage' \in {d, triage}
  /\ UNCHANGED <<srv, deep, status, sev, list, table, sel, pending, posts, bulks, moves>>

-----------------------------------------------------------------------------
Next ==
  \/ Tick \/ Reply \/ ReadFails \/ (\E r \in replies : Receive(r))
  \/ UseTable \/ (\E b \in bulks : BulkDone(b)) \/ Close \/ Confirm \/ Cancel \/ Analyze
  \/ \E s \in {"all"} \cup Statuses : SetStatus(s)
  \/ \E v \in {"all", "severe"} : SetSev(v)
  \/ \E what \in {"closed", "escalate"} : Bulk(what)
  \/ \E p \in posts : Apply(p) \/ PostFails(p)
  \/ \E d \in Dets :
       \/ Detect(d) \/ Open(d) \/ Choose(d) \/ Analyzed(d)
       \/ \E s \in Statuses : OtherAnalyst(d, s)
       \/ \E what \in Statuses \cup {"escalate"} : SetStat(d, what)

\* The interval fires, reads are answered and answers handled.
Fairness == WF_vars(Tick) /\ WF_vars(Reply) /\ WF_vars(\E r \in replies : Receive(r))

Spec == Init /\ [][Next]_vars /\ Fairness

-----------------------------------------------------------------------------
(* Properties *)

\* However rows come, go and move under the ticks, a bulk action reaches only
\* detections the operator ticked.
BulkHitsTicked == T!Selected \subseteq ticked

\* Containment goes to the detection the confirmation names, wherever polls have
\* moved the drawer since it was opened.
ContainmentConfirmed ==
  \A p \in posts' \ posts : p.what = "isolate" => pending # None /\ p.d = pending.d

\* The list never takes in rows of a status it no longer asks for.
NoStaleRows ==
  data' # data => \A d \in DOMAIN data' : status \in {"all", data'[d]}

\* Why they hold: what is still under way answers to the status asked for now.
AnswersToStatus == \A r \in replies : \A d \in DOMAIN r : status \in {"all", r[d]}
IInv == T!TicksKept /\ AnswersToStatus
=============================================================================
