-------------------------------- MODULE Fleet --------------------------------
(***************************************************************************)
(* The dashboard's Endpoints page (app/(app)/endpoints/page.tsx) with its  *)
(* table, drawer and confirmation and the panel that pushes a policy or an *)
(* update (components/policy-panel.tsx), and the retry of a failed action  *)
(* from the Responses page (app/(app)/responses/page.tsx).                 *)
(*                                                                         *)
(* The drawer is the row as it was when it was opened: polls do not touch  *)
(* it.  Freezing and the USB and upload blocks go the way of isolation and *)
(* are left out, and so is what the drawer merely displays.  Whether an    *)
(* endpoint is online is a matter for the server.                          *)
(***************************************************************************)
EXTENDS Integers, FiniteSets

CONSTANTS
  Agents,           \* numbers
  Hits, PageSize,   \* of the table
  None, MaxReads, MaxMoves

VARIABLES
  srv,       \* the agents table: status by endpoint
  failed,    \* the failed rows of the responses table
  data, asked, replies,     \* useData
  filter, page, selection, view, stored, ticked,   \* DataTable
  sel,       \* the drawer: an endpoint and the status it had
  pending,   \* the confirmation: an endpoint and what to do
  busy,      \* the pushes of the panel in the drawer that are under way
  posts,     \* requests on their way to the server
  bulks,     \* the bulk actions that wait for their requests, by their click
  moves      \* bound: clicks, changes by others and failures so far

list   == <<data, asked, replies>>
table  == <<filter, page, selection, view, stored, ticked>>
vars   == <<srv, failed, list, table, sel, pending, busy, posts, bulks, moves>>

Statuses == {"online", "isolated"}
Pushes   == {"policy", "update"}
Verbs    == {"isolate", "unisolate", "live_triage"} \cup Pushes

Rows == IF data = None THEN {} ELSE DOMAIN data

List == INSTANCE UseData WITH answer <- srv
T    == INSTANCE DataTable WITH rows <- Rows

Lists == UNION {[A -> Statuses] : A \in SUBSET Agents}
Posts == [a : Agents, what : Verbs, bulk : 0..MaxMoves]   \* 0: not in bulk

TypeOK ==
  /\ srv \in Lists /\ failed \subseteq [a : Agents, what : Verbs]
  /\ data \in Lists \cup {None} /\ asked \in 0..MaxReads /\ replies \subseteq Lists
  /\ filter \in DOMAIN Hits /\ page \in Nat /\ ticked \subseteq Agents
  /\ sel \in [a : Agents, status : Statuses] \cup {None}
  /\ pending \in [a : Agents, what : {"isolate", "unisolate"}] \cup {None}
  /\ busy \subseteq Pushes /\ posts \subseteq Posts
  /\ bulks \subseteq 1..MaxMoves /\ moves \in 0..MaxMoves

Init ==
  /\ \E A \in SUBSET Agents : srv \in [A -> Statuses]
  /\ failed = {} /\ data = None /\ asked = 1 /\ replies = {}
  /\ page = 0 /\ selection = {} /\ ticked = {} /\ view = T!Default /\ stored = view
  /\ filter \in {f \in DOMAIN Hits : Hits[f] = Agents}
  /\ sel = None /\ pending = None /\ busy = {} /\ posts = {} /\ bulks = {} /\ moves = 0

Move == moves < MaxMoves /\ moves' = moves + 1
Free == sel = None /\ pending = None

-----------------------------------------------------------------------------
(* The server *)

Enroll(a) ==
  /\ a \notin DOMAIN srv /\ Move
  /\ srv' = [b \in DOMAIN srv \cup {a} |-> IF b = a THEN "online" ELSE srv[b]]
  /\ UNCHANGED <<failed, list, table, sel, pending, busy, posts, bulks>>

\* The console hears of a request what became of it; the panel's buttons come back.
Returned(p) == p \in posts /\ posts' = posts \ {p} /\ busy' = busy \ {p.what}

\* Issue: the command is carried out, or its row ends as failed.
Apply(p) ==
  /\ Returned(p)
  /\ \/ /\ srv' = [srv EXCEPT ![p.a] = CASE p.what = "isolate"   -> "isolated"
                                         [] p.what = "unisolate" -> "online"
                                         [] OTHER                -> @]
        /\ UNCHANGED failed
     \/ failed' = failed \cup {[a |-> p.a, what |-> p.what]} /\ UNCHANGED srv
  /\ UNCHANGED <<list, table, sel, pending, bulks, moves>>

PostFails(p) ==
  /\ Returned(p) /\ Move
  /\ UNCHANGED <<srv, failed, list, table, sel, pending, bulks>>

-----------------------------------------------------------------------------
(* The list and the table *)

Tick  == List!Tick  /\ UNCHANGED <<srv, failed, table, sel, pending, busy, posts, bulks, moves>>
Reply == List!Reply /\ UNCHANGED <<srv, failed, table, sel, pending, busy, posts, bulks, moves>>
ReadFails ==
  /\ List!Fail /\ Move
  /\ UNCHANGED <<srv, failed, table, sel, pending, busy, posts, bulks>>

Receive(r) ==
  /\ List!Receive(r) /\ (IF r = data THEN UNCHANGED page ELSE T!FirstPage)
  /\ UNCHANGED <<srv, failed, filter, selection, view, stored, ticked, sel, pending, busy,
                 posts, bulks, moves>>

UseTable ==
  /\ Free /\ Move
  /\ \/ \E a \in Agents : T!Tick(a)
     \/ T!TickPage
     \/ T!Selected # {} /\ T!Clear
     \/ \E f \in DOMAIN Hits : T!Type(f)
  /\ UNCHANGED <<srv, failed, list, sel, pending, busy, posts, bulks>>

Request(as, what, b) == {[a |-> a, what |-> what, bulk |-> b] : a \in as}

\* Isolate, or lift isolation of, those of the ticked that are not already so.
\* Nothing is asked first.
BulkTargets(what) ==
  {a \in T!Selected : (data[a] = "isolated") = (what = "unisolate")}
Bulk(what) ==
  /\ Free /\ Move /\ T!Selected # {} /\ bulks' = bulks \cup {moves + 1}
  /\ posts' = posts \cup Request(BulkTargets(what), what, moves + 1)
  /\ UNCHANGED <<srv, failed, list, table, sel, pending, busy>>

BulkDone(b) ==
  /\ b \in bulks /\ \A p \in posts : p.bulk # b
  /\ bulks' = bulks \ {b} /\ T!Clear
  /\ UNCHANGED <<srv, failed, list, sel, pending, busy, posts, moves>>

-----------------------------------------------------------------------------
(* One endpoint: from the menu of its row, or from its drawer *)

\* The status the menu or the drawer goes by.
Known(a) == IF sel # None THEN sel.status ELSE data[a]
Offered  == IF pending # None THEN {} ELSE IF sel # None THEN {sel.a} ELSE T!PageRows

Open(a) ==
  /\ Free /\ a \in T!PageRows /\ Move /\ sel' = [a |-> a, status |-> data[a]]
  /\ UNCHANGED <<srv, failed, list, table, pending, busy, posts, bulks>>

\* The panel goes with the drawer.
Close ==
  /\ sel # None /\ pending = None /\ sel' = None /\ busy' = {}
  /\ UNCHANGED <<srv, failed, list, table, pending, posts, bulks, moves>>

Choose(a) ==
  /\ a \in Offered
  /\ pending' = [a |-> a, what |-> IF Known(a) = "isolated" THEN "unisolate" ELSE "isolate"]
  /\ UNCHANGED <<srv, failed, list, table, sel, busy, posts, bulks, moves>>

Act(p) == posts' = posts \cup Request({p.a}, p.what, 0)

Confirm ==
  /\ pending # None /\ Move /\ pending' = None /\ Act(pending)
  /\ UNCHANGED <<srv, failed, list, table, sel, busy, bulks>>

Cancel ==
  /\ pending # None /\ pending' = None
  /\ UNCHANGED <<srv, failed, list, table, sel, busy, posts, bulks, moves>>

\* triage
LiveTriage(a) ==
  /\ a \in Offered /\ Move /\ posts' = posts \cup Request({a}, "live_triage", 0)
  /\ UNCHANGED <<srv, failed, list, table, sel, pending, busy, bulks>>

\* pushPolicy and pushUpdate, once their fields are valid.
Push(what) ==
  /\ sel # None /\ pending = None /\ what \notin busy /\ Move
  /\ busy' = busy \cup {what} /\ posts' = posts \cup Request({sel.a}, what, 0)
  /\ UNCHANGED <<srv, failed, list, table, sel, pending, bulks>>

\* The Responses page offers a failed action again; its row stays.
Retry(f) ==
  /\ f \in failed /\ Move /\ posts' = posts \cup Request({f.a}, f.what, 0)
  /\ UNCHANGED <<srv, failed, list, table, sel, pending, busy, bulks>>

-----------------------------------------------------------------------------
Next ==
  \/ Tick \/ Reply \/ ReadFails \/ (\E r \in replies : Receive(r))
  \/ UseTable \/ Close \/ Confirm \/ Cancel
  \/ \E b \in bulks : BulkDone(b)
  \/ \E what \in {"isolate", "unisolate"} : Bulk(what)
  \/ \E what \in Pushes : Push(what)
  \/ \E f \in failed : Retry(f)
  \/ \E p \in posts : Apply(p) \/ PostFails(p)
  \/ \E a \in Agents : Enroll(a) \/ Open(a) \/ Choose(a) \/ LiveTriage(a)

Spec == Init /\ [][Next]_vars

-----------------------------------------------------------------------------
(* Properties *)

\* Bulk containment reaches only endpoints the operator ticked.
BulkHitsTicked == T!Selected \subseteq ticked

\* An isolation, or its end, is sent for the endpoint and the action the operator
\* confirmed, for one ticked whose list then showed the opposite, or again for one
\* that failed; a drawer or a list that changed meanwhile does not redirect it.
ContainmentHasCause ==
  \A p \in posts' \ posts : p.what \in {"isolate", "unisolate"} =>
    \/ pending # None /\ p.a = pending.a /\ p.what = pending.what
    \/ p.bulk > 0 /\ p.a \in ticked /\ (data[p.a] = "isolated") = (p.what = "unisolate")
    \/ [a |-> p.a, what |-> p.what] \in failed

\* Why they hold: besides the ticks, a failed row says no more than an action and an
\* endpoint, and the first click is numbered one.
FailedPlain == \A f \in failed : f = [a |-> f.a, what |-> f.what]
IInv == T!TicksKept /\ FailedPlain /\ moves \in Nat
=============================================================================
