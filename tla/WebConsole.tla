----------------------------- MODULE WebConsole ------------------------------
(***************************************************************************)
(* The older console as one state machine: its session and store, its      *)
(* Cases page, its Detections and Endpoints pages, the process tree, and   *)
(* its tables.  As in Console a behaviour shows one part of it, chosen at  *)
(* the start, with the variables of the others at None: the pages only     *)
(* read the store, and say so.                                             *)
(***************************************************************************)
EXTENDS ConsoleState, Integers, FiniteSets, Sequences

CONSTANTS
  Clicks,                 \* the parts there are, and the bound of each
  Places, Refused,        \* WebStore
  Marks, Cited, FirstRead, Listed,   \* WebHunt
  Kinds, Words            \* WebTables

ASSUME WebConsoleAssumption ==
  /\ DOMAIN Clicks \subseteq {"store", "cases", "actions", "hunt", "tables"}
  /\ \A p \in DOMAIN Clicks : Clicks[p] \in Nat \ {0}
  /\ IsFiniteSet(Places) /\ Cardinality(Places) >= 2
  /\ Ids \subseteq Nat /\ IsFiniteSet(Ids) /\ {Cap, FirstRead, Listed} \subseteq Nat \ {0}
  /\ Events \subseteq Nat /\ IsFiniteSet(Events) /\ None \notin Ids \cup Events
  /\ Cited \in [DOMAIN Cited -> Seq(Events)]

VARIABLES
  act,
  issued, valid, srvAgents, srvDets, user, screen, login, logouts,
  reads, strays, agents, detections, seenDet, toasts,     \* WebStore
  cases, task, loads,                                     \* WebCases
  desk, rows, traced, armed, triaging,                    \* WebActions
  got, frames, events, cat, focus,                        \* WebHunt
  held, answer, feed, list, where, pick, word, key, dir   \* WebTables

kept    == <<issued, valid, srvAgents, srvDets, cookie, token, user, screen, login, logouts,
             reads, strays, agents, detections, seenDet, toasts, ws, pushes>>
filed   == <<srv, cases, filter, detail, note, busy, task, loads>>
drawers == <<desk, rows, traced, armed, timers, triaging, triage, asked, posts>>
treed   == <<stored, got, frames, events, at, cat, focus>>
tabled  == <<held, answer, feed, list, where, pick, word, key, dir>>
webVars == <<part, moves, act, sel, kept, filed, drawers, treed, tabled>>

Store == INSTANCE WebStore   WITH Dets <- Ids, MaxMoves <- Clicks["store"]
Desk  == INSTANCE WebCases   WITH Cases <- Ids, MaxMoves <- Clicks["cases"]
Hands == INSTANCE WebActions WITH Items <- Ids, MaxMoves <- Clicks["actions"]
Tree  == INSTANCE WebHunt    WITH Facts <- Marks, MaxMoves <- Clicks["hunt"]
Table == INSTANCE WebTables  WITH MaxMoves <- Clicks["tables"]

storeVars == Store!vars

-----------------------------------------------------------------------------
NoStore ==
  /\ issued = None /\ valid = None /\ srvAgents = None /\ srvDets = None
  /\ cookie = None /\ token = None /\ user = None /\ screen = None
  /\ login = None /\ logouts = None /\ reads = None /\ strays = None
  /\ agents = None /\ detections = None /\ seenDet = None /\ toasts = None
  /\ ws = None /\ pushes = None
NoDesk ==
  /\ srv = None /\ cases = None /\ filter = None /\ detail = None
  /\ note = None /\ busy = None /\ task = None /\ loads = None
NoDrawers ==
  /\ desk = None /\ rows = None /\ traced = None /\ armed = None /\ timers = None
  /\ triaging = None /\ triage = None /\ asked = None /\ posts = None
NoTree ==
  /\ stored = None /\ got = None /\ frames = None /\ events = None
  /\ at = None /\ cat = None /\ focus = None
NoTables ==
  /\ held = None /\ answer = None /\ feed = None /\ list = None /\ where = None
  /\ pick = None /\ word = None /\ key = None /\ dir = None

WebInit ==
  /\ part \in DOMAIN Clicks
  /\ \/ part = "store"   /\ Store!Init
     \/ part # "store"   /\ NoStore
  /\ \/ part = "cases"   /\ Desk!Init
     \/ part # "cases"   /\ NoDesk
  /\ \/ part = "actions" /\ Hands!Init
     \/ part # "actions" /\ NoDrawers
  /\ \/ part = "hunt"    /\ Tree!Init
     \/ part # "hunt"    /\ NoTree
  /\ \/ part = "tables"  /\ Table!Init
     \/ part # "tables"  /\ NoTables
  /\ part \notin {"cases", "actions"} => act = None
  /\ part \in {"store", "tables"} => sel = None

WebNext ==
  \/ part = "store"   /\ Store!Next /\ UNCHANGED <<part, act, sel, filed, drawers, treed, tabled>>
  \/ part = "cases"   /\ Desk!Next  /\ UNCHANGED <<part, kept, drawers, treed, tabled>>
  \/ part = "actions" /\ Hands!Next /\ UNCHANGED <<part, kept, filed, treed, tabled>>
  \/ part = "hunt"    /\ Tree!Next  /\ UNCHANGED <<part, act, kept, filed, drawers, tabled>>
  \/ part = "tables"  /\ Table!Next /\ UNCHANGED <<part, act, sel, kept, filed, drawers, treed>>

\* The interval fires, and reads are answered and their answers handled.
WebFairness ==
  /\ WF_storeVars(part = "store" /\ Store!Interval)
  /\ \A p \in Places :
       /\ WF_storeVars(part = "store" /\ Store!Answer(p))
       /\ WF_storeVars(part = "store" /\ Store!Arrives(p))

WebSpec == WebInit /\ [][WebNext]_webVars /\ WebFairness

-----------------------------------------------------------------------------
(* Properties *)

\* A console whose session the server no longer accepts ends at the sign-in page,
\* also when only a reload or another tab's sign-out showed it, and never goes on
\* reloading; unless another tab brings a session that is accepted.
RefusedEndsAtLogin ==
  (part = "store" /\ Store!Adrift) ~> (part = "store" /\ ~Store!Adrift)

\* Frames are lost, answers overtake each other and frames: in the end an open
\* console shows the endpoints as they are.
AgentsCatchUp == <>[](part = "store" => Store!AgentsShown)

\* However reads and frames cross, a row of a list that is patched is listed once, a
\* detection toasted at most once in the life of the store, and what a table shows is
\* what was asked for, in order, and agrees with the counts beside it.
ListedOnce ==
  /\ part = "store"  => Store!ListedOnce
  /\ part = "tables" => Table!ListedOnce

\* Whatever events come, leave at the limit, come twice or have the pid of another,
\* and wherever the operator went, the process tree is one about its focus: a chain of
\* parents up from it and the children it has.
TreeAboutFocus == part = "hunt" => Tree!TreeAboutFocus

\* Whatever is loaded, sent or opened meanwhile, text leaves the field of a note only
\* when the operator changes it or closes the drawer, or when the server has it.
NoteKept == [][part = "cases" => Desk!NoteKept]_webVars

\* Killing a process, isolating a host or blocking its ports needs two clicks on one
\* button, the second before the timeout the first one set.
SecondClick == [][part = "actions" => Hands!SecondClick]_webVars

\* What makes it so, part by part.
WebInv ==
  /\ part \in DOMAIN Clicks
  /\ part = "store"   => Store!IInv
  /\ part = "cases"   => Desk!IInv
  /\ part = "actions" => Hands!IInv
  /\ part = "hunt"    => Tree!IInv
  /\ part = "tables"  => Table!IInv
=============================================================================
