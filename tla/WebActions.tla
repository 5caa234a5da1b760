----------------------------- MODULE WebActions ------------------------------
(***************************************************************************)
(* The older console's Detections and Endpoints pages                      *)
(* (web/src/pages/Detections.tsx, Endpoints.tsx) with the drawer of one    *)
(* row, the analysis of a detection by AI, and the buttons that want a     *)
(* second click within three seconds (ConfirmButton in components.tsx).    *)
(*                                                                         *)
(* A drawer is a copy of its row: what the store learns later does not     *)
(* reach it.  As on the Cases page another row can be opened under it by   *)
(* keyboard, and its buttons stay as they are.  Disabling an account goes  *)
(* the way of isolation, and blocking uploads that of blocking USB.        *)
(***************************************************************************)
EXTENDS Naturals, FiniteSets

CONSTANTS Items, None, MaxMoves

VARIABLES
  desk,      \* the page
  rows,      \* the store's list: the status of each row
  traced,    \* the detections whose process is among the store's events
  act,       \* whether the operator's role may act
  sel,       \* the drawer: a row and the status it has there
  armed,     \* by button: the click that armed it, or 0
  timers,    \* timeouts that will disarm one
  triaging, triage, asked,   \* the analysis: under way, shown, requested for
  posts,     \* requests on their way to the server
  moves      \* bound: clicks, changes and failures so far

drawer == <<sel, armed, timers>>
ai     == <<triaging, triage, asked>>
vars   == <<desk, rows, traced, act, drawer, ai, posts, moves>>

Buttons  == {"kill_process", "isolate", "block_usb"}
Status   == [detections |-> {"open", "acknowledged", "closed"},
             endpoints  |-> {"online", "isolated"}]
Verbs    == Buttons \cup {"unisolate"} \cup Status["detections"]

TypeOK ==
  /\ desk \in DOMAIN Status /\ rows \in [Items -> Status[desk]]
  /\ traced \subseteq Items /\ act \in BOOLEAN
  /\ sel = None \/ (sel.id \in Items /\ sel.status \in Status[desk])
  /\ armed \in [Buttons -> 0..MaxMoves] /\ timers \subseteq Buttons \X (1..MaxMoves)
  /\ triaging \in BOOLEAN /\ triage \in Items \cup {None} /\ asked \subseteq Items
  /\ \A p \in posts : p.id \in Items /\ p.what \in Verbs
  /\ moves \in 0..MaxMoves

Disarmed == [k \in Buttons |-> 0]

Init ==
  /\ desk \in DOMAIN Status /\ rows \in [Items -> Status[desk]]
  /\ traced \in (IF desk = "detections" THEN SUBSET Items ELSE {{}}) /\ act \in BOOLEAN
  /\ sel = None /\ armed = Disarmed /\ timers = {}
  /\ triaging = FALSE /\ triage = None /\ asked = {} /\ posts = {} /\ moves = 0

Move == moves < MaxMoves /\ moves' = moves + 1

\* Another analyst, an agent or time changes a row, and the store hears of it.
Learn(i) ==
  /\ Move /\ \E s \in Status[desk] \ {rows[i]} : rows' = [rows EXCEPT ![i] = s]
  /\ UNCHANGED <<desk, traced, act, drawer, ai, posts>>

-----------------------------------------------------------------------------
(* Buttons that want a second click *)

\* The buttons of the drawer of x: a detection offers the process it can trace, an
\* endpoint the isolation it does not have in the drawer.
Offered(x) ==
  IF ~act THEN {}
  ELSE IF desk = "detections"
       THEN {"isolate"} \cup (IF x.id \in traced THEN {"kill_process"} ELSE {})
       ELSE {"block_usb"} \cup (IF x.status = "isolated" THEN {} ELSE {"isolate"})

\* Buttons no longer offered are unmounted, and with them their timeouts.
Keep(K) ==
  /\ armed' = [k \in Buttons |-> IF k \in K THEN armed[k] ELSE 0]
  /\ timers' = {t \in timers : t[1] \in K}

\* Mutant: a button stays armed.
ArmForGood(k) ==
  /\ sel # None /\ k \in Offered(sel) /\ armed[k] = 0 /\ Move
  /\ armed' = [armed EXCEPT ![k] = moves + 1] /\ UNCHANGED timers
  /\ UNCHANGED <<desk, rows, traced, act, sel, ai, posts>>

\* The first click, and the effect that sets the timeout.
Arm(k) ==
  /\ sel # None /\ k \in Offered(sel) /\ armed[k] = 0 /\ Move
  /\ armed' = [armed EXCEPT ![k] = moves + 1] /\ timers' = timers \cup {<<k, moves + 1>>}
  /\ UNCHANGED <<desk, rows, traced, act, sel, ai, posts>>

\* Cancel and the second click run the effect's cleanup, which clears the timeout.
Disarm(k) ==
  /\ armed[k] # 0 /\ armed' = [armed EXCEPT ![k] = 0]
  /\ timers' = timers \ {<<k, armed[k]>>}

Cancel(k) == Disarm(k) /\ UNCHANGED <<desk, rows, traced, act, sel, ai, posts, moves>>

\* Three seconds are over.
Lapse(t) ==
  /\ t \in timers /\ timers' = timers \ {t} /\ armed' = [armed EXCEPT ![t[1]] = 0]
  /\ UNCHANGED <<desk, rows, traced, act, sel, ai, posts, moves>>

Post(what) == posts' = posts \cup {[id |-> sel.id, what |-> what]}

\* onConfirm: respond or act, for the row the drawer has now.
Confirm(k) ==
  /\ Disarm(k) /\ Move /\ Post(k)
  /\ UNCHANGED <<desk, rows, traced, act, sel, ai>>

\* Isolation is lifted by one click.
Lift ==
  /\ desk = "endpoints" /\ act /\ sel # None /\ sel.status = "isolated" /\ Move
  /\ Post("unisolate")
  /\ UNCHANGED <<desk, rows, traced, act, drawer, ai>>

-----------------------------------------------------------------------------
(* The drawer *)

\* The effect on the drawer's row resets what is shown of an analysis, and not that
\* one is under way.
Turn(x) ==
  /\ sel' = x /\ Keep(IF x = None THEN {} ELSE Offered(x))
  /\ triage' = IF sel # None /\ x # None /\ sel.id = x.id THEN triage ELSE None
  /\ UNCHANGED <<triaging, asked>>

Open(i) ==
  /\ Move /\ Turn([id |-> i, status |-> rows[i]])
  /\ UNCHANGED <<desk, rows, traced, act, posts>>

Close ==
  /\ sel # None /\ Turn(None)
  /\ UNCHANGED <<desk, rows, traced, act, posts, moves>>

\* New events push an old one out of the store, and with it a process to kill.
Untrace(i) ==
  /\ i \in traced /\ Move /\ traced' = traced \ {i}
  /\ IF sel # None /\ sel.id = i THEN Keep(Buttons \ {"kill_process"})
     ELSE UNCHANGED <<armed, timers>>
  /\ UNCHANGED <<desk, rows, act, sel, ai, posts>>

\* Acknowledge and Close: offered to every role, refused by the server to a viewer.
SetStat(s) ==
  /\ desk = "detections" /\ sel # None /\ s \in {"acknowledged", "closed"} /\ Move /\ Post(s)
  /\ UNCHANGED <<desk, rows, traced, act, drawer, ai>>

\* The answer to a request.  setStat writes the status into the drawer there is now.
Answered(p) ==
  /\ p \in posts /\ posts' = posts \ {p}
  /\ \/ Move /\ UNCHANGED <<rows, sel>>
     \/ /\ act \/ p.what \notin Status["detections"]
        /\ IF p.what \in Status["detections"]
           THEN /\ rows' = [rows EXCEPT ![p.id] = p.what]
                /\ sel' = IF sel = None THEN None ELSE [sel EXCEPT !.status = p.what]
           ELSE UNCHANGED <<rows, sel>>
        /\ UNCHANGED moves
  /\ UNCHANGED <<desk, traced, act, armed, timers, ai>>

\* runTriage: one at a time, whichever detection is open.
RunTriage ==
  /\ desk = "detections" /\ sel # None /\ ~triaging /\ triage = None /\ Move
  /\ triaging' = TRUE /\ asked' = asked \cup {sel.id}
  /\ UNCHANGED <<desk, rows, traced, act, drawer, triage, posts>>

\* The result is shown, though for another detection than the one now open.
Triaged(i) ==
  /\ i \in asked /\ asked' = asked \ {i} /\ triaging' = FALSE /\ triage' \in {i, triage}
  /\ UNCHANGED <<desk, rows, traced, act, drawer, posts, moves>>

-----------------------------------------------------------------------------
Next ==
  \/ Lift \/ Close \/ RunTriage
  \/ \E i \in Items : Learn(i) \/ Open(i) \/ Untrace(i) \/ Triaged(i)
  \/ \E k \in Buttons : Arm(k) \/ Cancel(k) \/ Confirm(k)
  \/ \E t \in timers : Lapse(t)
  \/ \E s \in {"acknowledged", "closed"} : SetStat(s)
  \/ \E p \in posts : Answered(p)

Spec == Init /\ [][Next]_vars

-----------------------------------------------------------------------------
(* Properties *)

\* Killing a process, isolating a host or blocking its ports needs two clicks on one
\* button, the second before the timeout the first one set: whatever opened, closed,
\* lapsed or was cancelled between, no stray first click is left to be completed.
SecondClick ==
  \A p \in posts' \ posts : p.what \in Buttons => <<p.what, armed[p.what]>> \in timers

\* What makes it so: a button that is armed has the timeout that will disarm it.
IInv ==
  /\ armed \in [Buttons -> Nat] /\ moves \in Nat
  /\ \A k \in Buttons : armed[k] # 0 => <<k, armed[k]>> \in timers
=============================================================================
