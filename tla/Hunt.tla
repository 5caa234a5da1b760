-------------------------------- MODULE Hunt ---------------------------------
(***************************************************************************)
(* From one page of the dashboard to another on the trail of something:    *)
(* the palette, the pivots of the overview, network and DLP pages, and the *)
(* events page with its filters, the details of one event and the response *)
(* actions offered there.                                                  *)
(*                                                                         *)
(* Which rows the pages show is LiveList's and UseData's matter: here the  *)
(* operator may find any event.  The address asks for one thing at most,   *)
(* and the events page reads it once, when it is mounted.  The detections  *)
(* page stands for all that are only gone to.                              *)
(***************************************************************************)
EXTENDS Naturals

CONSTANTS
  Ids,        \* events, and detections
  Facts,      \* of each event: its host, user, pid, path, and domain or hash
  Categories, \* of events
  Root,       \* the user of that name
  None, MaxMoves

VARIABLES
  at, address,     \* the page on show, and what its address asks for
  typed, scope,    \* the text being typed, and the filters in force
  palette,         \* is the palette open?
  sel, pending,    \* the event in the sheet, the action to be confirmed
  posts,           \* requests the server has not answered
  moves            \* bound: what the operator did so far

place == <<at, address>>
query == <<typed, scope>>
sheet == <<sel, pending>>
vars  == <<place, query, palette, sheet, posts, moves>>

Pages == {"overview", "network", "dlp", "events", "detections"}
Of(fact) == {Facts[e][fact] : e \in Ids} \ {None}
Texts == Of("term")
Unfiltered == [category |-> None, agent |-> None, user |-> None, text |-> None]
Asks(by, v) == [by |-> by, v |-> v]
Nothing == Asks("nothing", None)

Addresses ==
  {Nothing} \cup {Asks("category", c) : c \in Categories} \cup {Asks("agent", h) : h \in Of("host")}
  \cup {Asks("user", u) : u \in Of("user")} \cup {Asks("text", t) : t \in Texts}
  \cup {Asks("id", d) : d \in Ids}

\* What each action is aimed at, and when it is offered.
Aim == [kill_process |-> "pid", kill_tree |-> "pid", quarantine_file |-> "path",
        disable_account |-> "user"]
Offered(e, v) ==
  /\ Facts[e][Aim[v]] # None
  /\ v = "disable_account" => Facts[e].user # Root
Choice(e, v) == [event |-> e, verb |-> v, target |-> Facts[e][Aim[v]]]
Request(c) == [agent |-> Facts[c.event].host, verb |-> c.verb, target |-> c.target]

TypeOK ==
  /\ at \in Pages /\ address \in Addresses /\ typed \in Texts \cup {None}
  /\ scope.category \in Categories \cup {None} /\ scope.agent \in Of("host") \cup {None}
  /\ scope.user \in Of("user") \cup {None} /\ scope.text \in Texts \cup {None}
  /\ palette \in BOOLEAN /\ sel \in Ids \cup {None}
  /\ pending # None => pending.event \in Ids /\ pending.verb \in DOMAIN Aim
  /\ moves \in 0..MaxMoves

Move == moves < MaxMoves /\ moves' = moves + 1

Text(ask)  == IF ask.by = "text" THEN ask.v ELSE None
Scope(ask) == IF ask.by \in {"category", "agent", "user"}
              THEN [Unfiltered EXCEPT ![ask.by] = ask.v] ELSE Unfiltered

\* The operator comes to any page, by any address kept or sent.
Init ==
  /\ at \in Pages /\ address \in Addresses
  /\ IF at = "events" THEN typed = Text(address) /\ scope = Scope(address)
     ELSE typed = None /\ scope = Unfiltered
  /\ palette = FALSE /\ sel = None /\ pending = None /\ posts = {} /\ moves = 0

-----------------------------------------------------------------------------
(* Going about *)

\* The effect that hydrates the filters; the text comes into force by Settle.
Hydrate(ask) == typed' = Text(ask) /\ scope' = Scope(ask)

\* A page is mounted with nothing of an earlier one.
Mount(p, ask) ==
  /\ at' = p /\ address' = ask /\ sel' = None /\ pending' = None
  /\ IF p = "events" THEN Hydrate(ask) ELSE typed' = None /\ scope' = Unfiltered

\* router.push: the page one is on is not mounted again.
Go(p, ask) ==
  /\ IF p = at THEN address' = ask /\ UNCHANGED <<at, query, sheet>> ELSE Mount(p, ask)
  /\ UNCHANGED posts

\* window.location: the whole dashboard anew, with no request of the old one.
Load(p, ask) == Mount(p, ask) /\ posts' = {}

\* Free: nothing lies over the page; in the sheet: nothing over it.
Free  == ~palette /\ sel = None
Sheet == ~palette /\ sel # None /\ pending = None

\* Control K, whatever is open.
TogglePalette ==
  Move /\ palette' = ~palette /\ UNCHANGED <<place, query, sheet, posts>>

OpenPalette ==
  Free /\ Move /\ palette' = TRUE /\ UNCHANGED <<place, query, sheet, posts>>

go(p, ask) == palette /\ Move /\ palette' = FALSE /\ Go(p, ask)

Navigate ==
  \/ \E p \in Pages : go(p, Nothing)
  \/ \E h \in Of("host") : go("events", Asks("agent", h))
  \/ \E d \in Ids : go("detections", Asks("id", d))

\* A priority detection, by mouse or key.
OpenDetection(d) ==
  /\ at = "overview" /\ Free /\ Move /\ Go("detections", Asks("id", d)) /\ UNCHANGED palette
\* A bar of the categories.
OpenCategory(c) ==
  /\ at = "overview" /\ Free /\ Move /\ Go("events", Asks("category", c)) /\ UNCHANGED palette

\* A destination.
OpenDestination(t) ==
  /\ at = "network" /\ Free /\ Move /\ Load("events", Asks("text", t)) /\ UNCHANGED palette

\* A field of the sheet of a connection.
Fields(e) ==
  {Asks(f[1], Facts[e][f[2]]) :
     f \in {g \in {<<"agent", "host">>, <<"user", "user">>, <<"text", "term">>} : Facts[e][g[2]] # None}}
PivotAway ==
  /\ at = "network" /\ Sheet /\ Move
  /\ \E ask \in Fields(sel) : Load("events", ask)
  /\ UNCHANGED palette

-----------------------------------------------------------------------------
(* The filters of the events page *)

Edit == at = "events" /\ Free /\ Move /\ UNCHANGED <<place, palette, sheet, posts>>

Type(t)        == Edit /\ typed' = t /\ UNCHANGED scope
SetCategory(c) == Edit /\ scope' = [scope EXCEPT !.category = c] /\ UNCHANGED typed
Clear(f)       == Edit /\ scope[f] # None /\ scope' = [scope EXCEPT ![f] = None] /\ UNCHANGED typed

\* useDebounced: what was typed last, once the typing stops.
Settle ==
  /\ typed # scope.text /\ scope' = [scope EXCEPT !.text = typed]
  /\ UNCHANGED <<place, typed, palette, sheet, posts, moves>>

-----------------------------------------------------------------------------
(* The sheet *)

\* A row of the events.
Open(e) ==
  /\ at = "events" /\ Free /\ Move /\ sel' = e
  /\ UNCHANGED <<place, query, palette, pending, posts>>

\* A row of the connections.
OpenConnection(e) ==
  /\ at = "network" /\ Free /\ Move /\ sel' = e
  /\ UNCHANGED <<place, query, palette, pending, posts>>

\* A row of the incidents.
OpenIncident(e) ==
  /\ at = "dlp" /\ Free /\ Move /\ sel' = e
  /\ UNCHANGED <<place, query, palette, pending, posts>>

Close ==
  /\ Sheet /\ sel' = None
  /\ UNCHANGED <<place, query, palette, pending, posts, moves>>

\* The user, hash or domain of the event becomes a filter.
PivotHere ==
  /\ at = "events" /\ Sheet /\ Move /\ sel' = None
  /\ \/ Facts[sel].user # None /\ scope' = [scope EXCEPT !.user = Facts[sel].user] /\ UNCHANGED typed
     \/ Facts[sel].term # None /\ typed' = Facts[sel].term /\ UNCHANGED scope
  /\ UNCHANGED <<place, palette, pending, posts>>

Choose(v) ==
  /\ at = "events" /\ Sheet /\ Offered(sel, v) /\ Move /\ pending' = Choice(sel, v)
  /\ UNCHANGED <<place, query, palette, sel, posts>>

\* act.
Act(c) == posts' = posts \cup {Request(c)}

Confirm ==
  /\ ~palette /\ pending # None /\ Move /\ Act(pending) /\ pending' = None
  /\ UNCHANGED <<place, query, palette, sel>>

Cancel ==
  /\ ~palette /\ pending # None /\ pending' = None
  /\ UNCHANGED <<place, query, palette, sel, posts, moves>>

\* Whatever the answer, all it leaves is a toast.
Answered(r) ==
  /\ r \in posts /\ posts' = posts \ {r}
  /\ UNCHANGED <<place, query, palette, sheet, moves>>

-----------------------------------------------------------------------------
Next ==
  \/ TogglePalette \/ OpenPalette \/ Navigate \/ PivotAway \/ PivotHere
  \/ Settle \/ Close \/ Confirm \/ Cancel
  \/ \E e \in Ids : OpenDetection(e) \/ Open(e) \/ OpenConnection(e) \/ OpenIncident(e)
  \/ \E c \in Categories : OpenCategory(c) \/ SetCategory(c)
  \/ \E t \in Texts : OpenDestination(t) \/ Type(t)
  \/ \E f \in {"agent", "user"} : Clear(f)
  \/ \E v \in DOMAIN Aim : Choose(v)
  \/ \E r \in posts : Answered(r)

Spec == Init /\ [][Next]_vars

-----------------------------------------------------------------------------
(* Properties *)

\* Wherever the palette, a pivot or a filter has led meanwhile, an action goes out
\* only for the event whose details are still open, against its own host and the
\* process, file or account that event names, and never against root's.
ActsOnShown ==
  posts' \subseteq posts \/
  /\ at = "events" /\ sel # None /\ ~palette
  /\ \E v \in DOMAIN Aim :
       /\ posts' \ posts = {[agent |-> Facts[sel].host, verb |-> v, target |-> Facts[sel][Aim[v]]]}
       /\ Facts[sel][Aim[v]] # None
       /\ v = "disable_account" => Facts[sel].user # Root

\* Why it holds: what waits for its confirmation is an action offered for the event in
\* the sheet, and nothing changes the sheet before that is settled.
IInv ==
  pending # None =>
    /\ at = "events" /\ sel # None
    /\ \E v \in DOMAIN Aim : Offered(sel, v) /\ pending = Choice(sel, v)
=============================================================================
