------------------------------ MODULE WebStore -------------------------------
(***************************************************************************)
(* The older console's session and store (web/src/App.tsx, api.ts,         *)
(* store.tsx, ws.ts): signing in and out, reloads, what happens when the   *)
(* server refuses a call, the lists read when the console opens, the one   *)
(* list that is polled, and the WebSocket that patches them.               *)
(*                                                                         *)
(* The token lives in the page and goes with a reload; user and role are   *)
(* in the tab's storage and decide what is shown; the cookie is the        *)
(* browser's, shared with other tabs.  Of the lists there are agents, one  *)
(* endpoint's status here, which is polled, and detections, which are not: *)
(* overview goes the way of the first, and responses, cases and events the *)
(* way of the second.                                                      *)
(***************************************************************************)
EXTENDS Lists, Functions

CONSTANTS
  Dets,       \* detections
  Places,     \* reads that may be under way at once
  None, Refused, MaxMoves

VARIABLES
  issued, valid,                 \* the server: sessions so far, those it accepts
  srvAgents, srvDets,            \* and what it would answer to a read
  cookie, token, user, screen,   \* the browser's credentials, and what it shows
  login, logouts,                \* requests under way that change the cookie
  reads,                         \* reads under way, and their answers
  strays,                        \* credentials of reads of a store that is gone
  agents, detections, seenDet,   \* the store
  toasts,                        \* history: toasts about a detection since the load
  ws, pushes,                    \* the WebSocket, and frames on it
  moves                          \* bound: clicks, changes and failures so far

server  == <<issued, valid, srvAgents, srvDets>>
session == <<cookie, token, user, screen>>
store   == <<agents, detections, seenDet, toasts>>
socket  == <<ws, pushes>>
under   == <<login, logouts, strays>>
vars    == <<server, session, under, reads, store, socket, moves>>

Sessions == 1..MaxMoves
Statuses == {"online", "offline"}
Lists    == {"agents", "detections"}
Frame(what, v, open) == [what |-> what, v |-> v, open |-> open]

\* A read: its list, the credential it carries and, once given, the answer.
TypeOK ==
  /\ issued \in 0..MaxMoves /\ valid \subseteq Sessions
  /\ srvAgents \in Statuses /\ Range(srvDets) \subseteq Dets
  /\ {cookie, token} \subseteq Sessions \cup {None}
  /\ user \in BOOLEAN /\ screen \in {"login", "app"}
  /\ login \in BOOLEAN /\ logouts \in 0..MaxMoves
  /\ strays \subseteq Sessions \cup {None}
  /\ \A p \in Places : reads[p] # None =>
       /\ reads[p].of \in Lists /\ reads[p].cred \in Sessions \cup {None}
       /\ reads[p].of = "agents" => reads[p].got \in {None, Refused} \cup Statuses
       /\ reads[p].of = "detections" =>
            reads[p].got \in {None, Refused} \/ Range(reads[p].got) \subseteq Dets
  /\ agents \in Statuses \cup {None} /\ Range(detections) \subseteq Dets
  /\ seenDet \subseteq Dets /\ toasts \in [Dets -> Nat]
  /\ ws \in {None, "closed", "open"} /\ moves \in 0..MaxMoves

Move == moves < MaxMoves /\ moves' = moves + 1

\* The server goes by the header, else by the cookie.
Cred == IF token # None THEN token ELSE cookie

Empty == agents' = None /\ detections' = <<>> /\ seenDet' = {} /\ toasts' = [d \in Dets |-> 0]

\* A store opens, or none, and reads under c; nothing is left of an earlier one.
Read(list, c) == [of |-> list, cred |-> c, got |-> None]
Mount(c) ==
  /\ Empty /\ ws' = "closed" /\ pushes' = <<>>
  /\ LET p == CHOOSE x \in Places : TRUE
         q == CHOOSE x \in Places \ {p} : TRUE IN
     reads' = [x \in Places |-> CASE x = p -> Read("agents", c)
                                  [] x = q -> Read("detections", c)
                                  [] OTHER -> None]
Unmount == Empty /\ ws' = None /\ pushes' = <<>> /\ reads' = [p \in Places |-> None]

Init ==
  /\ issued = 0 /\ valid = {} /\ srvAgents \in Statuses /\ srvDets = <<>>
  /\ cookie = None /\ token = None /\ user = FALSE /\ screen = "login"
  /\ login = FALSE /\ logouts = 0 /\ strays = {} /\ reads = [p \in Places |-> None]
  /\ agents = None /\ detections = <<>> /\ seenDet = {} /\ toasts = [d \in Dets |-> 0]
  /\ ws = None /\ pushes = <<>> /\ moves = 0

-----------------------------------------------------------------------------
(* Signing in and out *)

submit ==
  /\ screen = "login" /\ ~login /\ Move /\ login' = TRUE
  /\ UNCHANGED <<server, session, logouts, strays, reads, store, socket>>

\* setSession and onAuthed; the answer sets the cookie.
SignedIn ==
  /\ login /\ login' = FALSE
  /\ issued' = issued + 1 /\ valid' = valid \cup {issued + 1}
  /\ cookie' = issued + 1 /\ token' = issued + 1 /\ user' = TRUE /\ screen' = "app"
  /\ Mount(issued + 1)
  /\ UNCHANGED <<srvAgents, srvDets, logouts, strays, moves>>

\* Mutant: the user stays in the tab's storage.
clearSessionHalf ==
  token' = None /\ logouts' = logouts + 1 /\ UNCHANGED <<cookie, user>>

\* The logout request is not waited for.
clearSession ==
  token' = None /\ user' = FALSE /\ logouts' = logouts + 1 /\ UNCHANGED cookie

\* Wrong credentials (401) clear the session; any other failure does not.
LoginFails ==
  /\ login /\ Move /\ login' = FALSE
  /\ clearSession \/ UNCHANGED <<cookie, token, user, logouts>>
  /\ UNCHANGED <<server, screen, strays, reads, store, socket>>

\* The answer to a logout takes the cookie, whose ever it is by now.
LoggedOut ==
  /\ logouts > 0 /\ logouts' = logouts - 1 /\ cookie' \in {None, cookie}
  /\ UNCHANGED <<server, token, user, screen, login, strays, reads, store, socket, moves>>

\* Exit in the top bar: without a reload, so that reads under way may yet be refused.
Exit ==
  /\ screen = "app" /\ Move /\ clearSession /\ screen' = "login" /\ Unmount
  /\ strays' = strays \cup {reads[p].cred : p \in {q \in Places : reads[q] # None}}
  /\ UNCHANGED <<server, login>>

\* The page starts anew: the token is gone, and all that was under way but a logout.
Opens(u) ==
  /\ token' = None /\ login' = FALSE /\ strays' = {}
  /\ IF u THEN screen' = "app" /\ Mount(cookie) ELSE screen' = "login" /\ Unmount

Reload ==
  /\ Move /\ Opens(user)
  /\ UNCHANGED <<server, cookie, user, logouts>>

\* Another tab signs in or out.
OtherTab ==
  /\ Move
  /\ \/ issued' = issued + 1 /\ valid' = valid \cup {issued + 1} /\ cookie' = issued + 1
     \/ cookie' = None /\ UNCHANGED <<issued, valid>>
  /\ UNCHANGED <<srvAgents, srvDets, token, user, screen, under, reads, store, socket>>

\* Sessions end after a while, or all of them when the server's secret changes.
Expire ==
  /\ valid # {} /\ Move
  /\ valid' \in {{}} \cup {valid \ {s} : s \in valid}
  /\ UNCHANGED <<issued, srvAgents, srvDets, session, under, reads, store, socket>>

-----------------------------------------------------------------------------
(* Reads *)

Ask(list) ==
  /\ screen = "app"
  /\ \E p \in Places :
       /\ reads[p] = None
       /\ reads' = [reads EXCEPT ![p] = Read(list, Cred)]
  /\ UNCHANGED <<server, session, under, store, socket>>

\* Mutant: agents are read while there are none.
IntervalOnce == agents = None /\ Ask("agents") /\ UNCHANGED moves

\* The interval of eight seconds.
Interval == Ask("agents") /\ UNCHANGED moves

\* refreshDetections, after the operator changed the status of one.
refreshDetections == Move /\ Ask("detections")

Value(list) == IF list = "agents" THEN srvAgents ELSE srvDets

Answer(p) ==
  /\ reads[p] # None /\ reads[p].got = None
  /\ reads' = [reads EXCEPT ![p].got =
                 IF reads[p].cred \in valid THEN Value(reads[p].of) ELSE Refused]
  /\ UNCHANGED <<server, session, under, store, socket, moves>>

\* A failed read is swallowed.
ReadFails(p) ==
  /\ reads[p] # None /\ reads[p].got = None /\ Move
  /\ reads' = [reads EXCEPT ![p] = None]
  /\ UNCHANGED <<server, session, under, store, socket>>

\* req: a 401 clears the session, whose ever it is by now, and reloads the page.
Unauthorized == clearSession /\ Opens(user')

\* The answer replaces the list.
Arrives(p) ==
  /\ reads[p] # None /\ reads[p].got # None
  /\ IF reads[p].got = Refused THEN Unauthorized
     ELSE /\ reads' = [reads EXCEPT ![p] = None]
          /\ agents' = IF reads[p].of = "agents" THEN reads[p].got ELSE agents
          /\ detections' = IF reads[p].of = "detections" THEN reads[p].got ELSE detections
          /\ UNCHANGED <<session, under, seenDet, toasts, socket>>
  /\ UNCHANGED <<server, moves>>

\* Of a read whose store is gone only a refusal is felt.
StrayArrives(c) ==
  /\ c \in strays
  /\ \/ c \notin valid /\ Unauthorized
     \/ /\ strays' = strays \ {c}
        /\ UNCHANGED <<session, login, logouts, reads, store, socket>>
  /\ UNCHANGED <<server, moves>>

-----------------------------------------------------------------------------
(* The live feed *)

\* connect, also two seconds after each close: the handshake needs the session.
WsOpens ==
  /\ ws = "closed" /\ Cred \in valid /\ ws' = "open"
  /\ UNCHANGED <<server, session, under, reads, store, pushes, moves>>

\* What was on its way is lost, and nothing is read again for it.
WsDrops ==
  /\ ws = "open" /\ Move /\ ws' = "closed" /\ pushes' = <<>>
  /\ UNCHANGED <<server, session, under, reads, store>>

Broadcast(frame) == pushes' = IF ws = "open" THEN Append(pushes, frame) ELSE pushes

AgentChanges ==
  /\ Move /\ srvAgents' \in Statuses \ {srvAgents}
  /\ Broadcast(Frame("agent", srvAgents', FALSE))
  /\ UNCHANGED <<issued, valid, srvDets, session, under, reads, store, ws>>

\* A detection is raised, or its status set, perhaps to what it was.
DetectionChanges(d) ==
  /\ Move
  /\ srvDets' = IF d \in Range(srvDets) THEN srvDets ELSE <<d>> \o srvDets
  /\ \E open \in BOOLEAN :
       /\ d \notin Range(srvDets) => open
       /\ Broadcast(Frame("detection", d, open))
  /\ UNCHANGED <<issued, valid, srvAgents, session, under, reads, store, ws>>

\* Mutant: a detection is put in front of itself.
ToFrontTwice(d) == <<d>> \o detections

ToFront(d) ==
  <<d>> \o Pick(detections, {i \in DOMAIN detections : detections[i] # d})

\* onMessage; every detection here is critical or high.
Push ==
  /\ pushes # <<>> /\ pushes' = Tail(pushes)
  /\ LET m == Head(pushes) IN
     IF m.what = "agent" THEN agents' = m.v /\ UNCHANGED <<detections, seenDet, toasts>>
     ELSE /\ detections' = ToFront(m.v) /\ UNCHANGED agents
          /\ IF m.v \notin seenDet /\ m.open
             THEN seenDet' = seenDet \cup {m.v} /\ toasts' = [toasts EXCEPT ![m.v] = @ + 1]
             ELSE UNCHANGED <<seenDet, toasts>>
  /\ UNCHANGED <<server, session, under, reads, ws, moves>>

-----------------------------------------------------------------------------
Next ==
  \/ submit \/ SignedIn \/ LoginFails \/ LoggedOut \/ Exit \/ Reload \/ OtherTab \/ Expire
  \/ Interval \/ refreshDetections \/ WsOpens \/ WsDrops \/ AgentChanges \/ Push
  \/ \E d \in Dets : DetectionChanges(d)
  \/ \E p \in Places : Answer(p) \/ ReadFails(p) \/ Arrives(p)
  \/ \E c \in strays : StrayArrives(c)

\* The interval fires, and reads are answered and their answers handled.
Fairness ==
  /\ WF_vars(Interval)
  /\ \A p \in Places : WF_vars(Answer(p)) /\ WF_vars(Arrives(p))

Spec == Init /\ [][Next]_vars /\ Fairness

-----------------------------------------------------------------------------
(* Properties *)

\* A console whose session the server no longer accepts: it ends at the sign-in
\* page, and never goes on reloading, unless another tab brings a session that is.
Adrift == screen = "app" /\ Cred \notin valid
RefusedEndsAtLogin == Adrift ~> ~Adrift

\* Frames are lost, answers overtake each other and frames: in the end an open
\* console shows the endpoints as they are.
AgentsShown   == screen = "app" => agents = srvAgents
AgentsCatchUp == <>[]AgentsShown

\* However reads and frames cross, a detection is listed once, and toasted at most
\* once in the life of the store.
ListedOnce ==
  /\ IsInjective(detections)
  /\ \A d \in Dets : toasts[d] <= 1

\* What makes it so: no list is ever answered with a detection twice, and a toast is
\* remembered as long as the store.
Listing(s) == s \in Seq(Range(s)) /\ IsInjective(s)
AnswersListed ==
  /\ reads = [p \in Places |-> reads[p]]
  /\ \A p \in Places : reads[p] # None =>
       /\ DOMAIN reads[p] = {"of", "cred", "got"}
       /\ reads[p].of = "detections" /\ reads[p].got \notin {None, Refused}
            => Listing(reads[p].got)
IInv ==
  /\ Listing(srvDets) /\ Listing(detections) /\ AnswersListed
  /\ toasts \in [Dets -> Nat]
  /\ \A d \in Dets : toasts[d] <= IF d \in seenDet THEN 1 ELSE 0
=============================================================================
