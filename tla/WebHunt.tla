------------------------------- MODULE WebHunt -------------------------------
(***************************************************************************)
(* The older console's event stream and the process tree in its drawers    *)
(* (web/src/pages/Events.tsx, Detections.tsx, ProcessTree.tsx): the tree   *)
(* is put together by pid from whatever events the store holds then.       *)
(*                                                                         *)
(* The store reads events once, takes in every one that is pushed, the     *)
(* same one twice if the read had it, and forgets the oldest.  A row       *)
(* reached by keyboard opens under the drawer, and the tree of the other   *)
(* drawer keeps its focus, though it is then of another event, or host.    *)
(***************************************************************************)
EXTENDS Lists, Functions

CONSTANTS
  Events,      \* by time
  Facts,       \* of each: category, host, pid, parent's pid, has it a command line?
  Cited,       \* by detection, the events it was raised on
  FirstRead, Cap, Listed,   \* events read at first, held, and listed
  None, MaxMoves

VARIABLES
  stored,       \* the events the server has
  got, frames,  \* the answer to the read, and events pushed, under way
  events,       \* the store's, the newest first
  at, cat,      \* the page, and its filter
  sel, focus,   \* the row in the drawer, the event the tree is about
  moves         \* bound: clicks, events and failures so far

feed == <<stored, got, frames, events>>
vars == <<feed, at, cat, sel, focus, moves>>

Cats == {Facts[e].category : e \in Events}
Pids == {Facts[e].pid : e \in Events} \ {None}

TypeOK ==
  /\ stored \subseteq Events
  /\ Range(frames) \subseteq Events /\ Range(events) \subseteq Events /\ Len(events) <= Cap
  /\ at \in {"events", "detections"} /\ cat \in Cats \cup {None}
  /\ sel \in Events \cup DOMAIN Cited \cup {None} /\ focus \in Events \cup {None}
  /\ moves \in 0..MaxMoves

Move == moves < MaxMoves /\ moves' = moves + 1

-----------------------------------------------------------------------------
(* What a drawer and its tree are about *)

\* The first event cited that the store holds and that has a process.
RelatedEvent(d, held) ==
  LET found == {i \in DOMAIN Cited[d] :
                  Cited[d][i] \in Range(held) /\ Facts[Cited[d][i]].pid # None}
  IN  IF found = {} THEN None ELSE Cited[d][Least(found)]

\* The event whose tree the drawer of x shows, if any.
EventOf(x, held) ==
  IF x = None THEN None
  ELSE IF at = "detections" THEN RelatedEvent(x, held)
  ELSE IF Facts[x].pid = None THEN None ELSE x
event == EventOf(sel, events)

\* The tree takes its focus from the event it is first shown for.
Keep(x, held) ==
  focus' = IF EventOf(x, held) = None THEN None
           ELSE IF focus = None THEN EventOf(x, held) ELSE focus

\* The first of the events that may stand for process p: on the event's host, and one
\* that has a command line, if any has.
Claims(p) ==
  {i \in DOMAIN events :
     /\ Facts[events[i]].pid = p
     /\ Facts[event].host \in {None, Facts[events[i]].host}}
Best(p) ==
  LET full == {i \in Claims(p) : Facts[events[i]].cmdline}
  IN  IF full # {} THEN events[Least(full)]
      ELSE IF Claims(p) # {} THEN events[Least(Claims(p))]
      ELSE IF p = Facts[event].pid THEN event ELSE None

\* Mutant: the best event of a process stands for it, though another is in focus.
byPidNewest == [p \in Pids |-> Best(p)]

byPid == [p \in Pids |-> IF p = Facts[focus].pid THEN focus ELSE Best(p)]

\* The node above a chain, the first being the focus, and the chain after n steps up:
\* it ends where there is none, or one of a process it has.
Above(c) ==
  IF c = <<>> THEN byPid[Facts[focus].pid]
  ELSE IF Facts[Head(c)].ppid \in Pids THEN byPid[Facts[Head(c)].ppid] ELSE None
Extended(c) ==
  IF Above(c) = None \/ \E i \in DOMAIN c : Facts[c[i]].pid = Facts[Above(c)].pid
  THEN c ELSE <<Above(c)>> \o c
ancestry ==
  LET up[n \in 0..Cardinality(Pids)] == IF n = 0 THEN <<>> ELSE Extended(up[n - 1])
  IN  up[Cardinality(Pids)]
children == {e \in Range(byPid) \ {None} :
               Facts[e].ppid = Facts[focus].pid /\ Facts[e].pid # Facts[focus].pid}
hasGraph == Len(ancestry) > 1 \/ children # {}

Shown == {i \in DOMAIN events : cat \in {None, Facts[events[i]].category}}
Rows  == Prefix(Pick(events, Shown), Listed)

-----------------------------------------------------------------------------
Init ==
  /\ stored \in SUBSET Events /\ got = None /\ frames = <<>> /\ events = <<>>
  /\ at \in {"events", "detections"} /\ cat = None /\ sel = None /\ focus = None /\ moves = 0

(* The store *)

\* An event is stored, and pushed unless the socket is down.
EventStored(e) ==
  /\ e \notin stored /\ Move /\ stored' = stored \cup {e}
  /\ frames' \in {frames, Append(frames, e)}
  /\ UNCHANGED <<got, events, at, cat, sel, focus>>

\* The one read, the newest first.
Answered ==
  /\ got = None /\ Move
  /\ got' = [list |-> Prefix(Arranged(stored, LAMBDA a, b : a > b), FirstRead), due |-> TRUE]
  /\ UNCHANGED <<stored, frames, events, at, cat, sel, focus>>

Holds(list) == events' = list /\ Keep(sel, list) /\ UNCHANGED <<stored, at, cat, sel>>

Arrives ==
  /\ got # None /\ got.due /\ got' = [got EXCEPT !.due = FALSE]
  /\ Holds(got.list) /\ UNCHANGED <<frames, moves>>

Push ==
  /\ frames # <<>> /\ frames' = Tail(frames)
  /\ Holds(Prefix(<<Head(frames)>> \o events, Cap)) /\ UNCHANGED <<got, moves>>

-----------------------------------------------------------------------------
(* The operator *)

SetCat(c) ==
  /\ at = "events" /\ Move /\ cat' = c /\ UNCHANGED <<feed, at, sel, focus>>

\* A row, also under a drawer.
Open(x) ==
  /\ x \in (IF at = "events" THEN Range(Rows) ELSE DOMAIN Cited)
  /\ Move /\ sel' = x /\ Keep(x, events)
  /\ UNCHANGED <<feed, at, cat>>

Close ==
  /\ sel # None /\ sel' = None /\ focus' = None
  /\ UNCHANGED <<feed, at, cat, moves>>

\* A node of the tree.
SetFocus(e) ==
  /\ focus # None /\ hasGraph /\ e \in Range(ancestry) \cup children
  /\ Move /\ focus' = e
  /\ UNCHANGED <<feed, at, cat, sel>>

ResetFocus ==
  /\ focus # None /\ Facts[focus].pid # Facts[event].pid /\ focus' = event
  /\ UNCHANGED <<feed, at, cat, sel, moves>>

-----------------------------------------------------------------------------
Next ==
  \/ Answered \/ Arrives \/ Push \/ Close \/ ResetFocus
  \/ \E e \in Events : EventStored(e) \/ SetFocus(e)
  \/ \E x \in Events \cup DOMAIN Cited : Open(x)
  \/ \E c \in Cats \cup {None} : SetCat(c)

Spec == Init /\ [][Next]_vars

-----------------------------------------------------------------------------
(* Properties *)

\* Whatever events come, leave at the limit, come twice or have the pid of another,
\* and wherever the operator went: the chain ends at the event in focus and goes up
\* from child to parent, each process once, as far as parents are known; the children are those of the process in
\* focus; and all but the focus are held, or the drawer's, and on the drawer's host.
TreeAboutFocus ==
  focus # None =>
    LET c == ancestry IN
    /\ c # <<>> /\ c[Len(c)] = focus /\ Extended(c) = c
    /\ \A i \in 1..(Len(c) - 1) : Facts[c[i]].pid = Facts[c[i + 1]].ppid
    /\ \A i, j \in DOMAIN c : i # j => Facts[c[i]].pid # Facts[c[j]].pid
    /\ \A e \in children : Facts[e].ppid = Facts[focus].pid
    /\ \A e \in (Range(c) \cup children) \ {focus} :
         /\ e \in Range(events) \cup {event}
         /\ Facts[event].host \in {None, Facts[e].host}

\* What makes it so: there is a focus only while the drawer is about an event, and
\* either is of a process.
IInv ==
  /\ stored \subseteq Events /\ frames \in Seq(Events) /\ events \in Seq(Events)
  /\ got = None \/ got \in [list : Seq(Events), due : BOOLEAN]
  /\ at \in {"events", "detections"}
  /\ sel \in {None} \cup (IF at = "events" THEN Events ELSE DOMAIN Cited)
  /\ focus # None => focus \in Events /\ Facts[focus].pid # None /\ event # None
=============================================================================
