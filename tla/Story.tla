-------------------------------- MODULE Story --------------------------------
(***************************************************************************)
(* The attack story (dashboard/components/attack-story.tsx) and the        *)
(* summary with its recommendations (incident-summary.tsx), in the drawers *)
(* of the detections, cases and endpoints pages: the recent events of one  *)
(* host, read anew every eight seconds, the lineage and timeline made of   *)
(* them, and a second drawer for an event picked there.                    *)
(*                                                                         *)
(* The drawer's finding may change without the drawer being closed: on the *)
(* detections page when the list changes and the address names another, on *)
(* the cases page when the case that was loaded is replaced.  useData then *)
(* asks for the other host, and keeps what it has until the answer.  Other *)
(* things done in the drawers are in Triage, CaseDesk and Fleet.           *)
(***************************************************************************)
EXTENDS Naturals, FiniteSets

CONSTANTS
  Ids,         \* findings: detections, cases or endpoints; and events
  Subject,     \* of each finding: its host, None if unknown, its user, its events
  Facts,       \* of each event: its host, severity, lineage, command line
  StoryLimit,  \* how many events are asked for
  Sources,     \* how many lineages are shown
  Root, None, MaxReads, MaxMoves

VARIABLES
  srv,                     \* the events the server has
  at,                      \* the page
  sel,                     \* the finding in the drawer
  data, asked, replies,    \* useData
  picked,                  \* the event in the second drawer
  pending, posts,          \* the recommendation to confirm, the requests sent
  moves

reads == <<data, asked, replies>>
acts  == <<pending, posts>>
vars  == <<srv, at, sel, reads, picked, acts, moves>>

Desks == {"detections", "cases", "endpoints"}
Host(f) == Subject[f].host

\* listEvents of one host, newest first; of nobody's for a finding without one.
Of(h) == {e \in srv : Facts[e].host = h}
Query ==
  IF sel = None \/ Host(sel) = None THEN {}
  ELSE {e \in Of(Host(sel)) : Cardinality({x \in Of(Host(sel)) : x > e}) < StoryLimit}

List == INSTANCE UseData WITH answer <- Query

TypeOK ==
  /\ srv \subseteq Ids /\ at \in Desks /\ sel \in Ids \cup {None}
  /\ data = None \/ data \subseteq Ids
  /\ asked \in 0..MaxReads /\ replies \subseteq SUBSET Ids
  /\ picked \in Ids \cup {None} /\ moves \in 0..MaxMoves

Move == moves < MaxMoves /\ moves' = moves + 1

Init ==
  /\ srv \in SUBSET Ids /\ at \in Desks /\ sel = None
  /\ data = None /\ asked = 0 /\ replies = {} /\ picked = None
  /\ pending = None /\ posts = {} /\ moves = 0

-----------------------------------------------------------------------------
(* The drawer *)

Free == sel = None /\ picked = None /\ pending = None

Show(f) == sel' = f /\ UNCHANGED <<srv, at, picked, acts>>

\* The story is mounted with the drawer and starts to read.
Open(f) ==
  /\ Free /\ Move /\ Show(f)
  /\ data' = None /\ asked' = 1 /\ replies' = {}

\* Another host is another path; the same host is no change to useData.
Become(f) ==
  /\ sel \notin {None, f} /\ Move /\ Show(f)
  /\ IF Host(f) # Host(sel) THEN List!Restart /\ UNCHANGED data ELSE UNCHANGED reads

\* The list changed, and the address names this detection.
DeepLink(f) == at = "detections" /\ Become(f)

\* Another case was loaded or created.
Replaced(f) == at = "cases" /\ Become(f)

Close ==
  /\ sel # None /\ picked = None /\ pending = None
  /\ sel' = None /\ data' = None /\ asked' = 0 /\ replies' = {}
  /\ UNCHANGED <<srv, at, picked, acts, moves>>

-----------------------------------------------------------------------------
(* The story *)

EventStored(e) ==
  /\ e \notin srv /\ srv' = srv \cup {e}
  /\ UNCHANGED <<at, sel, reads, picked, acts, moves>>

Reading(step) ==
  /\ sel # None /\ step /\ UNCHANGED <<srv, at, sel, picked, acts>>

Tick       == Reading(List!Tick)       /\ UNCHANGED moves
Reply      == Reading(List!Reply)      /\ UNCHANGED moves
Fails      == Reading(List!Fail)       /\ Move
Receive(r) == Reading(List!Receive(r)) /\ UNCHANGED moves

\* What the story is made of, once there is something.
HostEvents == IF sel = None \/ data = None THEN {} ELSE IF Host(sel) = None THEN {} ELSE data

\* The lineage: of the linked events if any has one, else of any; the gravest first.
WithLineage == {e \in HostEvents : Facts[e].lineage}
Candidates ==
  LET linked == WithLineage \cap Subject[sel].events
  IN  IF linked # {} THEN linked ELSE WithLineage
Before(a, b) == Facts[a].rank > Facts[b].rank \/ (Facts[a].rank = Facts[b].rank /\ a > b)
LineageSrc ==
  {e \in Candidates : Cardinality({x \in Candidates : Before(x, e)}) < Sources}

\* A row of the timeline, or the command line under a lineage.
PickRow(e) ==
  /\ sel # None /\ picked = None /\ pending = None /\ Move
  /\ e \in HostEvents /\ picked' = e
  /\ UNCHANGED <<srv, at, sel, reads, acts>>

PickLineage(e) ==
  /\ sel # None /\ picked = None /\ pending = None /\ Move
  /\ e \in LineageSrc /\ Facts[e].cmdline /\ picked' = e
  /\ UNCHANGED <<srv, at, sel, reads, acts>>

Unpick ==
  /\ picked # None /\ picked' = None
  /\ UNCHANGED <<srv, at, sel, reads, acts, moves>>

-----------------------------------------------------------------------------
(* The recommendations, which only the detections page acts upon *)

Recommended(f) ==
  {"escalate"} \cup {r \in {"isolate"} : Host(f) # None}
  \cup {r \in {"disable_account"} : Subject[f].user \notin {None, Root}}

Ask(f, r) == [about |-> f, verb |-> r, agent |-> Host(f),
              user |-> IF r = "disable_account" THEN Subject[f].user ELSE None]

\* recommend: to escalate is not confirmed.
Recommend(r) ==
  /\ at = "detections" /\ sel # None /\ picked = None /\ pending = None /\ Move
  /\ r \in Recommended(sel)
  /\ IF r = "escalate" THEN posts' = posts \cup {Ask(sel, r)} /\ UNCHANGED pending
     ELSE pending' = Ask(sel, r) /\ UNCHANGED posts
  /\ UNCHANGED <<srv, at, sel, reads, picked>>

Confirm ==
  /\ pending # None /\ Move /\ posts' = posts \cup {pending} /\ pending' = None
  /\ UNCHANGED <<srv, at, sel, reads, picked>>

Cancel ==
  /\ pending # None /\ pending' = None
  /\ UNCHANGED <<srv, at, sel, reads, picked, posts, moves>>

Answered(p) ==
  /\ p \in posts /\ posts' = posts \ {p}
  /\ UNCHANGED <<srv, at, sel, reads, picked, pending, moves>>

-----------------------------------------------------------------------------
Next ==
  \/ \E f \in Ids :
       \/ Open(f) \/ DeepLink(f) \/ Replaced(f) \/ EventStored(f)
       \/ PickRow(f) \/ PickLineage(f)
  \/ Close \/ Tick \/ Reply \/ Fails \/ Unpick \/ Confirm \/ Cancel
  \/ \E r \in replies : Receive(r)
  \/ \E r \in {"isolate", "disable_account", "escalate"} : Recommend(r)
  \/ \E p \in posts : Answered(p)

Spec == Init /\ [][Next]_vars

-----------------------------------------------------------------------------
(* Properties *)

\* However the drawer moved while reads were under way, an answer that is taken is
\* about the host of the finding it shows then.
StoryOfSubject ==
  data' \notin {data, None} => \A e \in data' : Facts[e].host = Host(sel)

\* A recommendation that contains goes out only after its confirmation, for the
\* detection that gave it, however the drawer moved under the confirmation, and no
\* account but the one that detection names is disabled, root's never.
RecommendedFor ==
  \A p \in posts' \ posts : p.verb # "escalate" =>
    /\ p = pending /\ p.agent = Host(p.about)
    /\ p.verb = "disable_account" => p.user = Subject[p.about].user /\ p.user # Root

\* Why they hold: what is still under way is of the host of the finding in the drawer,
\* and what waits for its confirmation of its own finding's.
AnswersOfHost == sel # None => \A r \in replies : \A e \in r : Facts[e].host = Host(sel)
AsksForFinding ==
  pending # None =>
    /\ pending.agent = Host(pending.about)
    /\ pending.verb = "disable_account" =>
         pending.user = Subject[pending.about].user /\ pending.user # Root
IInv == AnswersOfHost /\ AsksForFinding
=============================================================================
