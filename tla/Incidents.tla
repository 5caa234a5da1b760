----------------------------- MODULE Incidents ------------------------------
(***************************************************************************)
(* What becomes of a detection in one server process: the tuning gate, the *)
(* throttled alert and the folding into a case (emit in pipeline.go, with  *)
(* tune.go, notify.go and cases.go), while analysts tune rules and edit    *)
(* cases through the API (api.go) and the process restarts.                *)
(*                                                                         *)
(* Several consumers emit at once.  Folding holds the case correlator's    *)
(* mutex from reading the case to writing it; the handlers of the API read *)
(* a case, then the request's body, and write the case back, holding       *)
(* nothing.  A rule override and a suppression are both an item that       *)
(* silences detections: kept in the database, cached in memory.            *)
(***************************************************************************)
EXTENDS Integers, Sequences

CONSTANTS
  Detections,
  Agents,       \* endpoints; every detection of one is of the same rule here, so
                \* that an agent is also a key of the alert throttle, rule|agent
  Agent,        \* per detection
  Qualifies,    \* the detections severe enough for an alert
  Items, Match, \* rule overrides and suppressions; the detections each matches
  Until,        \* per item: when it expires, or Never
  Workers, Analysts, Editors,
  Window, Throttle,
  None,
  MaxTime, MaxCases, MaxEdits, MaxFaults  \* bounds

Never == -1

ASSUME DataAssumption ==
  /\ Agent \in [Detections -> Agents] /\ Qualifies \subseteq Detections
  /\ Match \in [Items -> SUBSET Detections] /\ Until \in [Items -> Nat \cup {Never}]
  /\ Window \in Nat \ {0} /\ Throttle \in Nat \ {0}
ASSUME BoundsAssumption ==
  MaxTime \in Nat /\ MaxCases \in Nat /\ MaxEdits \in Nat /\ MaxFaults \in Nat

VARIABLES
  clock,
  queue,     \* detections the engines have yet to raise
  work,      \* per worker: the emit in progress
  quiet,     \* the database: the items in force
  cache,     \* tune.Engine: the items in force
  edit,      \* per editor: the item written to the database and not yet to the cache
  mixed,     \* history: items edited by two at once, or not loaded, since the start
  sent, lastGC,      \* notify.Notifier
  alerts,    \* history: per agent, the times of the alerts of this process
  cases,     \* the database
  made,      \* how many case ids have been given out
  active,    \* cases.Correlator: per agent, its latest case and when it grew
  holder,    \* who holds the correlator's mutex
  hand,      \* per analyst: the case edit in progress
  edits, faults,     \* bounds: how many so far
  ideal,     \* history: the cases if every change were atomic
  blurred,   \* history: cases that an analyst's edit and another change overlapped on
  line,      \* history: per agent, the case that last absorbed a detection and when
  excused    \* history: per agent, the index of open cases may have lost the line

tuning == <<quiet, cache, edit, mixed>>
alert  == <<sent, lastGC, alerts>>
index  == <<active, line, excused>>
table  == <<cases, made, ideal, blurred>>
vars   == <<clock, queue, work, tuning, alert, index, table, holder, hand, edits, faults>>

Time == 0..MaxTime
Ids  == 1..MaxCases
Case == [agent : Agents, status : {"open", "investigating", "closed"},
         dets : SUBSET Detections, notes : SUBSET (1..MaxEdits), updated : Time]
Op   == [status : {"open", "investigating", "closed", "same"}, note : 0..MaxEdits]
Ref  == [id : Ids, last : Time]
Jobs == [at : {"rest", "raise", "add", "put"}, det : Detections \cup {None},
         now : Time, id : Ids \cup {0}, case : Case \cup {None}, stale : BOOLEAN]
Copy == [id : Ids, op : Op, case : Case, stale : BOOLEAN]
Change == [item : Items, on : BOOLEAN]

\* None is no value of these.
ASSUME NoneAssumption ==
  /\ None \notin Detections /\ None \notin Workers
  /\ None \notin Case /\ None \notin Ref /\ None \notin Change /\ None \notin Copy

Job(at, d, now, id, c, stale) ==
  [at |-> at, det |-> d, now |-> now, id |-> id, case |-> c, stale |-> stale]
Rest == Job("rest", None, 0, 0, None, FALSE)

TypeOK ==
  /\ clock \in Time /\ queue \subseteq Detections
  /\ work \in [Workers -> Jobs]
  /\ quiet \subseteq Items /\ cache \subseteq Items /\ mixed \subseteq Items
  /\ edit \in [Editors -> Change \cup {None}]
  /\ sent \in [Agents -> Time \cup {Never}] /\ lastGC \in Time
  /\ alerts \in [Agents -> Seq(Time)]
  /\ cases \in [Ids -> Case \cup {None}] /\ ideal \in [Ids -> Case \cup {None}]
  /\ made \in 0..MaxCases /\ blurred \subseteq Ids
  /\ active \in [Agents -> Ref \cup {None}] /\ line \in [Agents -> Ref \cup {None}]
  /\ excused \in [Agents -> BOOLEAN]
  /\ holder \in Workers \cup {None}
  /\ hand \in [Analysts -> Copy \cup {None}]
  /\ edits \in 0..MaxEdits /\ faults \in 0..MaxFaults

Init ==
  /\ clock = 0 /\ queue = Detections
  /\ work = [w \in Workers |-> Rest]
  /\ quiet = {} /\ cache = {} /\ edit = [e \in Editors |-> None] /\ mixed = {}
  /\ sent = [a \in Agents |-> Never] /\ lastGC = 0 /\ alerts = [a \in Agents |-> <<>>]
  /\ cases = [i \in Ids |-> None] /\ ideal = cases /\ made = 0 /\ blurred = {}
  /\ active = [a \in Agents |-> None] /\ line = active
  /\ excused = [a \in Agents |-> FALSE]
  /\ holder = None /\ hand = [h \in Analysts |-> None]
  /\ edits = 0 /\ faults = 0

NoFault == UNCHANGED faults
Fault   == faults < MaxFaults /\ faults' = faults + 1
Edit    == edits < MaxEdits /\ edits' = edits + 1

-----------------------------------------------------------------------------
(* Tuning *)

\* An item matches a detection until it expires.
Matches(i, d) == d \in Match[i] /\ (Until[i] = Never \/ clock <= Until[i])

\* emit asks Allowed: a silenced detection is dropped.
Gate(w, d) ==
  /\ work[w].at = "rest" /\ d \in queue
  /\ queue' = queue \ {d}
  /\ work' = IF \E i \in cache : Matches(i, d) THEN work
             ELSE [work EXCEPT ![w] = Job("raise", d, 0, 0, None, FALSE)]
  /\ UNCHANGED <<clock, tuning, alert, index, table, holder, hand, edits, faults>>

With(set, i, on) == IF on THEN set \cup {i} ELSE set \ {i}
Edited(i) == \E e \in Editors : edit[e] # None /\ edit[e].item = i

\* toggleRule, createSuppression, deleteSuppression: first the database,
SetStore(e, i, on) ==
  /\ edit[e] = None /\ Edit
  /\ quiet' = With(quiet, i, on)
  /\ edit' = [edit EXCEPT ![e] = [item |-> i, on |-> on]]
  /\ mixed' = IF Edited(i) THEN mixed \cup {i} ELSE mixed
  /\ UNCHANGED <<cache, clock, queue, work, alert, index, table, holder, hand, faults>>

\* Variant: the cache only learns what is silenced.
SetCacheOn(e) ==
  /\ edit[e] # None
  /\ cache' = cache \cup {edit[e].item}
  /\ edit' = [edit EXCEPT ![e] = None]
  /\ UNCHANGED <<quiet, mixed, clock, queue, work, alert, index, table, holder, hand,
                 edits, faults>>

\* then the cache.
SetCache(e) ==
  /\ edit[e] # None
  /\ cache' = With(cache, edit[e].item, edit[e].on)
  /\ edit' = [edit EXCEPT ![e] = None]
  /\ UNCHANGED <<quiet, mixed, clock, queue, work, alert, index, table, holder, hand,
                 edits, faults>>

-----------------------------------------------------------------------------
(* Persisting and alerting *)

\* Variant: gc forgets what was sent before it.
SentEager == IF clock - lastGC >= Throttle THEN [a \in Agents |-> Never] ELSE sent

\* gc of the notifier.
SentAfterGc ==
  IF clock - lastGC < Throttle THEN sent
  ELSE [a \in Agents |-> IF clock - sent[a] > Throttle THEN Never ELSE sent[a]]

Throttled(a) == SentAfterGc[a] # Never /\ clock - SentAfterGc[a] < Throttle

\* Variant: one throttle for all agents.
NotifyOnce(d) ==
  /\ lastGC' = IF clock - lastGC < Throttle THEN lastGC ELSE clock
  /\ IF \E a \in Agents : Throttled(a) THEN sent' = SentAfterGc /\ UNCHANGED alerts
     ELSE /\ sent' = [SentAfterGc EXCEPT ![Agent[d]] = clock]
          /\ alerts' = [alerts EXCEPT ![Agent[d]] = Append(@, clock)]

\* Notify, for a rule and the agent of detection d.
Notify(d) ==
  /\ lastGC' = IF clock - lastGC < Throttle THEN lastGC ELSE clock
  /\ IF Throttled(Agent[d]) THEN sent' = SentAfterGc /\ UNCHANGED alerts
     ELSE /\ sent' = [SentAfterGc EXCEPT ![Agent[d]] = clock]
          /\ alerts' = [alerts EXCEPT ![Agent[d]] = Append(@, clock)]

\* InsertDetection, and when it succeeds the alert; then Add is called and reads the
\* clock before it waits for the mutex.  After a failure the event is delivered
\* again, which is another detection.
Raise(w) ==
  /\ work[w].at = "raise"
  /\ \/ /\ IF work[w].det \in Qualifies THEN Notify(work[w].det) ELSE UNCHANGED alert
        /\ work' = [work EXCEPT ![w].at = "add", ![w].now = clock] /\ NoFault
     \/ work' = [work EXCEPT ![w] = Rest] /\ Fault /\ UNCHANGED alert
  /\ UNCHANGED <<clock, queue, tuning, index, table, holder, hand, edits>>

-----------------------------------------------------------------------------
(* Folding *)

NewCase(d, now) ==
  [agent |-> Agent[d], status |-> "open", dets |-> {d}, notes |-> {}, updated |-> now]

\* fold: a detection that is attached already leaves the case as it is.
Folded(c, d, now) ==
  IF d \in c.dets THEN c ELSE [c EXCEPT !.dets = @ \cup {d}, !.updated = now]

\* The agent's latest case is still absorbing.
Joins(w) ==
  LET r == active[Agent[work[w].det]]
  IN  r # None /\ work[w].now - r.last < Window

\* Variant: a closed case absorbs too.
TakenWhenClosed(w) ==
  /\ Joins(w)
  /\ LET id == active[Agent[work[w].det]].id
     IN  work' = [work EXCEPT ![w] =
              Job("put", @.det, @.now, id, Folded(cases[id], @.det, @.now), FALSE)]

\* The latest case is read and folded into,
Taken(w) ==
  /\ Joins(w)
  /\ LET id == active[Agent[work[w].det]].id
     IN  /\ cases[id].status # "closed"
         /\ work' = [work EXCEPT ![w] =
              Job("put", @.det, @.now, id, Folded(cases[id], @.det, @.now), FALSE)]

\* or, when there is none, it is closed or cannot be read, a fresh one is opened.
Opened(w) ==
  /\ made < MaxCases /\ made' = made + 1
  /\ work' = [work EXCEPT ![w] =
       Job("put", @.det, @.now, made', NewCase(@.det, @.now), FALSE)]

Closed(w) == cases[active[Agent[work[w].det]].id].status = "closed"

\* Variant: Add does not take the mutex.
AddUnlocked(w) ==
  /\ work[w].at = "add"
  /\ \/ Taken(w) /\ NoFault /\ UNCHANGED made
     \/ Opened(w) /\ (Joins(w) => Closed(w)) /\ NoFault
     \/ Opened(w) /\ Joins(w) /\ Fault
  /\ UNCHANGED <<holder, clock, queue, tuning, alert, index, cases, ideal, blurred, hand, edits>>

\* Add, up to the write.
Add(w) ==
  /\ work[w].at = "add" /\ holder = None /\ holder' = w
  /\ \/ Taken(w) /\ NoFault /\ UNCHANGED made
     \/ Opened(w) /\ (Joins(w) => Closed(w)) /\ NoFault
     \/ Opened(w) /\ Joins(w) /\ Fault
  /\ UNCHANGED <<clock, queue, tuning, alert, index, cases, ideal, blurred, hand, edits>>

\* Whoever has read case id and not yet written it has an old copy now.
Outdate(id) ==
  hand' = [h \in Analysts |-> IF hand[h] # None /\ hand[h].id = id
                              THEN [hand[h] EXCEPT !.stale = TRUE] ELSE hand[h]]

\* InsertCase and the index.
Written(w) ==
  LET j == work[w]
      a == Agent[j.det]
  IN
  /\ cases' = [cases EXCEPT ![j.id] = j.case]
  /\ ideal' = [ideal EXCEPT ![j.id] =
                 IF @ = None THEN NewCase(j.det, j.now) ELSE Folded(@, j.det, j.now)]
  /\ blurred' = IF j.stale THEN blurred \cup {j.id} ELSE blurred
  /\ Outdate(j.id)
  /\ active' = [active EXCEPT ![a] = [id |-> j.id, last |-> j.now]]
  /\ line' = [line EXCEPT ![a] = [id |-> j.id, last |-> j.now]]
  /\ excused' = [excused EXCEPT ![a] = FALSE]

\* And the unlocking; a failed write is logged.
Put(w) ==
  /\ work[w].at = "put" /\ holder' = None /\ work' = [work EXCEPT ![w] = Rest]
  /\ \/ Written(w) /\ NoFault
     \/ Fault /\ UNCHANGED <<cases, ideal, blurred, hand, index>>
  /\ UNCHANGED <<clock, queue, tuning, alert, made, edits>>

-----------------------------------------------------------------------------
(* The case handlers of the API *)

Apply(c, op) ==
  [c EXCEPT !.status = IF op.status = "same" THEN @ ELSE op.status,
            !.notes  = IF op.note = 0 THEN @ ELSE @ \cup {op.note},
            !.updated = clock]

\* updateCase and addCaseNote read the case before they read the request.
Read(h, id, op) ==
  /\ hand[h] = None /\ cases[id] # None /\ Edit
  /\ op.note \in {0, edits'} /\ (op.note = 0 <=> op.status # "same")
  /\ hand' = [hand EXCEPT ![h] = [id |-> id, op |-> op, case |-> cases[id], stale |-> FALSE]]
  /\ UNCHANGED <<clock, queue, work, tuning, alert, index, table, holder, faults>>

\* And write back what they read, changed.
Save(h) ==
  /\ hand[h] # None
  /\ LET x == hand[h]
     IN /\ cases' = [cases EXCEPT ![x.id] = Apply(x.case, x.op)]
        /\ ideal' = [ideal EXCEPT ![x.id] = Apply(@, x.op)]
        /\ blurred' = IF x.stale THEN blurred \cup {x.id} ELSE blurred
        /\ hand' = [y \in Analysts |->
             IF y = h THEN None
             ELSE IF hand[y] # None /\ hand[y].id = x.id THEN [hand[y] EXCEPT !.stale = TRUE]
             ELSE hand[y]]
        /\ work' = [w \in Workers |->
             IF work[w].at = "put" /\ work[w].id = x.id THEN [work[w] EXCEPT !.stale = TRUE]
             ELSE work[w]]
  /\ UNCHANGED <<made, clock, queue, tuning, alert, index, holder, edits, faults>>

\* Or leave it, when the request is refused or the write fails.
Drop(h) ==
  /\ hand[h] # None /\ hand' = [hand EXCEPT ![h] = None]
  /\ UNCHANGED <<clock, queue, work, tuning, alert, index, table, holder, edits, faults>>

\* createCase: the correlator does not hear of it.
CreateCase(a) ==
  /\ made < MaxCases /\ made' = made + 1 /\ Edit
  /\ LET c == [agent |-> a, status |-> "open", dets |-> {}, notes |-> {}, updated |-> clock]
     IN  cases' = [cases EXCEPT ![made'] = c] /\ ideal' = [ideal EXCEPT ![made'] = c]
  /\ UNCHANGED <<blurred, clock, queue, work, tuning, alert, index, holder, hand, faults>>

-----------------------------------------------------------------------------
(* Restart and time *)

OpenOf(a) == {i \in Ids : cases[i] # None /\ cases[i].agent = a /\ cases[i].status = "open"}

RefTo(i) == [id |-> i, last |-> cases[i].updated]

\* Variant: Seed prefers the case that was touched first.
SeedOldest(a) ==
  {RefTo(i) : i \in {x \in OpenOf(a) : \A y \in OpenOf(a) : cases[y].updated >= cases[x].updated}}

\* Seed: what may become the agent's latest case, the open one updated last.
Seed(a) ==
  {RefTo(i) : i \in {x \in OpenOf(a) : \A y \in OpenOf(a) : cases[y].updated <= cases[x].updated}}

\* The line of an agent may not be found again: its case is not open, or another
\* open one of the agent was touched as late.
LineHidden(a) ==
  /\ line[a] # None
  /\ LET c == cases[line[a].id]
     IN  \/ c.status # "open"
         \/ \E i \in OpenOf(a) \ {line[a].id} : cases[i].updated >= c.updated

\* The process dies, with all that is in memory, and starts again; it goes on
\* without its tuning or its index when these cannot be read (as a bound, not
\* without both: no property relates them).
Restart(loaded, seeded) ==
  /\ Fault
  /\ loaded \/ seeded
  /\ work' = [w \in Workers |-> Rest] /\ holder' = None
  /\ hand' = [h \in Analysts |-> None] /\ edit' = [e \in Editors |-> None]
  /\ cache' = IF loaded THEN quiet ELSE {}
  /\ mixed' = IF loaded THEN {} ELSE Items
  /\ active' \in [Agents -> UNION {Seed(a) : a \in Agents} \cup {None}]
  /\ \A a \in Agents : IF seeded /\ Seed(a) # {} THEN active'[a] \in Seed(a)
                       ELSE active'[a] = None
  /\ excused' = [a \in Agents |-> excused[a] \/ ~seeded \/ LineHidden(a)]
  /\ sent' = [a \in Agents |-> Never] /\ lastGC' = clock /\ alerts' = [a \in Agents |-> <<>>]
  /\ UNCHANGED <<clock, queue, quiet, line, table, edits>>

Tick ==
  /\ clock < MaxTime /\ clock' = clock + 1
  /\ UNCHANGED <<queue, work, tuning, alert, index, table, holder, hand, edits, faults>>

Next ==
  \/ \E w \in Workers, d \in Detections : Gate(w, d)
  \/ \E w \in Workers : Raise(w) \/ Add(w) \/ Put(w)
  \/ \E e \in Editors, i \in Items, on \in BOOLEAN : SetStore(e, i, on)
  \/ \E e \in Editors : SetCache(e)
  \/ \E h \in Analysts, id \in Ids, op \in Op : Read(h, id, op)
  \/ \E h \in Analysts : Save(h) \/ Drop(h)
  \/ \E a \in Agents : CreateCase(a)
  \/ \E loaded, seeded \in BOOLEAN : Restart(loaded, seeded)
  \/ Tick

Spec == Init /\ [][Next]_vars
-----------------------------------------------------------------------------
(* Properties *)

Settled(i) == ~Edited(i) /\ i \notin mixed

\* "Persisted + applied live" (api.go:463), and "the same instances are shared by
\* the worker pipeline and the API" (main.go:141): no detection passes the gate that
\* the database says is silenced, and none is dropped that it says is not, but while
\* an item is being edited, was edited by two at once, or could not be loaded.
GateFollowsStore ==
  [][\A d \in queue \ queue' :
       LET passed == \E w \in Workers : work[w].at = "rest" /\ work'[w].det = d
       IN  IF passed THEN \A i \in quiet : Settled(i) => ~Matches(i, d)
           ELSE \E i \in Items : Matches(i, d) /\ (Settled(i) => i \in quiet)]_vars

\* "throttled per rule+host so an alert storm can't flood a channel" (notify.go:3),
\* but not so that it hides one: the alerts of one agent are a throttle apart, and for
\* every detection that is severe enough an alert of its agent was sent less than a
\* throttle ago, by this process.
AlertsSpaced ==
  [][/\ \A a \in Agents : \A i, j \in DOMAIN alerts'[a] :
          i < j => alerts'[a][j] - alerts'[a][i] >= Throttle
     /\ \A w \in Workers :
          work[w].at = "raise" /\ work'[w].at = "add" /\ work[w].det \in Qualifies =>
            \E i \in DOMAIN alerts'[Agent[work[w].det]] :
              clock - alerts'[Agent[work[w].det]][i] < Throttle]_vars

\* "correlation survives a restart" (cases.go:45): a detection within the window of
\* the one before it of its agent joins the same case, unless that is closed, cannot
\* be read, or was hidden from Seed.
SameIncident ==
  \A w \in Workers :
    LET l == line[Agent[work[w].det]]
    IN  /\ work[w].at = "add" /\ work'[w].at = "put"
        /\ l # None /\ ~excused[Agent[work[w].det]]
        /\ work[w].now - l.last < Window
        /\ cases[l.id].status # "closed" /\ faults' = faults
        => work'[w].id = l.id

\* A case holds what its detections and its analysts made of it, as if every change
\* were atomic, and absorbs nothing once it is closed, unless an analyst's edit
\* overlapped another change: the detections alone, however many consumers raise
\* them, never lose one another.  And detections that belong together share one.
CasesAsAtomic ==
  [][/\ SameIncident
     /\ \A i \in Ids \ blurred' :
          /\ cases'[i] = ideal'[i]
          /\ cases[i] # None /\ cases[i].status = "closed" =>
               cases'[i].dets = cases[i].dets]_vars
-----------------------------------------------------------------------------
(* Why they hold *)

\* A resting worker holds nothing, the others a detection and, to write, a case with
\* an id that was given out; what is referred to is in the database.
Shape ==
  /\ \A i \in Ids : /\ i > made => cases[i] = None
                    /\ cases[i] = None <=> ideal[i] = None
  /\ \A w \in Workers :
       /\ work[w].at = "rest" => work[w] = Rest
       /\ work[w].at # "rest" => work[w].det \in Detections
       /\ work[w].at = "put"  => work[w].id \in 1..made /\ work[w].case # None
  /\ \A h \in Analysts : hand[h] # None => cases[hand[h].id] # None
  /\ \A a \in Agents : /\ active[a] # None => cases[active[a].id] # None
                       /\ line[a] # None => cases[line[a].id] # None

\* One worker writes at a time: the one that holds the mutex.
Locked == \A w \in Workers : work[w].at = "put" <=> holder = w

\* Between the two steps of an edit the database is ahead of the cache by just what
\* the one editor of the item is about to write.
Edits(e, i) == edit[e] # None /\ edit[e].item = i
CacheFollows ==
  \A i \in Items \ mixed :
    /\ \A e, f \in Editors : Edits(e, i) /\ Edits(f, i) => e = f
    /\ \A e \in Editors : Edits(e, i) => (edit[e].on <=> i \in quiet)
    /\ ~Edited(i) => (i \in quiet <=> i \in cache)

\* An alert the throttle has forgotten, or would let another follow, is a throttle old.
Spaced ==
  \A a \in Agents :
    /\ \A i, j \in DOMAIN alerts[a] : i < j => alerts[a][j] - alerts[a][i] >= Throttle
    /\ \A i \in DOMAIN alerts[a] :
         /\ alerts[a][i] <= clock
         /\ alerts[a][i] = sent[a] \/ clock - alerts[a][i] >= Throttle
    /\ sent[a] # Never => \E i \in DOMAIN alerts[a] : alerts[a][i] = sent[a]

\* A copy that is not known to be old is of the case as it is, and what a worker is
\* about to write is that case with its detection, not closed.
Current ==
  /\ \A i \in Ids \ blurred : cases[i] = ideal[i]
  /\ \A h \in Analysts : hand[h] # None /\ ~hand[h].stale => hand[h].case = cases[hand[h].id]
  /\ \A w \in Workers : work[w].at = "put" /\ ~work[w].stale =>
       LET j == work[w]
       IN  IF cases[j.id] = None THEN j.case = NewCase(j.det, j.now)
           ELSE j.case = Folded(cases[j.id], j.det, j.now) /\ cases[j.id].status # "closed"

\* A detection is raised once: what is still queued or in hand is in no case, nor in a
\* copy of one, but for the copy the worker holds that is about to add it.
Apart(S) == S \cap queue = {} /\ \A w \in Workers : work[w].det \notin S
Once ==
  /\ \A w \in Workers : work[w].det \notin queue
  /\ \A w, v \in Workers : work[w].det = work[v].det => w = v \/ work[w].det = None
  /\ \A i \in Ids : cases[i] # None => Apart(cases[i].dets)
  /\ \A h \in Analysts : hand[h] # None => Apart(hand[h].case.dets)
  /\ \A w \in Workers : work[w].at = "put" =>
       /\ work[w].case.dets \cap queue = {}
       /\ \A v \in Workers \ {w} : work[v].det \notin work[w].case.dets

\* The index knows the line of an agent that is not excused, though after a restart
\* with the time its case was last touched; cases stay with their agents.
Lines ==
  /\ \A w \in Workers : work[w].now <= clock
  /\ \A w \in Workers : work[w].at = "put" =>
       /\ work[w].case.agent = Agent[work[w].det] /\ work[w].now <= work[w].case.updated
       /\ cases[work[w].id] # None => cases[work[w].id].agent = work[w].case.agent
  /\ \A h \in Analysts : hand[h] # None => hand[h].case.agent = cases[hand[h].id].agent
  /\ \A a \in Agents :
       /\ active[a] # None => cases[active[a].id].agent = a
       /\ line[a] # None =>
            LET l == line[a]
                c == cases[l.id]
            IN  /\ c.agent = a /\ l.last <= c.updated /\ l.last <= clock
                /\ ~excused[a] => /\ active[a] # None /\ active[a].id = l.id
                                  /\ l.last <= active[a].last

IInv == TypeOK /\ Shape /\ Locked /\ CacheFollows /\ Spaced /\ Current /\ Once /\ Lines
=============================================================================
