---------------------------- MODULE AgentStatus ----------------------------
(***************************************************************************)
(* The status column of one agent's row and everybody who writes it: the   *)
(* WebSocket handler (agentWS, server/internal/api/api.go), the response   *)
(* orchestrator (Issue, server/internal/respond/respond.go) and, on every  *)
(* server process, the dead-man's switch (StartLivenessMonitor and         *)
(* sweepLiveness, server/internal/pipeline/pipeline.go).  The ingest       *)
(* handler moves last_seen but not the status.                             *)
(*                                                                         *)
(* Time passes in ticks of one sweep interval (30 s).  An agent that is    *)
(* running flushes at least once in Every ticks, after a restart at once;  *)
(* a command takes at most 8 s and a reconnection 3 s, so neither is left  *)
(* undone at a tick.  A sweep and its alert may be late.                   *)
(***************************************************************************)
EXTENDS Integers, FiniteSets

CONSTANTS
  Servers,     \* server processes; all of them sweep
  Ingest,      \* those that run the ingest and gateway roles
  Window,      \* ticks of silence after which an agent is judged dead
  Every,       \* the collection interval, in ticks rounded up
  FaultKinds,  \* which faults happen
  Faults       \* bound: how many

ASSUME ServersAssumption == Ingest \subseteq Servers
ASSUME NumbersAssumption == /\ Window \in Nat \ {0} /\ Every \in Nat \ {0}
  /\ Faults \in Nat
ASSUME FaultKindsAssumption ==
  FaultKinds \subseteq {"kill", "link", "server", "store"}

VARIABLES
  host,       \* the agent: up, or killed, frozen or cut off
  ws,         \* does it have a command channel?
  order,      \* a command the agent confirmed and Issue has not recorded
  status,     \* agents.status
  age,        \* ticks since agents.last_seen
  quiet,      \* ticks since the agent flushed, up to its interval
  up, grace,  \* per server: running? ticks of startup grace left
  due,        \* per server: its ticker has fired
  todo,       \* per server: flipped the row and has the alert to raise
  silent,     \* history: nothing uploaded since the agent last went down
  lives,      \* history: times the row became live
  alarms,     \* history: flips ever
  alerted,    \* history: what became of this silence's alert
  faults

srv   == <<up, grace, due, todo>>
past  == <<silent, lives, alarms, alerted>>
vars  == <<host, ws, order, status, age, quiet, srv, past, faults>>

Live   == {"online", "isolated"}
Orders == {"isolate", "unisolate"}

TypeOK ==
  /\ host \in {"up", "down"} /\ ws \in BOOLEAN
  /\ order \in Orders \cup {"none"}
  /\ status \in Live \cup {"offline"}
  /\ age \in 0..(Window + 1) /\ quiet \in 0..Every
  /\ up \in [Servers -> BOOLEAN] /\ grace \in [Servers -> 0..Window]
  /\ due \in [Servers -> BOOLEAN] /\ todo \in [Servers -> BOOLEAN]
  /\ silent \in BOOLEAN /\ alerted \in {"no", "stored", "lost"}
  /\ lives \in Nat /\ alarms \in Nat
  /\ faults \in 0..Faults

\* Enrolled just now; the servers are starting.
Init ==
  /\ host = "up" /\ ws = FALSE /\ order = "none"
  /\ status = "online" /\ age = 0 /\ quiet = Every
  /\ up = [s \in Servers |-> TRUE]
  /\ grace = [s \in Servers |-> Window]
  /\ due = [s \in Servers |-> FALSE] /\ todo = [s \in Servers |-> FALSE]
  /\ silent = FALSE /\ lives = 1 /\ alarms = 0
  /\ alerted = "no"
  /\ faults = Faults

Fault(kind) ==
  /\ kind \in FaultKinds /\ faults > 0
  /\ faults' = faults - 1

Reachable == \E s \in Ingest : up[s]

\* SetAgentStatus: an UPDATE without a condition.
SetStatus(x) ==
  /\ status' = x
  /\ lives' = IF status \notin Live /\ x \in Live THEN lives + 1 ELSE lives

-----------------------------------------------------------------------------
(* The agent, as the server sees it *)

\* A batch arrives: Heartbeat sets last_seen, the status stays as it is.
Upload ==
  /\ host = "up" /\ Reachable /\ quiet > 0
  /\ age' = 0 /\ quiet' = 0
  /\ silent' = FALSE /\ alerted' = "no"
  /\ UNCHANGED <<host, ws, order, status, srv, lives, alarms, faults>>

\* No server answers: the batch is spooled until the next flush.
UploadFails ==
  /\ host = "up" /\ ~Reachable /\ quiet > 0
  /\ quiet' = 0
  /\ UNCHANGED <<host, ws, order, status, age, srv, past, faults>>

\* agentWS: AddAgent and SetAgentStatus(online); last_seen stays as it is.
Connect ==
  /\ host = "up" /\ Reachable /\ ~ws
  /\ ws' = TRUE
  /\ SetStatus("online")
  /\ UNCHANGED <<host, order, age, quiet, srv, silent, alarms,
                 alerted, faults>>

\* RemoveAgent leaves the row alone.
Disconnect ==
  /\ ws
  /\ Fault("link")
  /\ ws' = FALSE
  /\ UNCHANGED <<host, order, status, age, quiet, srv, past>>

\* The agent goes down: SIGKILL, freeze, power off, cut off.
Kill ==
  /\ host = "up"
  /\ Fault("kill")
  /\ host' = "down" /\ ws' = FALSE
  /\ silent' = TRUE /\ alerted' = "no"
  /\ UNCHANGED <<order, status, age, quiet, srv, lives, alarms>>

\* It comes back.
Revive ==
  /\ host = "down"
  /\ host' = "up"
  /\ quiet' = Every
  /\ UNCHANGED <<ws, order, status, age, srv, past, faults>>

-----------------------------------------------------------------------------
(* Issue *)

\* The agent isolates or releases the endpoint and confirms it.
Obey(o) ==
  /\ ws /\ order = "none"
  /\ order' = o
  /\ UNCHANGED <<host, ws, status, age, quiet, srv, past, faults>>

\* Issue records it in the row.
Record ==
  /\ order # "none" /\ Reachable
  /\ SetStatus(IF order = "isolate" THEN "isolated" ELSE "online")
  /\ order' = "none"
  /\ UNCHANGED <<host, ws, age, quiet, srv, silent, alarms,
                 alerted, faults>>

-----------------------------------------------------------------------------
(* The dead-man's switch *)

Sweeping(s) == up[s] /\ due[s] /\ ~todo[s]
Stale       == age > Window

Flip(s) ==
  /\ status' = "offline"
  /\ todo' = [todo EXCEPT ![s] = TRUE]
  /\ alarms' = alarms + 1

\* Variant: MarkStaleOffline's condition, which leaves isolated agents out.
SweepOnlineOnly(s) ==
  /\ Sweeping(s)
  /\ IF Stale /\ status = "online" THEN Flip(s)
     ELSE UNCHANGED <<status, todo, alarms>>
  /\ due' = [due EXCEPT ![s] = FALSE]
  /\ UNCHANGED <<host, ws, order, age, quiet, up, grace, silent,
                 lives, alerted, faults>>

\* Variant: the read and the flip are two statements, so that another server
\* may find the agent stale in between.
SweepUnconditional(s) ==
  /\ Sweeping(s)
  /\ IF Stale /\ (status \in Live \/ \E t \in Servers : todo[t]) THEN Flip(s)
     ELSE UNCHANGED <<status, todo, alarms>>
  /\ due' = [due EXCEPT ![s] = FALSE]
  /\ UNCHANGED <<host, ws, order, age, quiet, up, grace, silent,
                 lives, alerted, faults>>

\* MarkStaleOfflineReturning: one UPDATE ... RETURNING.
Sweep(s) ==
  /\ Sweeping(s)
  /\ IF Stale /\ status \in Live THEN Flip(s)
     ELSE UNCHANGED <<status, todo, alarms>>
  /\ due' = [due EXCEPT ![s] = FALSE]
  /\ UNCHANGED <<host, ws, order, age, quiet, up, grace, silent,
                 lives, alerted, faults>>

\* Variant: the alert is not stored.
EmitForgets(s) ==
  /\ todo[s]
  /\ todo' = [todo EXCEPT ![s] = FALSE]
  /\ UNCHANGED <<host, ws, order, status, age, quiet, up, grace, due,
                 past, faults>>

\* emit of the liveness detection.
Emit(s) ==
  /\ todo[s]
  /\ todo' = [todo EXCEPT ![s] = FALSE]
  /\ alerted' = IF silent THEN "stored" ELSE alerted
  /\ UNCHANGED <<host, ws, order, status, age, quiet, up, grace, due,
                 silent, lives, alarms, faults>>

\* emit fails: the error is logged.
EmitFails(s) ==
  /\ todo[s]
  /\ Fault("store")
  /\ todo' = [todo EXCEPT ![s] = FALSE]
  /\ alerted' = IF silent THEN "lost" ELSE alerted
  /\ UNCHANGED <<host, ws, order, status, age, quiet, up, grace, due, silent,
                 lives, alarms>>

-----------------------------------------------------------------------------
(* Server processes and time *)

\* A server dies, with the alert it had to raise and, if no other holds it,
\* the command channel.
Crash(s) ==
  /\ up[s]
  /\ Fault("server")
  /\ up' = [up EXCEPT ![s] = FALSE]
  /\ due' = [due EXCEPT ![s] = FALSE]
  /\ todo' = [todo EXCEPT ![s] = FALSE]
  /\ ws' \in {ws, FALSE} /\ (ws' => \E t \in Ingest \ {s} : up[t])
  /\ order' \in {order, "none"} /\ (order' # "none" => \E t \in Ingest \ {s} : up[t])
  /\ alerted' = IF silent /\ todo[s] THEN "lost" ELSE alerted
  /\ UNCHANGED <<host, status, age, quiet, grace, silent, lives, alarms>>

\* Variant: no startup grace.
StartWithoutGrace(s) ==
  /\ ~up[s]
  /\ up' = [up EXCEPT ![s] = TRUE]
  /\ grace' = [grace EXCEPT ![s] = 0]
  /\ UNCHANGED <<host, ws, order, status, age, quiet, due, todo,
                 past, faults>>

\* A server starts: the first sweep is a window away.
Start(s) ==
  /\ ~up[s]
  /\ up' = [up EXCEPT ![s] = TRUE]
  /\ grace' = [grace EXCEPT ![s] = Window]
  /\ UNCHANGED <<host, ws, order, status, age, quiet, due, todo,
                 past, faults>>

\* One interval passes; an agent that can upload has done so.
Tick ==
  /\ host = "up" => quiet < Every
  /\ (host = "up" /\ Reachable) => ws
  /\ order = "none"
  /\ age' = IF age <= Window THEN age + 1 ELSE age
  /\ quiet' = IF quiet < Every THEN quiet + 1 ELSE quiet
  /\ grace' = [s \in Servers |->
                 IF up[s] /\ grace[s] > 0 THEN grace[s] - 1 ELSE grace[s]]
  /\ due' = [s \in Servers |-> up[s] /\ (due[s] \/ grace[s] = 0)]
  /\ UNCHANGED <<host, ws, order, status, up, todo, past, faults>>

-----------------------------------------------------------------------------
Next ==
  \/ Upload \/ UploadFails \/ Connect \/ Disconnect \/ Kill \/ Revive
  \/ \E o \in Orders : Obey(o)
  \/ Record
  \/ \E s \in Servers : Sweep(s) \/ Emit(s) \/ EmitFails(s)
  \/ \E s \in Servers : Crash(s) \/ Start(s)
  \/ Tick

Spec == Init /\ [][Next]_vars

\* Agents upload and reconnect, sweeps and alerts are made, stopped servers are
\* restarted and time passes.  A killed agent need not come back.
Fairness ==
  /\ WF_vars(Upload \/ UploadFails) /\ WF_vars(Connect) /\ WF_vars(Record)
  /\ WF_vars(Tick)
  /\ \A s \in Servers : /\ WF_vars(Sweep(s)) /\ WF_vars(Emit(s))
                        /\ WF_vars(Start(s))

FairSpec == Spec /\ Fairness
-----------------------------------------------------------------------------
(* Properties *)

\* No sweep judges an agent dead that has been up since its last upload, server
\* restarts included: "a startup grace of one window lets live agents reconnect
\* after a server restart before any are judged silent" (pipeline.go:186).
NoFalseAlarm == [][(status \in Live /\ status' = "offline") => silent]_vars

\* However many servers sweep, a row that became live is flipped, and alarmed,
\* once: "exactly one server sees each transition" (postgres.go:201).
OneAlarmPerLife == alarms <= lives

\* The inductive strengthening: a live row has an alarm left.
LivesLeft == status \in Live => alarms < lives

IInv == TypeOK /\ OneAlarmPerLife /\ LivesLeft

\* The inductive strengthening of NoFalseAlarm: a server that could sweep has
\* given the agent a whole window since the last upload that failed.
GraceCovers ==
  /\ \A s \in Servers : due[s] => up[s]
  /\ ~silent =>
       /\ host = "up"
       /\ \A s \in Servers : up[s] =>
            /\ age = quiet \/ quiet + grace[s] >= Window
            /\ due[s] => age = quiet /\ age <= Window

\* An agent that stays down is shown offline in the end, an isolated one too; and if
\* the row of one that goes down is live, the agent comes back, or an alert is stored,
\* or a server crashed or failed to store one it had to raise.  (Of a row that is
\* offline already the code raises none, whatever pipeline.go:182 says.)
SilenceTold ==
  /\ <>[](host = "down") => <>[](status = "offline")
  /\ (host = "down" /\ status \in Live) ~> (host = "up" \/ alerted # "no")
=============================================================================
