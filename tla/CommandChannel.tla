--------------------------- MODULE CommandChannel ---------------------------
(***************************************************************************)
(* The command channel of one agent: the response orchestrator issues a    *)
(* command (server/internal/respond/respond.go), the hub writes it to the  *)
(* agent's WebSocket and waits for the result (server/internal/hub/hub.go),*)
(* one handler per connection registers it and routes results (agentWS in  *)
(* server/internal/api/api.go), and the agent serves commands one by one   *)
(* over its current connection, reconnecting when it ends                  *)
(* (agent/src/transport.rs).  Results are matched per agent, so agents do  *)
(* not interact here.                                                      *)
(*                                                                         *)
(* A connection outlives neither end alone: each end learns that the link  *)
(* is gone in its own time, and until then may read what was in flight.    *)
(* A "silent" link lost its peer without a word to the agent, which never  *)
(* sends unasked: only the server's read deadline notices.                 *)
(***************************************************************************)
EXTENDS Integers, Sequences, FiniteSets

CONSTANTS
  Calls,        \* calls of Issue, named by the id of their command
  Conns,        \* bound: connections the server still knows of at once
  FaultKinds,   \* which faults happen
  Faults,       \* bound: how many
  None

ASSUME ConstantsAssumption ==
  /\ None \notin Conns /\ Faults \in Nat
  /\ FaultKinds \subseteq {"link", "silent", "agent", "server", "store"}

VARIABLES
  holder,   \* hub.agents[id]: the registered connection
  hs,       \* per connection: the agentWS handler
  link,     \* per connection: the network between its ends
  closed,   \* per connection: closed by RemoveAgent
  down, up, \* per connection: commands and results in flight
  mine,     \* the agent's connection
  pc, via,  \* per call: the step of Issue/SendCommand, the captured connection
  pending,  \* hub.pending: absent, or the content of the result channel
  ans,      \* per call: what SendCommand returned
  row,      \* per call: the status of its response row
  ran,      \* history: how often each command was executed
  good,     \* history: commands whose execution succeeded
  met,      \* history: kinds of faults met; "slow" is not a fault, see Connect
  faults

conn  == <<holder, hs, link, closed, down, up, mine>>
call  == <<pc, via, pending, ans, row>>
past  == <<ran, good>>
fate  == <<met, faults>>
vars  == <<conn, call, past, fate>>

Result == [id : Calls, ok : BOOLEAN]

TypeOK ==
  /\ holder \in Conns \cup {None} /\ mine \in Conns \cup {None}
  /\ hs \in [Conns -> {"free", "new", "serving"}]
  /\ link \in [Conns -> {"up", "cut", "silent"}]
  /\ closed \in [Conns -> BOOLEAN]
  /\ down \in [Conns -> Seq(Calls)] /\ up \in [Conns -> Seq(Result)]
  /\ pc \in [Calls -> {"new", "lookup", "write", "wait", "save", "end"}]
  /\ via \in [Calls -> Conns \cup {None}]
  /\ \A k \in Calls : pc[k] \in {"write", "wait"} => via[k] \in Conns
  /\ pending \in [Calls -> {"absent", "empty", "ok", "ko"}]
  /\ ans \in [Calls -> {"none", "ok", "ko", "offline", "unsent", "timeout"}]
  /\ row \in [Calls -> {"none", "pending", "done", "failed"}]
  /\ ran \in [Calls -> 0..2] /\ good \subseteq Calls
  /\ met \subseteq FaultKinds \cup {"slow"}
  /\ faults \in 0..Faults

Init ==
  /\ holder = None /\ mine = None
  /\ hs = [c \in Conns |-> "free"]
  /\ link = [c \in Conns |-> "cut"]
  /\ closed = [c \in Conns |-> FALSE]
  /\ down = [c \in Conns |-> <<>>] /\ up = [c \in Conns |-> <<>>]
  /\ pc = [k \in Calls |-> "new"]
  /\ via = [k \in Calls |-> None]
  /\ pending = [k \in Calls |-> "absent"]
  /\ ans = [k \in Calls |-> "none"]
  /\ row = [k \in Calls |-> "none"]
  /\ ran = [k \in Calls |-> 0] /\ good = {}
  /\ met = {} /\ faults = Faults

Fault(kind) ==
  /\ kind \in FaultKinds /\ faults > 0
  /\ faults' = faults - 1 /\ met' = met \cup {kind}

\* The network tells the other end of a working link that it is gone.
Cut(c) == [link EXCEPT ![c] = IF @ = "up" THEN "cut" ELSE @]

-----------------------------------------------------------------------------
(* Issue and SendCommand *)

\* InsertResponse of the pending row.
Issue(k) ==
  /\ pc[k] = "new"
  /\ pc' = [pc EXCEPT ![k] = "lookup"]
  /\ row' = [row EXCEPT ![k] = "pending"]
  /\ UNCHANGED <<conn, via, pending, ans, past, fate>>

\* It fails: Issue returns the error.
IssueFails(k) ==
  /\ pc[k] = "new"
  /\ Fault("store")
  /\ pc' = [pc EXCEPT ![k] = "end"]
  /\ UNCHANGED <<conn, via, pending, ans, row, past>>

\* The connection is captured under the read lock and the result channel is
\* registered, or the agent is offline.
Lookup(k) ==
  /\ pc[k] = "lookup"
  /\ via' = [via EXCEPT ![k] = holder]
  /\ IF holder # None
     THEN /\ pending' = [pending EXCEPT ![k] = "empty"]
          /\ pc' = [pc EXCEPT ![k] = "write"]
          /\ UNCHANGED ans
     ELSE /\ ans' = [ans EXCEPT ![k] = "offline"]
          /\ pc' = [pc EXCEPT ![k] = "save"]
          /\ UNCHANGED pending
  /\ UNCHANGED <<conn, row, past, fate>>

\* WriteMessage succeeds; on a link that is gone the kernel took the bytes.
Write(k) ==
  /\ pc[k] = "write" /\ ~closed[via[k]]
  /\ down' = IF link[via[k]] = "up"
             THEN [down EXCEPT ![via[k]] = Append(@, k)] ELSE down
  /\ pc' = [pc EXCEPT ![k] = "wait"]
  /\ UNCHANGED <<holder, hs, link, closed, up, mine, via, pending, ans, row,
                 past, fate>>

\* SendCommand returns x; its deferred delete unregisters the channel.
Return(k, x) ==
  /\ ans' = [ans EXCEPT ![k] = x]
  /\ pending' = [pending EXCEPT ![k] = "absent"]
  /\ pc' = [pc EXCEPT ![k] = "save"]
  /\ via' = [via EXCEPT ![k] = None]

\* Variant: the error comes after the whole frame has left.
WriteErrorLate(k) ==
  /\ pc[k] = "write"
  /\ down' = [down EXCEPT ![via[k]] = Append(@, k)]
  /\ Return(k, "unsent")
  /\ UNCHANGED <<holder, hs, link, closed, up, mine, row, past, fate>>

\* WriteMessage fails: the connection was closed here or reset by the peer.
WriteError(k) ==
  /\ pc[k] = "write"
  /\ closed[via[k]] \/ link[via[k]] # "up"
  /\ Return(k, "unsent")
  /\ UNCHANGED <<conn, row, past, fate>>

\* The select takes the result ...
Receive(k) ==
  /\ pc[k] = "wait" /\ pending[k] # "empty"
  /\ Return(k, pending[k])
  /\ UNCHANGED <<conn, row, past, fate>>

\* Variant: no timer.
TimeoutNever(k) == FALSE /\ UNCHANGED vars

\* Variant: the command is sent again.
TimeoutRetries(k) ==
  /\ pc[k] = "wait"
  /\ pc' = [pc EXCEPT ![k] = "lookup"]
  /\ UNCHANGED <<conn, via, pending, ans, row, past, fate>>

\* ... or the timer: 8 s.  A result that has just come in is dropped.
Timeout(k) ==
  /\ pc[k] = "wait"
  /\ Return(k, "timeout")
  /\ UNCHANGED <<conn, row, past, fate>>

\* Issue records the outcome.
Save(k) ==
  /\ pc[k] = "save"
  /\ row' = [row EXCEPT ![k] = IF ans[k] = "ok" THEN "done" ELSE "failed"]
  /\ pc' = [pc EXCEPT ![k] = "end"]
  /\ UNCHANGED <<conn, via, pending, ans, past, fate>>

\* The error of this InsertResponse is ignored.
SaveFails(k) ==
  /\ pc[k] = "save"
  /\ Fault("store")
  /\ pc' = [pc EXCEPT ![k] = "end"]
  /\ UNCHANGED <<conn, via, pending, ans, row, past>>

-----------------------------------------------------------------------------
(* agentWS *)

\* AddAgent, which forgets a connection registered before without closing it.
AddAgent(c) ==
  /\ hs[c] = "new"
  /\ holder' = c
  /\ hs' = [hs EXCEPT ![c] = "serving"]
  /\ UNCHANGED <<link, closed, down, up, mine, call, past, fate>>

\* Variant: a result is not matched by its id.
DeliverResultAnyId(c) ==
  /\ hs[c] = "serving" /\ ~closed[c] /\ up[c] # <<>>
  /\ LET res == Head(up[c])
     IN  pending' = [k \in Calls |->
           IF pending[k] # "empty" THEN pending[k]
           ELSE IF res.ok THEN "ok" ELSE "ko"]
  /\ up' = [up EXCEPT ![c] = Tail(@)]
  /\ UNCHANGED <<holder, hs, link, closed, down, mine, pc, via, ans, row, past,
                 fate>>

\* ReadMessage returns a result: DeliverResult, to an empty channel only.
DeliverResult(c) ==
  /\ hs[c] = "serving" /\ ~closed[c] /\ up[c] # <<>>
  /\ LET res == Head(up[c])
     IN  pending' = [pending EXCEPT ![res.id] =
           IF @ # "empty" THEN @ ELSE IF res.ok THEN "ok" ELSE "ko"]
  /\ up' = [up EXCEPT ![c] = Tail(@)]
  /\ UNCHANGED <<holder, hs, link, closed, down, mine, pc, via, ans, row, past,
                 fate>>

\* ReadMessage fails: the connection is gone, or the read deadline passes,
\* because the link is silent or because the pings go to another connection.
ReadFails(c) == closed[c] \/ link[c] # "up" \/ holder # c

\* Variant: RemoveAgent deletes the entry and leaves the connection open.
HandlerEndsKeepsOpen(c) ==
  /\ hs[c] = "serving" /\ ReadFails(c)
  /\ hs' = [hs EXCEPT ![c] = "free"]
  /\ holder' = None
  /\ UNCHANGED <<link, closed, down, up, mine, call, past, fate>>

\* The deferred RemoveAgent closes and deletes the connection registered NOW,
\* which need not be this handler's; its own is then left open.
HandlerEnds(c) ==
  /\ hs[c] = "serving" /\ ReadFails(c)
  /\ hs' = [hs EXCEPT ![c] = "free"]
  /\ IF holder = None THEN UNCHANGED <<link, closed>>
     ELSE /\ closed' = [closed EXCEPT ![holder] = TRUE]
          /\ link' = Cut(holder)
  /\ holder' = None
  /\ UNCHANGED <<down, up, mine, call, past, fate>>

-----------------------------------------------------------------------------
(* The agent: command_channel and serve_commands *)

\* A connection is dialled and upgraded; c is a name nothing refers to.  "slow": an
\* earlier handler took longer than the agent's 3 s to register, or to return when
\* its connection had been closed under it.
Connect(c) ==
  /\ mine = None
  /\ hs[c] = "free" /\ \A k \in Calls : via[k] # c
  /\ met' = IF \E d \in Conns : hs[d] = "new" \/ (closed[d] /\ hs[d] # "free")
            THEN met \cup {"slow"} ELSE met
  /\ mine' = c
  /\ hs' = [hs EXCEPT ![c] = "new"]
  /\ link' = [link EXCEPT ![c] = "up"]
  /\ closed' = [closed EXCEPT ![c] = FALSE]
  /\ down' = [down EXCEPT ![c] = <<>>]
  /\ up' = [up EXCEPT ![c] = <<>>]
  /\ UNCHANGED <<holder, call, past, faults>>

\* responder.execute, then the result is sent.
Execute ==
  /\ mine # None /\ down[mine] # <<>>
  /\ LET k == Head(down[mine])
     IN \E ok \in BOOLEAN :
          /\ ran' = [ran EXCEPT ![k] = IF @ < 2 THEN @ + 1 ELSE @]
          /\ good' = IF ok THEN good \cup {k} ELSE good
          /\ up' = IF link[mine] = "up"
                   THEN [up EXCEPT ![mine] = Append(@, [id |-> k, ok |-> ok])]
                   ELSE up
  /\ down' = [down EXCEPT ![mine] = Tail(@)]
  /\ UNCHANGED <<holder, hs, link, closed, mine, call, fate>>

\* serve_commands returns: the stream ended, or a send failed.
AgentNotices ==
  /\ mine # None /\ link[mine] = "cut"
  /\ mine' = None
  /\ UNCHANGED <<holder, hs, link, closed, down, up, call, past, fate>>

-----------------------------------------------------------------------------
(* Faults *)

\* The link breaks: both ends can notice, or only the server.
LinkBreaks(c) ==
  /\ link[c] = "up"
  /\ \E lost \in {"cut", "silent"} :
       /\ Fault(IF lost = "cut" THEN "link" ELSE "silent")
       /\ link' = [link EXCEPT ![c] = lost]
  /\ UNCHANGED <<holder, hs, closed, down, up, mine, call, past>>

\* The agent's process is restarted.
AgentCrash ==
  /\ mine # None
  /\ Fault("agent")
  /\ mine' = None
  /\ link' = Cut(mine)
  /\ UNCHANGED <<holder, hs, closed, down, up, call, past>>

\* The server's process is restarted: the hub, the handlers and the calls are
\* gone; rows and history stay.
ServerCrash ==
  /\ Fault("server")
  /\ holder' = None
  /\ hs' = [c \in Conns |-> "free"]
  /\ link' = [c \in Conns |-> IF link[c] = "up" THEN "cut" ELSE link[c]]
  /\ closed' = [c \in Conns |-> TRUE]
  /\ up' = [c \in Conns |-> <<>>]
  /\ pending' = [k \in Calls |-> "absent"]
  /\ via' = [k \in Calls |-> None]
  /\ pc' = [k \in Calls |-> IF pc[k] = "new" THEN "new" ELSE "end"]
  /\ UNCHANGED <<down, mine, ans, row, past>>

-----------------------------------------------------------------------------
CallStep(k) ==
  \/ Issue(k) \/ Lookup(k) \/ Write(k) \/ WriteError(k)
  \/ Receive(k) \/ Timeout(k) \/ Save(k)

Next ==
  \/ \E k \in Calls : CallStep(k) \/ IssueFails(k) \/ SaveFails(k)
  \/ \E c \in Conns : AddAgent(c) \/ DeliverResult(c) \/ HandlerEnds(c)
  \/ \E c \in Conns : Connect(c) \/ LinkBreaks(c)
  \/ Execute \/ AgentNotices
  \/ AgentCrash \/ ServerCrash

Spec == Init /\ [][Next]_vars

\* Goroutines and the agent's task run on; timers expire.
Fairness ==
  /\ \A k \in Calls : WF_vars(CallStep(k))
  /\ \A c \in Conns : /\ WF_vars(AddAgent(c)) /\ WF_vars(DeliverResult(c))
                      /\ WF_vars(HandlerEnds(c))
  /\ WF_vars(\E c \in Conns : Connect(c))
  /\ WF_vars(Execute) /\ WF_vars(AgentNotices)

FairSpec == Spec /\ Fairness
-----------------------------------------------------------------------------
(* Properties *)

\* What a response says of its command is so, whatever late results, concurrent calls
\* and reconnections the hub sees: "done" means this very command was executed and
\* succeeded; a failure reported, that it was executed and failed; "agent offline" or
\* "send failed", that it was not, before or since (after "agent timeout" it may have
\* been); no command is executed twice, and none that no response tells of.
OutcomesHonest ==
  \A k \in Calls :
    /\ row[k] = "done" => k \in good
    /\ ans[k] = "ko" => ran[k] = 1 /\ k \notin good
    /\ ans[k] \in {"offline", "unsent"} => ran[k] = 0
    /\ ran[k] = 0 \/ (ran[k] = 1 /\ row[k] # "none")

\* Every issued response leaves the status pending: a silent agent, a lost connection
\* or a late result cannot hold Issue up.  Only a failing store or a server that dies
\* can leave it so.
PendingResolved ==
  \A k \in Calls :
    row[k] = "pending" ~> row[k] \in {"done", "failed"} \/ met \cap {"store", "server"} # {}

\* transport.rs:90, "reconnecting forever": when the faults are over the hub ends up
\* with the agent's connection and keeps it, although a late RemoveAgent of an earlier
\* connection may first close a newer one.  Not so when a link dies without a word to
\* the agent, or a handler is slower than the agent.
ChannelRecovers ==
  <>[](\/ mine # None /\ holder = mine /\ link[mine] = "up"
       \/ met \cap {"silent", "slow"} # {})

\* Why OutcomesHonest holds: a call under way has its row, one that waits has a channel
\* to wait on and no answer, and a command that has not been written has not run.
Waiting ==
  \A k \in Calls :
    /\ pc[k] \in {"lookup", "write", "wait", "save"} => row[k] = "pending"
    /\ pc[k] = "new" => row[k] = "none"
    /\ pc[k] \in {"write", "wait"} => pending[k] # "absent"
    /\ pc[k] \in {"new", "lookup", "write", "wait"} => ans[k] = "none"
    /\ pc[k] \in {"new", "lookup", "write"} => ran[k] = 0

\* A command is in flight once, after it was written and before it runs.
InFlight ==
  \A c \in Conns : \A i \in DOMAIN down[c] :
    LET k == down[c][i]
    IN  /\ ran[k] = 0 /\ ans[k] \notin {"offline", "unsent"} /\ row[k] # "none"
        /\ pc[k] \in {"wait", "save", "end"}
        /\ \A d \in Conns : \A j \in DOMAIN down[d] : down[d][j] = k => d = c /\ j = i

\* News of a command, wherever it is on its way, is of one that ran, and true.
Told(k, ok) == ran[k] = 1 /\ (ok <=> k \in good)
News ==
  /\ \A c \in Conns : \A i \in DOMAIN up[c] : Told(up[c][i].id, up[c][i].ok)
  /\ \A k \in Calls : pending[k] \in {"ok", "ko"} => Told(k, pending[k] = "ok")
  /\ \A k \in Calls : ans[k] \in {"ok", "ko"} => Told(k, ans[k] = "ok")
  /\ \A k \in good : ran[k] = 1

IInv == TypeOK /\ Waiting /\ InFlight /\ News /\ OutcomesHonest
=============================================================================
