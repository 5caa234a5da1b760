------------------------------ MODULE Pipeline ------------------------------
(***************************************************************************)
(* The telemetry path of a scaled deployment: an agent uploads its batches *)
(* (agent/src/main.rs, transport.rs), the ingest handler publishes their   *)
(* events one by one (server/internal/api/api.go), JetStream delivers the  *)
(* messages to the "processors" consumer (server/internal/bus/nats.go),    *)
(* and the workers of that consumer persist each event and what it         *)
(* triggers (server/internal/pipeline/pipeline.go).                        *)
(*                                                                         *)
(* The agent's spool is Spool's concern; here a batch is held until an     *)
(* upload of it was answered with success.  Requests that the agent gave   *)
(* up on go on running.  Every failure takes one from the budget Faults,   *)
(* so that liveness can say how many failures the path absorbs.            *)
(***************************************************************************)
EXTENDS Integers, FiniteSets

CONSTANTS
  Events,       \* the events, by id
  Batches, Content,   \* the batches and the events in each
  Requests,     \* bound: ingest handlers running at once
  Msgs,         \* bound: messages ever published
  Workers,      \* processes sharing the "processors" consumer
  MaxDeliver,   \* the consumer's delivery limit
  Sigma,        \* events on which a stateless engine raises a detection
  Novel,        \* events the baseline engine sees as a first deviation
  Faults,       \* bound: failures
  Cap,          \* bound: row and detection counts saturate here
  None

ASSUME ContentAssumption ==
  /\ Content \in [Batches -> SUBSET Events]
  /\ \A e \in Events : \E b \in Batches : e \in Content[b]
ASSUME SubsetAssumption == Sigma \subseteq Events /\ Novel \subseteq Events
ASSUME NumberAssumption ==
  MaxDeliver \in Nat \ {0} /\ Faults \in Nat /\ Cap \in Nat \ {0}
ASSUME NoneAssumption == None \notin Requests \cup Msgs \cup Events \cup Batches

VARIABLES
  held,      \* batches not yet acknowledged: in hand or in the spool
  waiting,   \* the request the agent is waiting for
  req,       \* ingest handlers: batch, events left to publish, any failed?
  msg,       \* the stream, as its consumer "processors" sees it
  wk,        \* per worker: the message in hand, the step, any error so far
  noted,     \* per worker: the novelties its baseline engine has noted
  rows,      \* table events: rows per event id
  dets,      \* table detections: detections of the stateless engines
  anomalies, \* table detections: detections of the baseline engine
  faults     \* failures left

vars == <<held, waiting, req, msg, wk, noted, rows, dets, anomalies, faults>>
agent  == <<held, waiting>>
tables == <<rows, dets, anomalies>>
worker == <<wk, noted>>

Request == [b : Batches \cup {None}, left : SUBSET Events, failed : BOOLEAN]
Message == [e : Events \cup {None}, st : {"free", "ready", "busy", "acked"},
            n : 0..MaxDeliver]
Steps   == {"idle", "insert", "sigma", "baseline", "finish"}
Worker  == [m : Msgs \cup {None}, pc : Steps, err : BOOLEAN]

NoRequest == [b |-> None, left |-> {}, failed |-> FALSE]
Idle      == [m |-> None, pc |-> "idle", err |-> FALSE]

TypeOK ==
  /\ held \subseteq Batches
  /\ waiting \in Requests \cup {None}
  /\ req \in [Requests -> Request]
  /\ msg \in [Msgs -> Message]
  /\ wk \in [Workers -> Worker]
  /\ noted \in [Workers -> SUBSET Novel]
  /\ rows \in [Events -> 0..Cap]
  /\ dets \in [Events -> 0..Cap]
  /\ anomalies \in [Events -> 0..Cap]
  /\ faults \in 0..Faults

Init ==
  /\ held = Batches /\ waiting = None
  /\ req = [r \in Requests |-> NoRequest]
  /\ msg = [m \in Msgs |-> [e |-> None, st |-> "free", n |-> 0]]
  /\ wk = [w \in Workers |-> Idle]
  /\ noted = [w \in Workers |-> {}]
  /\ rows = [e \in Events |-> 0]
  /\ dets = [e \in Events |-> 0]
  /\ anomalies = [e \in Events |-> 0]
  /\ faults = Faults

Fault == faults > 0 /\ faults' = faults - 1

-----------------------------------------------------------------------------
(* The agent and the ingest handler *)

\* The agent posts a batch, for the first time or from the spool.
Post(b, r) ==
  /\ waiting = None /\ b \in held
  /\ req[r] = NoRequest
  /\ waiting' = r
  /\ req' = [req EXCEPT ![r] = [b |-> b, left |-> Content[b], failed |-> FALSE]]
  /\ UNCHANGED <<held, msg, worker, tables, faults>>

\* bus.Publish of one event of the batch returns nil.
Publish(r, e, m) ==
  /\ e \in req[r].left
  /\ msg[m].st = "free"
  /\ msg' = [msg EXCEPT ![m] = [e |-> e, st |-> "ready", n |-> 0]]
  /\ req' = [req EXCEPT ![r].left = @ \ {e}]
  /\ UNCHANGED <<agent, worker, tables, faults>>

\* It returns an error; after a timeout the message may be in the stream all
\* the same.
PublishFails(r, e) ==
  /\ e \in req[r].left
  /\ Fault
  /\ \/ UNCHANGED msg
     \/ \E m \in Msgs :
          /\ msg[m].st = "free"
          /\ msg' = [msg EXCEPT ![m] = [e |-> e, st |-> "ready", n |-> 0]]
  /\ req' = [req EXCEPT ![r].left = @ \ {e}, ![r].failed = TRUE]
  /\ UNCHANGED <<agent, worker, tables>>

\* Variant: 202 although an event failed to publish.
ReplyAlways202(r) ==
  /\ req[r].b # None /\ req[r].left = {}
  /\ held' = IF waiting = r THEN held \ {req[r].b} ELSE held
  /\ waiting' = IF waiting = r THEN None ELSE waiting
  /\ req' = [req EXCEPT ![r] = NoRequest]
  /\ UNCHANGED <<msg, worker, tables, faults>>

\* The handler answers 202, or 503 when an event failed to publish.  A 202
\* releases the batch if the agent is still waiting for this answer.
Reply(r) ==
  /\ req[r].b # None /\ req[r].left = {}
  /\ held' = IF waiting = r /\ ~req[r].failed THEN held \ {req[r].b} ELSE held
  /\ waiting' = IF waiting = r THEN None ELSE waiting
  /\ req' = [req EXCEPT ![r] = NoRequest]
  /\ UNCHANGED <<msg, worker, tables, faults>>

\* The agent's request times out, or the answer is lost; the handler goes on.
GiveUp ==
  /\ waiting # None
  /\ Fault
  /\ waiting' = None
  /\ UNCHANGED <<held, req, msg, worker, tables>>

\* The ingest process dies with the handler.
IngestCrash(r) ==
  /\ req[r].b # None
  /\ Fault
  /\ req' = [req EXCEPT ![r] = NoRequest]
  /\ waiting' = IF waiting = r THEN None ELSE waiting
  /\ UNCHANGED <<held, msg, worker, tables>>

-----------------------------------------------------------------------------
(* The consumer "processors" *)

\* JetStream hands a message to an idle worker.
Deliver(m, w) ==
  /\ msg[m].st = "ready" /\ msg[m].n < MaxDeliver
  /\ wk[w] = Idle
  /\ msg' = [msg EXCEPT ![m].st = "busy", ![m].n = @ + 1]
  /\ wk' = [wk EXCEPT ![w] = [m |-> m, pc |-> "insert", err |-> FALSE]]
  /\ UNCHANGED <<agent, req, noted, tables, faults>>

\* AckWait passes without an answer; the worker, if alive, carries on.
AckWaitExpires(m) ==
  /\ msg[m].st = "busy"
  /\ Fault
  /\ msg' = [msg EXCEPT ![m].st = "ready"]
  /\ UNCHANGED <<agent, req, worker, tables>>

\* The worker's process dies, and with it its baselines.
WorkerCrash(w) ==
  /\ wk[w] # Idle \/ noted[w] # {}
  /\ Fault
  /\ wk' = [wk EXCEPT ![w] = Idle]
  /\ noted' = [noted EXCEPT ![w] = {}]
  /\ msg' = [m \in Msgs |->
               IF m = wk[w].m /\ msg[m].st = "busy"
               THEN [msg[m] EXCEPT !.st = "ready"] ELSE msg[m]]
  /\ UNCHANGED <<agent, req, tables>>

EventOf(w) == msg[wk[w].m].e

Bump(table, e) == [table EXCEPT ![e] = IF @ < Cap THEN @ + 1 ELSE @]

\* InsertEvents: ON CONFLICT (id, ts) DO NOTHING.
Insert(w) ==
  /\ wk[w].pc = "insert"
  /\ rows' = IF rows[EventOf(w)] = 0 THEN Bump(rows, EventOf(w)) ELSE rows
  /\ wk' = [wk EXCEPT ![w].pc = "sigma"]
  /\ UNCHANGED <<agent, req, msg, noted, dets, anomalies, faults>>

\* InsertEvents fails: processStateless returns the error at once.
InsertFails(w) ==
  /\ wk[w].pc = "insert"
  /\ Fault
  /\ wk' = [wk EXCEPT ![w].pc = "finish", ![w].err = TRUE]
  /\ UNCHANGED <<agent, req, msg, noted, tables>>

\* Variant: the error of emit is logged and forgotten.
DetectForgets(w) ==
  /\ wk[w].pc = "sigma"
  /\ wk' = [wk EXCEPT ![w].pc = "baseline"]
  /\ \/ /\ dets' = IF EventOf(w) \in Sigma THEN Bump(dets, EventOf(w)) ELSE dets
        /\ UNCHANGED faults
     \/ Fault /\ UNCHANGED dets
  /\ UNCHANGED <<agent, req, msg, noted, rows, anomalies>>

\* Eval and Match, and emit of what they return; errors are collected.
Detect(w) ==
  /\ wk[w].pc = "sigma"
  /\ \/ /\ EventOf(w) \notin Sigma
        /\ UNCHANGED <<dets, faults>>
        /\ wk' = [wk EXCEPT ![w].pc = "baseline"]
     \/ /\ EventOf(w) \in Sigma
        /\ dets' = Bump(dets, EventOf(w))
        /\ wk' = [wk EXCEPT ![w].pc = "baseline"]
        /\ UNCHANGED faults
     \/ /\ EventOf(w) \in Sigma
        /\ Fault
        /\ wk' = [wk EXCEPT ![w].pc = "baseline", ![w].err = TRUE]
        /\ UNCHANGED dets
  /\ UNCHANGED <<agent, req, msg, noted, rows, anomalies>>

\* baseline.Observe notes the novelty, then emit stores it or fails.
Baseline(w) ==
  /\ wk[w].pc = "baseline"
  /\ LET new == ({EventOf(w)} \cap Novel) \ noted[w]
     IN  /\ noted' = [noted EXCEPT ![w] = @ \cup new]
         /\ \/ /\ anomalies' = IF new = {} THEN anomalies
                               ELSE Bump(anomalies, EventOf(w))
               /\ wk' = [wk EXCEPT ![w].pc = "finish"]
               /\ UNCHANGED faults
            \/ /\ new # {}
               /\ Fault
               /\ wk' = [wk EXCEPT ![w].pc = "finish", ![w].err = TRUE]
               /\ UNCHANGED anomalies
  /\ UNCHANGED <<agent, req, msg, rows, dets>>

\* Variant: acknowledge whatever the handler returned.
FinishAlwaysAcks(w) ==
  /\ wk[w].pc = "finish"
  /\ msg' = [msg EXCEPT ![wk[w].m].st = "acked"]
  /\ wk' = [wk EXCEPT ![w] = Idle]
  /\ UNCHANGED <<agent, req, noted, tables, faults>>

\* The consume callback: Ack, or NakWithDelay when the handler failed.
Finish(w) ==
  /\ wk[w].pc = "finish"
  /\ msg' = [msg EXCEPT ![wk[w].m].st =
               IF ~wk[w].err THEN "acked"
               ELSE IF @ = "busy" THEN "ready" ELSE @]
  /\ wk' = [wk EXCEPT ![w] = Idle]
  /\ UNCHANGED <<agent, req, noted, tables, faults>>

-----------------------------------------------------------------------------
Work(w) == Insert(w) \/ Detect(w) \/ Baseline(w) \/ Finish(w)
Serve(r) == (\E e \in Events, m \in Msgs : Publish(r, e, m)) \/ Reply(r)

Next ==
  \/ \E b \in Batches, r \in Requests : Post(b, r)
  \/ \E r \in Requests : Serve(r)
  \/ \E r \in Requests, e \in Events : PublishFails(r, e)
  \/ GiveUp
  \/ \E r \in Requests : IngestCrash(r)
  \/ \E m \in Msgs, w \in Workers : Deliver(m, w)
  \/ \E m \in Msgs : AckWaitExpires(m)
  \/ \E w \in Workers : WorkerCrash(w) \/ InsertFails(w) \/ Work(w)

Spec == Init /\ [][Next]_vars

\* The agent keeps posting, handlers and workers run to their end, and the
\* consumer delivers each message it may deliver to every worker in turn.
Fairness ==
  /\ \A b \in Batches : SF_vars(\E r \in Requests : Post(b, r))
  /\ \A r \in Requests : WF_vars(Serve(r))
  /\ \A m \in Msgs : SF_vars(\E w \in Workers : Deliver(m, w))
  /\ \A w \in Workers : WF_vars(Work(w))

FairSpec == Spec /\ Fairness
-----------------------------------------------------------------------------
(* Properties *)

\* A message is acknowledged only when its event has its row and, if a
\* stateless engine fires on it, a detection: "explicitly ack only after
\* successful processing".  With crashes, AckWait expiries and several
\* workers on one message.
AckedIsProcessed ==
  \A m \in Msgs : msg[m].st = "acked" =>
    /\ rows[msg[m].e] > 0
    /\ msg[m].e \in Sigma => dets[msg[m].e] > 0

\* However often an event is uploaded, published and delivered, the events
\* table has at most one row for it.
OneRow == \A e \in Events : rows[e] <= 1

\* Who has custody of an event.
Holding(e) ==
     {x \in {"agent"} : \E b \in held : e \in Content[b]}
     \cup {x \in {"bus"} : \E m \in Msgs : msg[m].e = e /\ msg[m].st # "acked"}
     \cup {x \in {"db"} : rows[e] > 0}

\* The agent releases a batch only when the stream or the database has each of
\* its events, and the consumer releases a message only when the database has
\* it: every step is one of Custody's.
C == INSTANCE Custody WITH holders <- [e \in Events |-> Holding(e)]
KeepsCustody == C!Spec

\* With fewer failures than the delivery limit absorbs, every event ends up stored with
\* its detection, but for one that found no room in the stream (the bound Msgs).
EventuallyProcessed ==
  <>[](\A e \in Events :
         \/ rows[e] > 0 /\ (e \in Sigma => dets[e] > 0)
         \/ \A m \in Msgs : msg[m].e \notin {None, e})

\* The parts of the inductive invariant of the proofs.
InStream(e) == \E m \in Msgs : msg[m].e = e

ReleasedIsInStream ==
  \A b \in Batches \ held : \A e \in Content[b] : InStream(e)

RequestInv ==
  \A r \in Requests :
    IF req[r].b = None THEN req[r].left = {}
    ELSE /\ req[r].left \subseteq Content[req[r].b]
         /\ ~req[r].failed =>
              \A e \in Content[req[r].b] \ req[r].left : InStream(e)

MessageInv == \A m \in Msgs : msg[m].st = "free" <=> msg[m].e = None

WorkerInv ==
  \A w \in Workers :
    /\ wk[w].pc = "idle" <=> wk[w].m = None
    /\ wk[w].pc # "idle" => EventOf(w) # None
    /\ wk[w].pc \in {"sigma", "baseline"} => rows[EventOf(w)] > 0
    /\ wk[w].pc \in {"baseline", "finish"} /\ ~wk[w].err =>
         /\ rows[EventOf(w)] > 0
         /\ EventOf(w) \in Sigma => dets[EventOf(w)] > 0

IInv ==
  /\ TypeOK /\ ReleasedIsInStream /\ RequestInv /\ MessageInv /\ WorkerInv
  /\ AckedIsProcessed /\ OneRow

\* Says docs/THREAT_MODEL.md:17: messages are acknowledged only after
\* successful processing.  Of the baseline engine's anomalies, when no worker
\* has crashed with its baselines:
AnomalyStored ==
  \A m \in Msgs : msg[m].st = "acked" /\ msg[m].e \in Novel =>
    anomalies[msg[m].e] > 0
=============================================================================
