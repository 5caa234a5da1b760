--------------------------- MODULE PipelineProofs ---------------------------
(***************************************************************************)
(* Proofs about Pipeline: the inductive invariant IInv, the safety         *)
(* properties it implies, and that Pipeline implements Custody.            *)
(***************************************************************************)
EXTENDS Pipeline, TLAPS

\* Bump keeps a table of counts in its type, raises one entry and leaves the
\* others.
LEMMA BumpProperties ==
  ASSUME NEW table \in [Events -> 0..Cap], NEW e \in Events
  PROVE  /\ Bump(table, e) \in [Events -> 0..Cap]
         /\ Bump(table, e)[e] > 0
         /\ \A x \in Events : table[x] > 0 => Bump(table, e)[x] > 0
         /\ table[e] = 0 => Bump(table, e)[e] = 1
         /\ \A x \in Events : x # e => Bump(table, e)[x] = table[x]
  BY NumberAssumption DEF Bump

\* A worker that is not idle has a message, and the message an event.
LEMMA EventOfType ==
  ASSUME TypeOK, MessageInv, WorkerInv, NEW w \in Workers, wk[w].pc # "idle"
  PROVE  /\ wk[w].m \in Msgs
         /\ EventOf(w) \in Events
         /\ msg[wk[w].m].st # "free"
  BY NoneAssumption DEF TypeOK, MessageInv, WorkerInv, EventOf, Worker, Message

\* Updates of one worker, message or handler keep the types.
LEMMA WorkerStep ==
  ASSUME wk \in [Workers -> Worker], NEW w \in Workers, NEW pc \in Steps,
         NEW err \in BOOLEAN
  PROVE  /\ [wk EXCEPT ![w].pc = pc] \in [Workers -> Worker]
         /\ [wk EXCEPT ![w].pc = pc, ![w].err = err] \in [Workers -> Worker]
<1>1. \A r \in Worker : /\ [r EXCEPT !.pc = pc] \in Worker
                        /\ [r EXCEPT !.err = err] \in Worker
  BY DEF Worker
<1>2. QED
  BY <1>1

\* The same for one message of the stream.
LEMMA MsgStep ==
  ASSUME msg \in [Msgs -> Message], NEW m \in Msgs,
         NEW st \in {"free", "ready", "busy", "acked"}, NEW n \in 0..MaxDeliver
  PROVE  /\ [msg EXCEPT ![m].st = st] \in [Msgs -> Message]
         /\ [msg EXCEPT ![m].st = st, ![m].n = n] \in [Msgs -> Message]
<1>1. \A r \in Message : /\ [r EXCEPT !.st = st] \in Message
                         /\ [r EXCEPT !.n = n] \in Message
  BY DEF Message
<1>2. QED
  BY <1>1

\* The same for one ingest handler.
LEMMA ReqStep ==
  ASSUME req \in [Requests -> Request], NEW r \in Requests,
         NEW left \in SUBSET Events, NEW failed \in BOOLEAN
  PROVE  /\ [req EXCEPT ![r].left = left] \in [Requests -> Request]
         /\ [req EXCEPT ![r].left = left, ![r].failed = failed]
              \in [Requests -> Request]
<1>1. \A q \in Request : /\ [q EXCEPT !.left = left] \in Request
                         /\ [q EXCEPT !.failed = failed] \in Request
  BY DEF Request
<1>2. QED
  BY <1>1

\* The initial states satisfy the inductive invariant.
LEMMA InitIInv == Init => IInv
<1> SUFFICES ASSUME Init PROVE IInv
  OBVIOUS
<1>1. TypeOK
  BY NumberAssumption DEF Init, TypeOK, Request, Message, Worker, Steps, NoRequest, Idle
<1>2. ReleasedIsInStream /\ RequestInv /\ MessageInv /\ WorkerInv
  BY NoneAssumption DEF Init, ReleasedIsInStream, RequestInv, MessageInv, WorkerInv, NoRequest, Idle
<1>3. AckedIsProcessed /\ OneRow
  BY DEF Init, AckedIsProcessed, OneRow
<1>4. QED
  BY <1>1, <1>2, <1>3 DEF IInv

\* Every step preserves it, action by action and part by part.
LEMMA NextIInv == IInv /\ [Next]_vars => IInv'
<1> SUFFICES ASSUME IInv, [Next]_vars PROVE IInv'
  OBVIOUS
<1> USE NumberAssumption, NoneAssumption, ContentAssumption, SubsetAssumption
        DEF IInv, TypeOK, Request, Message, Worker, agent, tables, worker,
            MessageInv
<1>1. ASSUME NEW b \in Batches, NEW r \in Requests, Post(b, r)
      PROVE  IInv'
  <2>1. TypeOK'
    BY <1>1 DEF Post, TypeOK, Request, Message, Worker, Steps, NoRequest, Idle
  <2>2. ReleasedIsInStream'
    BY <1>1 DEF Post, ReleasedIsInStream, InStream, NoRequest
  <2>3. RequestInv'
    BY <1>1 DEF Post, RequestInv, InStream, NoRequest
  <2>4. MessageInv'
    BY <1>1 DEF Post, MessageInv
  <2>5. WorkerInv'
    BY <1>1 DEF Post, WorkerInv, EventOf, Idle
  <2>6. AckedIsProcessed'
    BY <1>1 DEF Post, AckedIsProcessed
  <2>7. OneRow'
    BY <1>1 DEF Post, OneRow
  <2>8. QED
    BY <2>1, <2>2, <2>3, <2>4, <2>5, <2>6, <2>7
<1>2. ASSUME NEW r \in Requests, NEW e \in Events, NEW m \in Msgs, Publish(r, e, m)
      PROVE  IInv'
  <2>1. TypeOK'
    <3>1. msg' \in [Msgs -> Message]
      BY <1>2 DEF Publish
    <3>2. req' \in [Requests -> Request]
      BY <1>2, ReqStep DEF Publish
    <3>3. QED
      BY <1>2, <3>1, <3>2 DEF Publish, TypeOK
  <2>2. ReleasedIsInStream'
    BY <1>2 DEF Publish, ReleasedIsInStream, InStream, NoRequest
  <2>3. RequestInv'
    BY <1>2 DEF Publish, RequestInv, InStream, NoRequest
  <2>4. MessageInv'
    BY <1>2 DEF Publish, MessageInv
  <2>5. WorkerInv'
    BY <1>2 DEF Publish, WorkerInv, EventOf, Idle
  <2>6. AckedIsProcessed'
    BY <1>2 DEF Publish, AckedIsProcessed
  <2>7. OneRow'
    BY <1>2 DEF Publish, OneRow
  <2>8. QED
    BY <2>1, <2>2, <2>3, <2>4, <2>5, <2>6, <2>7
<1>3. ASSUME NEW r \in Requests, Reply(r)
      PROVE  IInv'
  <2>1. TypeOK'
    BY <1>3 DEF Reply, TypeOK, Request, Message, Worker, Steps, NoRequest, Idle
  <2>2. ReleasedIsInStream'
    <3>1. \A x : InStream(x)' <=> InStream(x)
      BY <1>3 DEF Reply, InStream
    <3>2. held' # held =>
            /\ held' = held \ {req[r].b}
            /\ \A e \in Content[req[r].b] : InStream(e)
      BY <1>3 DEF Reply, RequestInv
    <3>3. QED
      BY <3>1, <3>2 DEF ReleasedIsInStream
  <2>3. RequestInv'
    BY <1>3 DEF Reply, RequestInv, InStream, NoRequest
  <2>4. MessageInv'
    BY <1>3 DEF Reply, MessageInv
  <2>5. WorkerInv'
    BY <1>3 DEF Reply, WorkerInv, EventOf, Idle
  <2>6. AckedIsProcessed'
    BY <1>3 DEF Reply, AckedIsProcessed
  <2>7. OneRow'
    BY <1>3 DEF Reply, OneRow
  <2>8. QED
    BY <2>1, <2>2, <2>3, <2>4, <2>5, <2>6, <2>7
<1>4. ASSUME NEW r \in Requests, NEW e \in Events, PublishFails(r, e)
      PROVE  IInv'
  <2>1. TypeOK'
    <3>1. msg' \in [Msgs -> Message]
      <4>1. ASSUME NEW m \in Msgs
            PROVE  [msg EXCEPT ![m] = [e |-> e, st |-> "ready", n |-> 0]]
                     \in [Msgs -> Message]
        OBVIOUS
      <4>2. UNCHANGED msg \/ \E m \in Msgs :
              msg' = [msg EXCEPT ![m] = [e |-> e, st |-> "ready", n |-> 0]]
        BY <1>4 DEF PublishFails
      <4>3. QED
        BY <4>1, <4>2
    <3>2. req' \in [Requests -> Request]
      BY <1>4, ReqStep DEF PublishFails
    <3>3. faults' \in 0..Faults
      BY <1>4 DEF PublishFails, Fault
    <3>4. QED
      BY <1>4, <3>1, <3>2, <3>3 DEF PublishFails, Fault, TypeOK
  <2>2. ReleasedIsInStream'
    BY <1>4 DEF PublishFails, Fault, ReleasedIsInStream, InStream, NoRequest
  <2>3. RequestInv'
    <3>1. \A x \in Events : InStream(x) => InStream(x)'
      BY <1>4 DEF PublishFails, InStream
    <3>2. /\ req'[r].b = req[r].b /\ req'[r].failed
          /\ req'[r].left = req[r].left \ {e}
          /\ \A q \in Requests : q # r => req'[q] = req[q]
      BY <1>4 DEF PublishFails
    <3>3. QED
      BY <3>1, <3>2 DEF RequestInv
  <2>4. MessageInv'
    <3>1. CASE UNCHANGED msg
      BY <3>1
    <3>2. ASSUME NEW m \in Msgs,
                 msg' = [msg EXCEPT ![m] = [e |-> e, st |-> "ready", n |-> 0]]
          PROVE  MessageInv'
      BY <3>2
    <3>3. QED
      BY <1>4, <3>1, <3>2 DEF PublishFails
  <2>5. WorkerInv'
    BY <1>4 DEF PublishFails, Fault, WorkerInv, EventOf, Idle
  <2>6. AckedIsProcessed'
    <3>1. CASE UNCHANGED msg
      BY <1>4, <3>1 DEF PublishFails, AckedIsProcessed
    <3>2. ASSUME NEW m \in Msgs,
                 msg' = [msg EXCEPT ![m] = [e |-> e, st |-> "ready", n |-> 0]]
          PROVE  AckedIsProcessed'
      BY <1>4, <3>2 DEF PublishFails, AckedIsProcessed
    <3>3. QED
      BY <1>4, <3>1, <3>2 DEF PublishFails
  <2>7. OneRow'
    BY <1>4 DEF PublishFails, Fault, OneRow
  <2>8. QED
    BY <2>1, <2>2, <2>3, <2>4, <2>5, <2>6, <2>7
<1>5. ASSUME GiveUp
      PROVE  IInv'
  <2>1. TypeOK'
    BY <1>5 DEF GiveUp, Fault, TypeOK, Request, Message, Worker, Steps, NoRequest, Idle
  <2>2. ReleasedIsInStream'
    BY <1>5 DEF GiveUp, Fault, ReleasedIsInStream, InStream, NoRequest
  <2>3. RequestInv'
    BY <1>5 DEF GiveUp, Fault, RequestInv, InStream, NoRequest
  <2>4. MessageInv'
    BY <1>5 DEF GiveUp, Fault, MessageInv
  <2>5. WorkerInv'
    BY <1>5 DEF GiveUp, Fault, WorkerInv, EventOf, Idle
  <2>6. AckedIsProcessed'
    BY <1>5 DEF GiveUp, Fault, AckedIsProcessed
  <2>7. OneRow'
    BY <1>5 DEF GiveUp, Fault, OneRow
  <2>8. QED
    BY <2>1, <2>2, <2>3, <2>4, <2>5, <2>6, <2>7
<1>6. ASSUME NEW r \in Requests, IngestCrash(r)
      PROVE  IInv'
  <2>1. TypeOK'
    BY <1>6 DEF IngestCrash, Fault, TypeOK, Request, Message, Worker, Steps, NoRequest, Idle
  <2>2. ReleasedIsInStream'
    BY <1>6 DEF IngestCrash, Fault, ReleasedIsInStream, InStream, NoRequest
  <2>3. RequestInv'
    BY <1>6 DEF IngestCrash, Fault, RequestInv, InStream, NoRequest
  <2>4. MessageInv'
    BY <1>6 DEF IngestCrash, Fault, MessageInv
  <2>5. WorkerInv'
    BY <1>6 DEF IngestCrash, Fault, WorkerInv, EventOf, Idle
  <2>6. AckedIsProcessed'
    BY <1>6 DEF IngestCrash, Fault, AckedIsProcessed
  <2>7. OneRow'
    BY <1>6 DEF IngestCrash, Fault, OneRow
  <2>8. QED
    BY <2>1, <2>2, <2>3, <2>4, <2>5, <2>6, <2>7
<1>7. ASSUME NEW m \in Msgs, NEW w \in Workers, Deliver(m, w)
      PROVE  IInv'
  <2>1. TypeOK'
    <3>1. msg[m].n + 1 \in 0..MaxDeliver
      BY <1>7 DEF Deliver
    <3>2. msg' \in [Msgs -> Message]
      BY <1>7, <3>1, MsgStep DEF Deliver
    <3>3. wk' \in [Workers -> Worker]
      BY <1>7 DEF Deliver, Steps
    <3>4. QED
      BY <1>7, <3>1, <3>2, <3>3 DEF Deliver, TypeOK
  <2>2. ReleasedIsInStream'
    BY <1>7 DEF Deliver, ReleasedIsInStream, InStream, NoRequest
  <2>3. RequestInv'
    <3>1. \A x : InStream(x)' <=> InStream(x)
      BY <1>7 DEF Deliver, InStream
    <3>2. QED
      BY <1>7, <3>1 DEF Deliver, RequestInv
  <2>4. MessageInv'
    BY <1>7 DEF Deliver, MessageInv
  <2>5. WorkerInv'
    BY <1>7 DEF Deliver, WorkerInv, EventOf, Idle
  <2>6. AckedIsProcessed'
    BY <1>7 DEF Deliver, AckedIsProcessed
  <2>7. OneRow'
    BY <1>7 DEF Deliver, OneRow
  <2>8. QED
    BY <2>1, <2>2, <2>3, <2>4, <2>5, <2>6, <2>7
<1>8. ASSUME NEW m \in Msgs, AckWaitExpires(m)
      PROVE  IInv'
  <2>1. TypeOK'
    BY <1>8 DEF AckWaitExpires, Fault, TypeOK, Request, Message, Worker, Steps, NoRequest, Idle
  <2>2. ReleasedIsInStream'
    BY <1>8 DEF AckWaitExpires, Fault, ReleasedIsInStream, InStream, NoRequest
  <2>3. RequestInv'
    BY <1>8 DEF AckWaitExpires, Fault, RequestInv, InStream, NoRequest
  <2>4. MessageInv'
    BY <1>8 DEF AckWaitExpires, Fault, MessageInv
  <2>5. WorkerInv'
    BY <1>8 DEF AckWaitExpires, Fault, WorkerInv, EventOf, Idle
  <2>6. AckedIsProcessed'
    BY <1>8 DEF AckWaitExpires, Fault, AckedIsProcessed
  <2>7. OneRow'
    BY <1>8 DEF AckWaitExpires, Fault, OneRow
  <2>8. QED
    BY <2>1, <2>2, <2>3, <2>4, <2>5, <2>6, <2>7
<1>9. ASSUME NEW w \in Workers, WorkerCrash(w)
      PROVE  IInv'
  <2>1. TypeOK'
    <3>1. msg' \in [Msgs -> Message]
      BY <1>9 DEF WorkerCrash
    <3>2. wk' \in [Workers -> Worker]
      BY <1>9 DEF WorkerCrash, Idle, Steps
    <3>3. noted' \in [Workers -> SUBSET Novel]
      BY <1>9 DEF WorkerCrash
    <3>4. faults' \in 0..Faults
      BY <1>9 DEF WorkerCrash, Fault
    <3>5. QED
      BY <1>9, <3>1, <3>2, <3>3, <3>4 DEF WorkerCrash, Fault, TypeOK
  <2>2. ReleasedIsInStream'
    BY <1>9 DEF WorkerCrash, Fault, ReleasedIsInStream, InStream, NoRequest
  <2>3. RequestInv'
    BY <1>9 DEF WorkerCrash, Fault, RequestInv, InStream, NoRequest
  <2>4. MessageInv'
    BY <1>9 DEF WorkerCrash, Fault, MessageInv
  <2>5. WorkerInv'
    BY <1>9 DEF WorkerCrash, Fault, WorkerInv, EventOf, Idle
  <2>6. AckedIsProcessed'
    BY <1>9 DEF WorkerCrash, Fault, AckedIsProcessed
  <2>7. OneRow'
    BY <1>9 DEF WorkerCrash, Fault, OneRow
  <2>8. QED
    BY <2>1, <2>2, <2>3, <2>4, <2>5, <2>6, <2>7
<1>10. ASSUME NEW w \in Workers, InsertFails(w)
      PROVE  IInv'
  <2>1. TypeOK'
    <3>1. wk' \in [Workers -> Worker]
      BY <1>10, WorkerStep DEF InsertFails, Steps
    <3>2. faults' \in 0..Faults
      BY <1>10 DEF InsertFails, Fault
    <3>3. QED
      BY <1>10, <3>1, <3>2 DEF InsertFails, Fault, TypeOK
  <2>2. ReleasedIsInStream'
    BY <1>10 DEF InsertFails, Fault, ReleasedIsInStream, InStream, NoRequest
  <2>3. RequestInv'
    BY <1>10 DEF InsertFails, Fault, RequestInv, InStream, NoRequest
  <2>4. MessageInv'
    BY <1>10 DEF InsertFails, Fault, MessageInv
  <2>5. WorkerInv'
    BY <1>10 DEF InsertFails, Fault, WorkerInv, EventOf, Idle
  <2>6. AckedIsProcessed'
    BY <1>10 DEF InsertFails, Fault, AckedIsProcessed
  <2>7. OneRow'
    BY <1>10 DEF InsertFails, Fault, OneRow
  <2>8. QED
    BY <2>1, <2>2, <2>3, <2>4, <2>5, <2>6, <2>7
<1>11. ASSUME NEW w \in Workers, Insert(w)
      PROVE  IInv'
  <2>1. TypeOK'
    <3>1. wk' \in [Workers -> Worker]
      BY <1>11, WorkerStep DEF Insert, Steps
    <3>2. rows' \in [Events -> 0..Cap]
      BY <1>11, EventOfType, BumpProperties DEF Insert
    <3>3. QED
      BY <1>11, <3>1, <3>2 DEF Insert, TypeOK
  <2>2. ReleasedIsInStream'
    BY <1>11 DEF Insert, Bump, ReleasedIsInStream, InStream, NoRequest
  <2>3. RequestInv'
    BY <1>11 DEF Insert, Bump, RequestInv, InStream, NoRequest
  <2>4. MessageInv'
    BY <1>11 DEF Insert, Bump, MessageInv
  <2>5. WorkerInv'
    <3>1. EventOf(w) \in Events
      BY <1>11, EventOfType DEF Insert
    <3>2. rows' = rows \/ rows' = Bump(rows, EventOf(w))
      BY <1>11 DEF Insert
    <3>3. /\ rows'[EventOf(w)] > 0
          /\ \A e \in Events : rows[e] > 0 => rows'[e] > 0
      <4>1. rows \in [Events -> 0..Cap]
        BY DEF TypeOK
      <4>2. /\ Bump(rows, EventOf(w))[EventOf(w)] > 0
            /\ \A e \in Events : rows[e] > 0 => Bump(rows, EventOf(w))[e] > 0
        BY <4>1, <3>1, BumpProperties
      <4>3. \/ rows' = Bump(rows, EventOf(w))
            \/ rows' = rows /\ rows[EventOf(w)] # 0
        BY <1>11 DEF Insert
      <4>4. rows[EventOf(w)] \in 0..Cap
        BY <4>1, <3>1
      <4>5. CASE rows' = Bump(rows, EventOf(w))
        BY <4>2, <4>5
      <4>6. CASE rows' = rows /\ rows[EventOf(w)] # 0
        BY <4>4, <4>6
      <4>7. QED
        BY <4>3, <4>5, <4>6
    <3>4. /\ \A v \in Workers : v # w => wk'[v] = wk[v]
          /\ wk'[w].m = wk[w].m /\ wk'[w].pc = "sigma"
      BY <1>11 DEF Insert
    <3>5. \A v \in Workers : EventOf(v)' = EventOf(v)
      BY <1>11, <3>4 DEF Insert, EventOf
    <3>6. \A v \in Workers : wk[v].pc # "idle" => EventOf(v) \in Events
      BY EventOfType
    <3>7. QED
      BY <1>11, <3>3, <3>4, <3>5, <3>6 DEF Insert, WorkerInv
  <2>6. AckedIsProcessed'
    BY <1>11 DEF Insert, Bump, AckedIsProcessed
  <2>7. OneRow'
    BY <1>11 DEF Insert, Bump, OneRow
  <2>8. QED
    BY <2>1, <2>2, <2>3, <2>4, <2>5, <2>6, <2>7
<1>12. ASSUME NEW w \in Workers, Detect(w)
      PROVE  IInv'
  <2>1. TypeOK'
    <3>1. wk' \in [Workers -> Worker]
      <4>1. /\ [wk EXCEPT ![w].pc = "baseline"] \in [Workers -> Worker]
            /\ [wk EXCEPT ![w].pc = "baseline", ![w].err = TRUE]
                 \in [Workers -> Worker]
        BY WorkerStep DEF Steps
      <4>2. \/ wk' = [wk EXCEPT ![w].pc = "baseline"]
            \/ wk' = [wk EXCEPT ![w].pc = "baseline", ![w].err = TRUE]
        BY <1>12 DEF Detect
      <4>3. QED
        BY <4>1, <4>2
    <3>2. dets' \in [Events -> 0..Cap]
      <4>1. EventOf(w) \in Events
        BY <1>12, EventOfType DEF Detect
      <4>2. Bump(dets, EventOf(w)) \in [Events -> 0..Cap]
        BY <4>1, BumpProperties
      <4>3. dets' = dets \/ dets' = Bump(dets, EventOf(w))
        BY <1>12 DEF Detect
      <4>4. QED
        BY <4>2, <4>3
    <3>3. faults' \in 0..Faults
      BY <1>12 DEF Detect, Fault
    <3>4. QED
      BY <1>12, <3>1, <3>2, <3>3 DEF Detect, TypeOK
  <2>2. ReleasedIsInStream'
    BY <1>12 DEF Detect, Bump, Fault, ReleasedIsInStream, InStream, NoRequest
  <2>3. RequestInv'
    BY <1>12 DEF Detect, Bump, Fault, RequestInv, InStream, NoRequest
  <2>4. MessageInv'
    BY <1>12 DEF Detect, Bump, Fault, MessageInv
  <2>5. WorkerInv'
    <3>1. EventOf(w) \in Events
      BY <1>12, EventOfType DEF Detect
    <3>2. \A e \in Events : rows[e] > 0 => rows'[e] > 0
      BY <1>12 DEF Detect
    <3>3. \A e \in Events : dets[e] > 0 => dets'[e] > 0
      <4>1. dets' = dets \/ dets' = Bump(dets, EventOf(w))
        BY <1>12 DEF Detect
      <4>2. \A e \in Events : dets[e] > 0 => Bump(dets, EventOf(w))[e] > 0
        BY <3>1, BumpProperties
      <4>3. QED
        BY <4>1, <4>2
    <3>4. /\ \A v \in Workers : v # w => wk'[v] = wk[v]
          /\ wk'[w].m = wk[w].m /\ wk'[w].pc = "baseline"
      BY <1>12 DEF Detect
    <3>5. \A v \in Workers : EventOf(v)' = EventOf(v)
      BY <1>12, <3>4 DEF Detect, EventOf
    <3>6. ~wk'[w].err => /\ rows'[EventOf(w)] > 0
                         /\ EventOf(w) \in Sigma => dets'[EventOf(w)] > 0
      <4>1. rows'[EventOf(w)] > 0
        BY <1>12 DEF Detect, WorkerInv
      <4>2. CASE EventOf(w) \notin Sigma
        BY <4>1, <4>2
      <4>3. CASE EventOf(w) \in Sigma /\ dets' = Bump(dets, EventOf(w))
        BY <4>1, <4>3, <3>1, BumpProperties
      <4>4. CASE wk' = [wk EXCEPT ![w].pc = "baseline", ![w].err = TRUE]
        <5>1. wk'[w].err = TRUE
          BY <4>4
        <5>2. QED
          BY <5>1
      <4>5. QED
        BY <1>12, <4>2, <4>3, <4>4 DEF Detect
    <3>7. \A v \in Workers : wk[v].pc # "idle" => EventOf(v) \in Events
      BY EventOfType
    <3>8. QED
      BY <1>12, <3>2, <3>3, <3>4, <3>5, <3>6, <3>7 DEF Detect, WorkerInv
  <2>6. AckedIsProcessed'
    BY <1>12 DEF Detect, Bump, Fault, AckedIsProcessed
  <2>7. OneRow'
    BY <1>12 DEF Detect, Bump, Fault, OneRow
  <2>8. QED
    BY <2>1, <2>2, <2>3, <2>4, <2>5, <2>6, <2>7
<1>13. ASSUME NEW w \in Workers, Baseline(w)
      PROVE  IInv'
  <2>1. TypeOK'
    <3>1. wk' \in [Workers -> Worker]
      <4>1. /\ [wk EXCEPT ![w].pc = "finish"] \in [Workers -> Worker]
            /\ [wk EXCEPT ![w].pc = "finish", ![w].err = TRUE]
                 \in [Workers -> Worker]
        BY WorkerStep DEF Steps
      <4>2. \/ wk' = [wk EXCEPT ![w].pc = "finish"]
            \/ wk' = [wk EXCEPT ![w].pc = "finish", ![w].err = TRUE]
        BY <1>13 DEF Baseline
      <4>3. QED
        BY <4>1, <4>2
    <3>2. noted' \in [Workers -> SUBSET Novel]
      BY <1>13 DEF Baseline
    <3>3. anomalies' \in [Events -> 0..Cap]
      BY <1>13, EventOfType, BumpProperties DEF Baseline
    <3>4. faults' \in 0..Faults
      BY <1>13 DEF Baseline, Fault
    <3>5. QED
      BY <1>13, <3>1, <3>2, <3>3, <3>4 DEF Baseline, TypeOK
  <2>2. ReleasedIsInStream'
    BY <1>13 DEF Baseline, Bump, Fault, ReleasedIsInStream, InStream, NoRequest
  <2>3. RequestInv'
    BY <1>13 DEF Baseline, Bump, Fault, RequestInv, InStream, NoRequest
  <2>4. MessageInv'
    BY <1>13 DEF Baseline, Bump, Fault, MessageInv
  <2>5. WorkerInv'
    <3>1. EventOf(w) \in Events
      BY <1>13, EventOfType DEF Baseline
    <3>2. \A e \in Events : rows[e] > 0 => rows'[e] > 0
      BY <1>13 DEF Baseline
    <3>3. \A e \in Events : dets[e] > 0 => dets'[e] > 0
      BY <1>13, <3>1, BumpProperties DEF Baseline
    <3>4. /\ \A v \in Workers : v # w => wk'[v] = wk[v]
          /\ wk'[w].m = wk[w].m /\ wk'[w].pc = "finish"
      BY <1>13 DEF Baseline
    <3>5. \A v \in Workers : EventOf(v)' = EventOf(v)
      BY <1>13, <3>4 DEF Baseline, EventOf
    <3>6. ~wk'[w].err => /\ rows'[EventOf(w)] > 0
                         /\ EventOf(w) \in Sigma => dets'[EventOf(w)] > 0
      <4>1. CASE wk' = [wk EXCEPT ![w].pc = "finish"]
        <5>1. wk'[w].err = wk[w].err
          BY <4>1
        <5>2. QED
          BY <1>13, <5>1 DEF Baseline, WorkerInv
      <4>2. CASE wk' = [wk EXCEPT ![w].pc = "finish", ![w].err = TRUE]
        <5>1. wk'[w].err = TRUE
          BY <4>2
        <5>2. QED
          BY <5>1
      <4>3. QED
        BY <1>13, <4>1, <4>2 DEF Baseline
    <3>7. \A v \in Workers : wk[v].pc # "idle" => EventOf(v) \in Events
      BY EventOfType
    <3>8. QED
      BY <1>13, <3>2, <3>3, <3>4, <3>5, <3>6, <3>7 DEF Baseline, WorkerInv
  <2>6. AckedIsProcessed'
    BY <1>13 DEF Baseline, Bump, Fault, AckedIsProcessed
  <2>7. OneRow'
    BY <1>13 DEF Baseline, Bump, Fault, OneRow
  <2>8. QED
    BY <2>1, <2>2, <2>3, <2>4, <2>5, <2>6, <2>7
<1>14. ASSUME NEW w \in Workers, Finish(w)
      PROVE  IInv'
  <2>1. TypeOK'
    <3>1. msg' \in [Msgs -> Message]
      <4>1. \A st \in {"free", "ready", "busy", "acked"} :
              [msg EXCEPT ![wk[w].m].st = st] \in [Msgs -> Message]
        <5>1. wk[w].m \in Msgs
          BY <1>14, EventOfType DEF Finish
        <5>2. QED
          BY <5>1, MsgStep
      <4>2. \E st \in {"free", "ready", "busy", "acked"} :
              msg' = [msg EXCEPT ![wk[w].m].st = st]
        <5>1. msg[wk[w].m].st \in {"free", "ready", "busy", "acked"}
          BY <1>14, EventOfType DEF Finish
        <5>2. CASE ~wk[w].err
          BY <1>14, <5>2 DEF Finish
        <5>3. CASE wk[w].err /\ msg[wk[w].m].st = "busy"
          BY <1>14, <5>3 DEF Finish
        <5>4. CASE wk[w].err /\ msg[wk[w].m].st # "busy"
          BY <1>14, <5>1, <5>4 DEF Finish
        <5>5. QED
          BY <5>2, <5>3, <5>4
      <4>3. QED
        BY <4>1, <4>2
    <3>2. wk' \in [Workers -> Worker]
      BY <1>14 DEF Finish, Idle, Steps
    <3>3. QED
      BY <1>14, <3>1, <3>2 DEF Finish, TypeOK
  <2>2. ReleasedIsInStream'
    BY <1>14 DEF Finish, ReleasedIsInStream, InStream, NoRequest
  <2>3. RequestInv'
    BY <1>14 DEF Finish, RequestInv, InStream, NoRequest
  <2>4. MessageInv'
    <3>1. wk[w].m \in Msgs /\ msg[wk[w].m].st # "free"
      BY <1>14, EventOfType DEF Finish
    <3>2. \A m \in Msgs : msg'[m].e = msg[m].e
      BY <1>14, <3>1 DEF Finish
    <3>3. \A m \in Msgs : m # wk[w].m => msg'[m] = msg[m]
      BY <1>14, <3>1 DEF Finish
    <3>4. msg'[wk[w].m].st # "free"
      <4>1. msg'[wk[w].m].st = IF ~wk[w].err THEN "acked"
              ELSE IF msg[wk[w].m].st = "busy" THEN "ready" ELSE msg[wk[w].m].st
        BY <1>14, <3>1 DEF Finish
      <4>2. QED
        BY <4>1, <3>1
    <3>5. QED
      BY <3>1, <3>2, <3>3, <3>4
  <2>5. WorkerInv'
    BY <1>14 DEF Finish, WorkerInv, EventOf, Idle
  <2>6. AckedIsProcessed'
    <3>1. /\ \A m \in Msgs : msg'[m].e = msg[m].e
          /\ \A m \in Msgs : m # wk[w].m => msg'[m] = msg[m]
          /\ wk[w].err => (msg'[wk[w].m].st = "acked" => msg[wk[w].m].st = "acked")
      BY <1>14, EventOfType DEF Finish
    <3>2. ~wk[w].err => /\ rows[EventOf(w)] > 0
                        /\ EventOf(w) \in Sigma => dets[EventOf(w)] > 0
      BY <1>14 DEF Finish, WorkerInv
    <3>3. QED
      BY <1>14, <3>1, <3>2 DEF Finish, AckedIsProcessed, EventOf
  <2>7. OneRow'
    BY <1>14 DEF Finish, OneRow
  <2>8. QED
    BY <2>1, <2>2, <2>3, <2>4, <2>5, <2>6, <2>7
<1>15. CASE UNCHANGED vars
  BY <1>15 DEF vars, ReleasedIsInStream, RequestInv, WorkerInv, AckedIsProcessed, OneRow, InStream, EventOf
<1>16. QED
  BY <1>1, <1>2, <1>3, <1>4, <1>5, <1>6, <1>7, <1>8, <1>9, <1>10, <1>11, <1>12, <1>13, <1>14, <1>15
  DEF Next, Serve, Work

\* The inductive invariant holds in every reachable state.
THEOREM Invariance == Spec => []IInv
BY InitIInv, NextIInv, PTL DEF Spec

\* Types, for any events, handlers, messages, workers and limits.
THEOREM TypeCorrect == Spec => []TypeOK
<1>1. IInv => TypeOK
  BY DEF IInv
<1>2. QED
  BY <1>1, Invariance, PTL

\* Acknowledged only after the row, and the detection of a stateless engine,
\* are stored: nats.go's Ack after handler success, with any number of workers,
\* crashes, expiries and redeliveries.
THEOREM AckedIsProcessedHolds == Spec => []AckedIsProcessed
<1>1. IInv => AckedIsProcessed
  BY DEF IInv
<1>2. QED
  BY <1>1, Invariance, PTL

\* One row per event, however often it is uploaded and delivered:
\* InsertEvents' ON CONFLICT DO NOTHING.
THEOREM OneRowHolds == Spec => []OneRow
<1>1. IInv => OneRow
  BY DEF IInv
<1>2. QED
  BY <1>1, Invariance, PTL

-----------------------------------------------------------------------------
(* Pipeline implements Custody. *)

\* The abstract variable of Custody.
Held == [e \in Events |-> Holding(e)]

\* What each holder's custody of an event means.
LEMMA HoldingDef ==
  ASSUME NEW e
  PROVE  /\ "agent" \in Holding(e) <=> \E b \in held : e \in Content[b]
         /\ "bus" \in Holding(e) <=>
              \E m \in Msgs : msg[m].e = e /\ msg[m].st # "acked"
         /\ "db" \in Holding(e) <=> rows[e] > 0
         /\ Holding(e) \subseteq {"agent", "bus", "db"}
  BY DEF Holding

\* Two states that agree on batches held, unacknowledged messages and rows
\* have the same holders.
LEMMA HoldingSame ==
  ASSUME held' = held, rows' = rows,
         \A m \in Msgs : /\ msg'[m].e = msg[m].e
                         /\ msg'[m].st = "acked" <=> msg[m].st = "acked"
  PROVE  Held' = Held
  BY DEF Held, Holding

\* Initially the agent, and nobody else, holds every event.
LEMMA InitCustody == Init => C!Init
<1> SUFFICES ASSUME Init PROVE \A e \in Events : Holding(e) = {"agent"}
  BY DEF C!Init
<1> TAKE e \in Events
<1>1. \E b \in held : e \in Content[b]
  BY ContentAssumption DEF Init
<1>2. ~ \E m \in Msgs : msg[m].e = e
  BY NoneAssumption DEF Init
<1>3. ~ (rows[e] > 0)
  BY DEF Init
<1>4. QED
  BY <1>1, <1>2, <1>3 DEF Holding
\* By the invariant, somebody holds every event.
LEMMA EverHeld == IInv => \A e \in Events : Holding(e) # {}
<1> SUFFICES ASSUME IInv, NEW e \in Events PROVE Holding(e) # {}
  OBVIOUS
<1>1. PICK b \in Batches : e \in Content[b]
  BY ContentAssumption
<1>2. CASE b \in held
  BY <1>1, <1>2, HoldingDef
<1>3. CASE b \notin held
  <2>1. PICK m \in Msgs : msg[m].e = e
    BY <1>1, <1>3 DEF IInv, ReleasedIsInStream, InStream
  <2>2. msg[m].st = "acked" => rows[e] > 0
    BY <2>1 DEF IInv, AckedIsProcessed
  <2>3. QED
    BY <2>1, <2>2, HoldingDef
<1>4. QED
  BY <1>2, <1>3

\* A step in which at most e gains the holder x and nothing else changes.
LEMMA HandStep ==
  ASSUME NEW e \in Events, NEW x \in {"agent", "bus", "db"}, Holding(e) # {},
         Holding(e)' = Holding(e) \cup {x},
         \A f \in Events : f # e => Holding(f)' = Holding(f)
  PROVE  C!Next
<1>1. C!Hand(e, x)
  BY DEF C!Hand
<1>2. QED
  BY <1>1 DEF C!Next, C!Holders

\* A step in which x lets go of events held further down.
LEMMA LetGoStep ==
  ASSUME NEW x \in {"agent", "bus", "db"}, NEW E \in SUBSET Events,
         \A e \in E : /\ Holding(e)' = Holding(e) \ {x}
                      /\ Holding(e) \cap C!After(x) # {},
         \A e \in Events \ E : Holding(e)' = Holding(e)
  PROVE  C!Next
<1>1. C!LetGo(E, x)
  BY DEF C!LetGo
<1>2. QED
  BY <1>1 DEF C!Next, C!Holders

\* The agent releases the batch of a successful reply.
LEMMA ReplyLetsGo ==
  ASSUME IInv, NEW r \in Requests, Reply(r)
  PROVE  C!Next \/ Held' = Held
<1>1. CASE held' = held
  BY <1>1, HoldingSame DEF Reply, tables
<1>2. CASE held' # held
  <2> DEFINE E == {e \in Events : "agent" \in Holding(e)
                                    /\ "agent" \notin Holding(e)'}
  <2>1. UNCHANGED <<msg, rows>> /\ held' \subseteq held
    BY DEF Reply, tables
  <2>2. \A e \in Events \ E : Holding(e)' = Holding(e)
    BY <2>1 DEF Holding
  <2>3. \A e \in E : Holding(e)' = Holding(e) \ {"agent"}
    BY <2>1 DEF Holding
  <2>4. ASSUME NEW e \in E
        PROVE  Holding(e) \cap C!After("agent") # {}
    <3>1. held' = held \ {req[r].b} /\ ~req[r].failed /\ req[r].left = {}
          /\ req[r].b # None
      BY <1>2 DEF Reply
    <3>2. \A b \in held : e \in Content[b] => b = req[r].b
      BY <3>1, HoldingDef DEF Holding
    <3>3. e \in Content[req[r].b]
      BY <3>2, HoldingDef
    <3>4. PICK m \in Msgs : msg[m].e = e
      BY <3>1, <3>3 DEF IInv, RequestInv, InStream
    <3>5. msg[m].st = "acked" => rows[e] > 0
      BY <3>4 DEF IInv, AckedIsProcessed
    <3>6. "bus" \in Holding(e) \/ "db" \in Holding(e)
      BY <3>4, <3>5, HoldingDef
    <3>7. QED
      BY <3>6 DEF C!After
  <2>5. QED
    BY <2>2, <2>3, <2>4, LetGoStep
<1>3. QED
  BY <1>1, <1>2

\* The bus lets go of the event of an acknowledged message.
LEMMA FinishLetsGo ==
  ASSUME IInv, IInv', NEW w \in Workers, Finish(w)
  PROVE  C!Next
<1> DEFINE m == wk[w].m
           E == {e \in Events : "bus" \in Holding(e) /\ "bus" \notin Holding(e)'}
<1>1. /\ UNCHANGED <<held, rows>> /\ m \in Msgs
      /\ \A n \in Msgs : msg'[n].e = msg[n].e
      /\ \A n \in Msgs : n # m => msg'[n] = msg[n]
  BY EventOfType DEF Finish, agent, tables, IInv, TypeOK
<1>2. msg[m].st = "acked" => msg'[m].st = "acked"
  BY <1>1 DEF Finish, IInv, TypeOK
<1>3. \A e \in Events : "bus" \in Holding(e)' => "bus" \in Holding(e)
  BY <1>1, <1>2 DEF Holding
<1>4. \A e \in Events \ E : Holding(e)' = Holding(e)
  BY <1>1, <1>3 DEF Holding
<1>5. \A e \in E : Holding(e)' = Holding(e) \ {"bus"}
  BY <1>1, <1>3 DEF Holding
<1>6. ASSUME NEW e \in E
      PROVE  Holding(e) \cap C!After("bus") # {}
  <2>1. PICK n \in Msgs : msg[n].e = e /\ msg[n].st # "acked"
    BY HoldingDef
  <2>2. msg'[n].e = e /\ msg'[n].st = "acked"
    BY <1>1, <2>1 DEF Holding
  <2>3. rows'[e] > 0
    BY <2>2 DEF IInv, AckedIsProcessed
  <2>4. "db" \in Holding(e)
    BY <1>1, <2>3, HoldingDef
  <2>5. QED
    BY <2>4 DEF C!After
<1>7. QED
  BY <1>4, <1>5, <1>6, LetGoStep

\* A message is published: the bus has its event.
LEMMA PublishHands ==
  ASSUME IInv, NEW e \in Events, NEW m \in Msgs, msg[m].st = "free",
         msg' = [msg EXCEPT ![m] = [e |-> e, st |-> "ready", n |-> 0]],
         UNCHANGED <<held, rows>>
  PROVE  C!Next
<1>1. msg[m].e = None
  BY DEF IInv, MessageInv
<1>2. msg'[m].e = e /\ msg'[m].st = "ready"
  BY DEF IInv, TypeOK
<1>3. \A n \in Msgs : n # m => msg'[n] = msg[n]
  BY DEF IInv, TypeOK
<1>4. Holding(e)' = Holding(e) \cup {"bus"}
  BY <1>1, <1>2, <1>3, NoneAssumption DEF Holding
<1>5. \A f \in Events : f # e => Holding(f)' = Holding(f)
  BY <1>1, <1>2, <1>3, NoneAssumption DEF Holding
<1>6. QED
  BY <1>4, <1>5, EverHeld, HandStep

\* A row is inserted: the database has the event.
LEMMA InsertHands ==
  ASSUME IInv, NEW w \in Workers, Insert(w)
  PROVE  C!Next \/ Held' = Held
<1>. PICK e \in Events : e = EventOf(w)
  BY EventOfType DEF Insert, IInv
<1>1. UNCHANGED <<held, msg>>
  BY DEF Insert, agent
<1>2. CASE rows' = rows
  BY <1>1, <1>2, HoldingSame
<1>3. CASE rows' # rows
  <2>1. rows' = Bump(rows, e)
    BY <1>3 DEF Insert
  <2>2. rows'[e] > 0 /\ \A f \in Events : f # e => rows'[f] = rows[f]
    BY <1>1, <2>1, BumpProperties DEF IInv, TypeOK
  <2>3. Holding(e)' = Holding(e) \cup {"db"}
    BY <1>1, <2>2 DEF Holding
  <2>4. \A f \in Events : f # e => Holding(f)' = Holding(f)
    BY <1>1, <2>2 DEF Holding
  <2>5. QED
    BY <1>1, <2>3, <2>4, EverHeld, HandStep
<1>4. QED
  BY <1>2, <1>3

\* Every step of Pipeline is a step of Custody or leaves the holders alone.
LEMMA NextCustody == IInv /\ IInv' /\ [Next]_vars => [C!Next]_Held
<1> SUFFICES ASSUME IInv, IInv', [Next]_vars PROVE C!Next \/ Held' = Held
  BY DEF Held
<1>1. ASSUME NEW b \in Batches, NEW r \in Requests, Post(b, r)
      PROVE  Held' = Held
  BY <1>1, HoldingSame DEF Post, tables
<1>2. ASSUME NEW r \in Requests, NEW e \in Events, NEW m \in Msgs,
             Publish(r, e, m)
      PROVE  C!Next
  BY <1>2, PublishHands DEF Publish, agent, tables
<1>3. ASSUME NEW r \in Requests, NEW e \in Events, PublishFails(r, e)
      PROVE  C!Next \/ Held' = Held
  <2>1. CASE UNCHANGED msg
    BY <1>3, <2>1, HoldingSame DEF PublishFails, agent, tables
  <2>2. CASE \E m \in Msgs :
               /\ msg[m].st = "free"
               /\ msg' = [msg EXCEPT ![m] = [e |-> e, st |-> "ready", n |-> 0]]
    BY <1>3, <2>2, PublishHands DEF PublishFails, agent, tables
  <2>3. QED
    BY <1>3, <2>1, <2>2 DEF PublishFails
<1>4. ASSUME GiveUp \/ \E r \in Requests : IngestCrash(r)
      PROVE  Held' = Held
  BY <1>4, HoldingSame DEF GiveUp, IngestCrash, tables
<1>5. ASSUME NEW m \in Msgs, NEW w \in Workers, Deliver(m, w)
      PROVE  Held' = Held
  <2>1. \A n \in Msgs : /\ msg'[n].e = msg[n].e
                        /\ msg'[n].st = "acked" <=> msg[n].st = "acked"
    <3>1. /\ msg'[m].e = msg[m].e /\ msg'[m].st = "busy" /\ msg[m].st = "ready"
          /\ \A n \in Msgs : n # m => msg'[n] = msg[n]
      BY <1>5 DEF Deliver, IInv, TypeOK
    <3>2. QED
      BY <3>1
  <2>2. QED
    BY <1>5, <2>1, HoldingSame DEF Deliver, agent, tables
<1>6. ASSUME NEW m \in Msgs, AckWaitExpires(m)
      PROVE  Held' = Held
  <2>1. \A n \in Msgs : /\ msg'[n].e = msg[n].e
                        /\ msg'[n].st = "acked" <=> msg[n].st = "acked"
    <3>1. /\ msg'[m].e = msg[m].e /\ msg'[m].st = "ready" /\ msg[m].st = "busy"
          /\ \A n \in Msgs : n # m => msg'[n] = msg[n]
      BY <1>6 DEF AckWaitExpires, IInv, TypeOK
    <3>2. QED
      BY <3>1
  <2>2. QED
    BY <1>6, <2>1, HoldingSame DEF AckWaitExpires, agent, tables
<1>7. ASSUME NEW w \in Workers, WorkerCrash(w)
      PROVE  Held' = Held
  <2>1. ASSUME NEW n \in Msgs
        PROVE  /\ msg'[n].e = msg[n].e
               /\ msg'[n].st = "acked" <=> msg[n].st = "acked"
    <3>1. CASE n = wk[w].m /\ msg[n].st = "busy"
      <4>1. msg'[n] = [msg[n] EXCEPT !.st = "ready"]
        BY <1>7, <3>1 DEF WorkerCrash
      <4>2. msg'[n].e = msg[n].e /\ msg'[n].st = "ready"
        BY <4>1 DEF IInv, TypeOK, Message
      <4>3. QED
        BY <3>1, <4>2
    <3>2. CASE ~(n = wk[w].m /\ msg[n].st = "busy")
      <4>1. msg'[n] = msg[n]
        BY <1>7, <3>2 DEF WorkerCrash
      <4>2. QED
        BY <4>1
    <3>3. QED
      BY <3>1, <3>2
  <2>2. QED
    BY <1>7, <2>1, HoldingSame DEF WorkerCrash, agent, tables
<1>8. ASSUME NEW w \in Workers, InsertFails(w) \/ Detect(w) \/ Baseline(w)
      PROVE  Held' = Held
  BY <1>8, HoldingSame DEF InsertFails, Detect, Baseline, agent, tables
<1>9. CASE UNCHANGED vars
  BY <1>9, HoldingSame DEF vars
<1>10. QED
  BY <1>1, <1>2, <1>3, <1>4, <1>5, <1>6, <1>7, <1>8, <1>9, ReplyLetsGo,
     FinishLetsGo, InsertHands
  DEF Next, Serve, Work

\* The telemetry path implements Custody: no step of the agent, of the ingest
\* handler or of the consumer lets go of an event that nobody downstream has.
THEOREM Implements == Spec => KeepsCustody
<1>1. Init => C!Init
  BY InitCustody
<1>2. QED
  BY <1>1, Invariance, NextCustody, PTL
  DEF Spec, KeepsCustody, C!Spec, Held

\* No event is ever in nobody's hands: between the agent's deletion of a spooled
\* batch (client.rs's send loop), the stream's acknowledgement (nats.go) and the
\* insert (pipeline.go's process) there is no gap an event falls through.
THEOREM NeverLost == Spec => []C!AlwaysHeld
<1>1. IInv => C!AlwaysHeld
  <2> SUFFICES ASSUME IInv, NEW e \in Events
               PROVE  [x \in Events |-> Holding(x)][e] # {}
    BY DEF C!AlwaysHeld
  <2>1. QED
    BY EverHeld
<1>2. QED
  BY <1>1, Invariance, PTL
=============================================================================
