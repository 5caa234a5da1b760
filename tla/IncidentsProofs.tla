--------------------------- MODULE IncidentsProofs ---------------------------
(***************************************************************************)
(* Theorems about Incidents, for any detections, consumers, analysts and   *)
(* editors: the gate and the database, the throttle, and the cases.        *)
(***************************************************************************)
EXTENDS Incidents, TLAPS

\* The initial states satisfy the invariant.
LEMMA InitIInv == Init => IInv
<1> SUFFICES ASSUME Init PROVE IInv
  OBVIOUS
<1> USE DataAssumption, BoundsAssumption, NoneAssumption
<1>1. Rest \in Jobs /\ Rest.at = "rest" /\ Rest.det = None /\ Rest.now = 0
  BY DEF Rest, Job, Jobs, Time
<1>2. \A w \in Workers : work[w] = Rest
  BY DEF Init
<1>3. excused \in [Agents -> BOOLEAN]
  BY Zenon DEF Init
<1>4. TypeOK
  BY <1>1, <1>3 DEF Init, TypeOK, Time, Never, Ids
<1>5. Shape
  BY <1>1, <1>2 DEF Init, Shape
<1>6. Locked
  BY <1>1, <1>2 DEF Init, Locked
<1>7. CacheFollows
  BY DEF Init, CacheFollows, Edits, Edited
<1>8. Spaced
  BY DEF Init, Spaced
<1>9. Current
  BY <1>1, <1>2 DEF Init, Current
<1>10. Once
  BY <1>1, <1>2 DEF Init, Once, Apart
<1>11. Lines
  BY <1>1, <1>2 DEF Init, Lines
<1>12. QED
  BY <1>4, <1>5, <1>6, <1>7, <1>8, <1>9, <1>10, <1>11 DEF IInv
-----------------------------------------------------------------------------
(* Types *)

\* What a job, an open case, a folded case and an edited case are.
LEMMA JobType ==
  ASSUME NEW at \in {"rest", "raise", "add", "put"}, NEW d \in Detections \cup {None},
         NEW now \in Time, NEW id \in Ids \cup {0}, NEW c \in Case \cup {None},
         NEW stale \in BOOLEAN
  PROVE  Job(at, d, now, id, c, stale) \in Jobs
BY DEF Job, Jobs

LEMMA RestType == Rest \in Jobs /\ Rest.at = "rest" /\ Rest.det = None /\ Rest.now = 0
BY BoundsAssumption DEF Rest, Job, Jobs, Time

LEMMA NewCaseType ==
  ASSUME NEW d \in Detections, NEW now \in Time
  PROVE  NewCase(d, now) \in Case
BY DataAssumption DEF NewCase, Case

LEMMA FoldedType ==
  ASSUME NEW c \in Case, NEW d \in Detections, NEW now \in Time
  PROVE  /\ Folded(c, d, now) \in Case
         /\ Folded(c, d, now).agent = c.agent /\ Folded(c, d, now).status = c.status
         /\ Folded(c, d, now).dets = c.dets \cup {d}
BY DEF Folded, Case

LEMMA ApplyType ==
  ASSUME TypeOK, NEW c \in Case, NEW op \in Op
  PROVE  /\ Apply(c, op) \in Case
         /\ Apply(c, op).agent = c.agent /\ Apply(c, op).dets = c.dets
         /\ Apply(c, op).updated = clock
<1> DEFINE st == IF op.status = "same" THEN c.status ELSE op.status
           nt == IF op.note = 0 THEN c.notes ELSE c.notes \cup {op.note}
<1>1. st \in {"open", "investigating", "closed"} /\ nt \in SUBSET (1..MaxEdits)
  BY BoundsAssumption DEF Case, Op
<1>2. clock \in Time
  BY DEF TypeOK
<1>3. Apply(c, op) = [c EXCEPT !.status = st, !.notes = nt, !.updated = clock]
  BY DEF Apply
<1> HIDE DEF st, nt
<1>4. QED
  BY <1>1, <1>2, <1>3 DEF Case

\* A job has the fields of one.
LEMMA WorkType ==
  ASSUME TypeOK, NEW w \in Workers
  PROVE  /\ work[w] \in Jobs /\ work[w].det \in Detections \cup {None}
         /\ work[w].now \in Time /\ work[w].id \in Ids \cup {0}
         /\ work[w].case \in Case \cup {None} /\ work[w].stale \in BOOLEAN
         /\ work[w].at \in {"rest", "raise", "add", "put"}
BY DEF TypeOK, Jobs

LEMMA HandType ==
  ASSUME TypeOK, NEW h \in Analysts, hand[h] # None
  PROVE  /\ hand[h] \in Copy /\ hand[h].id \in Ids /\ hand[h].op \in Op
         /\ hand[h].case \in Case /\ hand[h].stale \in BOOLEAN
BY DEF TypeOK, Copy

LEMMA CaseType ==
  ASSUME TypeOK, NEW i \in Ids, cases[i] # None
  PROVE  /\ cases[i] \in Case /\ cases[i].agent \in Agents
         /\ cases[i].status \in {"open", "investigating", "closed"}
         /\ cases[i].dets \subseteq Detections /\ cases[i].updated \in Time
BY DEF TypeOK, Case

LEMMA RefType ==
  ASSUME TypeOK, NEW a \in Agents
  PROVE  /\ active[a] # None => active[a].id \in Ids /\ active[a].last \in Time
         /\ line[a] # None => line[a].id \in Ids /\ line[a].last \in Time
BY DEF TypeOK, Ref

\* What is being written, and which case it is.
LEMMA PutType ==
  ASSUME TypeOK, Shape, NEW w \in Workers, work[w].at = "put"
  PROVE  /\ work[w].id \in Ids /\ work[w].det \in Detections /\ work[w].case \in Case
         /\ Agent[work[w].det] \in Agents
BY WorkType, DataAssumption DEF Shape, TypeOK, Ids
\* The throttle keeps its types, and forgets only what is over a throttle old.
LEMMA GcType ==
  ASSUME TypeOK, NEW a \in Agents
  PROVE  /\ SentAfterGc \in [Agents -> Time \cup {Never}]
         /\ SentAfterGc[a] \in {sent[a], Never}
         /\ sent[a] # Never /\ SentAfterGc[a] = Never => clock - sent[a] > Throttle
BY DEF TypeOK, SentAfterGc

LEMMA NotifyType ==
  ASSUME TypeOK, NEW d \in Detections, Notify(d)
  PROVE  /\ sent' \in [Agents -> Time \cup {Never}] /\ lastGC' \in Time
         /\ alerts' \in [Agents -> Seq(Time)]
<1>1. Agent[d] \in Agents /\ clock \in Time /\ lastGC \in Time
  BY DataAssumption DEF TypeOK
<1>2. SentAfterGc \in [Agents -> Time \cup {Never}]
  BY <1>1, GcType
<1>3. Append(alerts[Agent[d]], clock) \in Seq(Time)
  BY <1>1 DEF TypeOK
<1>4. alerts' \in [Agents -> Seq(Time)]
  BY <1>1, <1>3 DEF Notify, TypeOK
<1>5. QED
  BY <1>1, <1>2, <1>4 DEF Notify

\* Every step keeps the types.
LEMMA NextTypeOK == ASSUME IInv, [Next]_vars PROVE TypeOK'
<1> USE DEF IInv
<1>0. TypeOK /\ Shape /\ clock \in Time
  BY DEF TypeOK
<1>1. ASSUME NEW w \in Workers, NEW d \in Detections, Gate(w, d) PROVE TypeOK'
  <2>1. Job("raise", d, 0, 0, None, FALSE) \in Jobs
    BY BoundsAssumption DEF Job, Jobs, Time
  <2>2. work' \in [Workers -> Jobs]
    BY <1>1, <2>1 DEF Gate, TypeOK
  <2>3. QED
    BY <1>1, <2>2 DEF Gate, TypeOK, tuning, alert, index, table
<1>2. ASSUME NEW w \in Workers, Raise(w) PROVE TypeOK'
  <2>1. [work[w] EXCEPT !.at = "add", !.now = clock] \in Jobs
    BY <1>0, WorkType DEF Jobs
  <2>2. work' \in [Workers -> Jobs]
    BY <1>2, <2>1, RestType DEF Raise, TypeOK
  <2>3. work[w].det \in Detections
    BY <1>2 DEF Raise, Shape
  <2>4. /\ sent' \in [Agents -> Time \cup {Never}] /\ lastGC' \in Time
        /\ alerts' \in [Agents -> Seq(Time)]
    BY <1>2, <2>3, NotifyType DEF Raise, alert, TypeOK
  <2>5. faults' \in 0..MaxFaults
    BY <1>2, BoundsAssumption DEF Raise, NoFault, Fault, TypeOK
  <2>6. QED
    BY <1>2, <2>2, <2>4, <2>5 DEF Raise, TypeOK, tuning, index, table
<1>3. ASSUME NEW w \in Workers, Add(w) PROVE TypeOK'
  <2>1. work[w].det \in Detections /\ work[w].now \in Time
    BY <1>3, WorkType DEF Add, Shape
  <2>2. work' \in [Workers -> Jobs] /\ made' \in 0..MaxCases
    <3>1. CASE Taken(w) /\ UNCHANGED made
      <4> DEFINE id == active[Agent[work[w].det]].id
      <4>1. Agent[work[w].det] \in Agents
        BY <2>1, DataAssumption
      <4>2. id \in Ids /\ cases[id] # None
        BY <3>1, <4>1, RefType DEF Taken, Joins, Shape
      <4>3. Folded(cases[id], work[w].det, work[w].now) \in Case
        BY <2>1, <4>2, CaseType, FoldedType
      <4>4. Job("put", work[w].det, work[w].now, id,
                Folded(cases[id], work[w].det, work[w].now), FALSE) \in Jobs
        BY <2>1, <4>2, <4>3, JobType
      <4>5. work' \in [Workers -> Jobs]
        BY <3>1, <4>4 DEF Taken, TypeOK
      <4>6. made' = made
        BY <3>1
      <4>7. QED
        BY <4>5, <4>6 DEF TypeOK
    <3>2. CASE Opened(w)
      <4>1. made' \in Ids /\ made' \in 0..MaxCases
        BY <3>2, BoundsAssumption DEF Opened, TypeOK, Ids
      <4>2. Job("put", work[w].det, work[w].now, made', NewCase(work[w].det, work[w].now), FALSE)
              \in Jobs
        BY <2>1, <4>1, JobType, NewCaseType
      <4>3. QED
        BY <3>2, <4>1, <4>2 DEF Opened, TypeOK
    <3>3. QED
      BY <1>3, <3>1, <3>2 DEF Add
  <2>3. holder' \in Workers \cup {None} /\ faults' \in 0..MaxFaults
    BY <1>3, BoundsAssumption DEF Add, NoFault, Fault, TypeOK
  <2>4. QED
    BY <1>3, <2>2, <2>3 DEF Add, TypeOK, tuning, alert, index
<1>4. ASSUME NEW w \in Workers, Put(w) PROVE TypeOK'
  <2>1. /\ work[w].id \in Ids /\ work[w].det \in Detections /\ work[w].case \in Case
        /\ Agent[work[w].det] \in Agents /\ work[w].now \in Time
    BY <1>4, PutType, WorkType DEF Put
  <2>2. work' \in [Workers -> Jobs] /\ holder' \in Workers \cup {None}
    BY <1>4, RestType DEF Put, TypeOK
  <2>3. CASE Fault /\ UNCHANGED <<cases, ideal, blurred, hand, index>>
    <3>1. faults' \in 0..MaxFaults
      BY <2>3, BoundsAssumption DEF Fault, TypeOK
    <3>2. QED
      BY <1>4, <2>2, <2>3, <3>1 DEF Put, TypeOK, tuning, alert, index
  <2>4. CASE Written(w) /\ NoFault
    <3>1. cases' \in [Ids -> Case \cup {None}]
      BY <2>1, <2>4 DEF Written, TypeOK
    <3>2. ideal' \in [Ids -> Case \cup {None}]
      <4> DEFINE c == IF ideal[work[w].id] = None THEN NewCase(work[w].det, work[w].now)
                      ELSE Folded(ideal[work[w].id], work[w].det, work[w].now)
      <4>1. c \in Case
        BY <2>1, NewCaseType, FoldedType DEF TypeOK
      <4>2. ideal' = [ideal EXCEPT ![work[w].id] = c]
        BY <2>4 DEF Written
      <4> HIDE DEF c
      <4>3. QED
        BY <2>1, <4>1, <4>2 DEF TypeOK
    <3>3. blurred' \subseteq Ids
      BY <2>1, <2>4 DEF Written, TypeOK
    <3>4. hand' \in [Analysts -> Copy \cup {None}]
      <4>1. ASSUME NEW h \in Analysts, hand[h] # None
            PROVE  [hand[h] EXCEPT !.stale = TRUE] \in Copy
        BY <4>1, HandType DEF Copy
      <4>2. QED
        BY <2>4, <4>1 DEF Written, Outdate, TypeOK
    <3>5. /\ active' \in [Agents -> Ref \cup {None}] /\ line' \in [Agents -> Ref \cup {None}]
      <4>1. [id |-> work[w].id, last |-> work[w].now] \in Ref
        BY <2>1 DEF Ref
      <4>2. QED
        BY <2>1, <2>4, <4>1 DEF Written, TypeOK
    <3>6. excused' \in [Agents -> BOOLEAN]
      BY <2>4, Zenon DEF Written, TypeOK
    <3>7. faults' = faults
      BY <2>4 DEF NoFault
    <3>8. QED
      BY <1>4, <2>2, <3>1, <3>2, <3>3, <3>4, <3>5, <3>6, <3>7
         DEF Put, TypeOK, tuning, alert
  <2>5. QED
    BY <1>4, <2>3, <2>4 DEF Put
<1>5. ASSUME NEW e \in Editors, NEW i \in Items, NEW on \in BOOLEAN, SetStore(e, i, on)
      PROVE  TypeOK'
  <2>1. [item |-> i, on |-> on] \in Change
    BY DEF Change
  <2>2. edit' \in [Editors -> Change \cup {None}]
    BY <1>5, <2>1 DEF SetStore, TypeOK
  <2>3. quiet' \subseteq Items /\ mixed' \subseteq Items /\ edits' \in 0..MaxEdits
    BY <1>5, BoundsAssumption DEF SetStore, With, Edit, TypeOK
  <2>4. QED
    BY <1>5, <2>2, <2>3 DEF SetStore, TypeOK, alert, index, table
<1>6. ASSUME NEW e \in Editors, SetCache(e) PROVE TypeOK'
  <2>1. edit[e].item \in Items
    BY <1>6 DEF SetCache, TypeOK, Change
  <2>2. edit' \in [Editors -> Change \cup {None}] /\ cache' \subseteq Items
    BY <1>6, <2>1 DEF SetCache, With, TypeOK
  <2>3. QED
    BY <1>6, <2>2 DEF SetCache, TypeOK, alert, index, table
<1>7. ASSUME NEW h \in Analysts, NEW id \in Ids, NEW op \in Op, Read(h, id, op)
      PROVE  TypeOK'
  <2>1. [id |-> id, op |-> op, case |-> cases[id], stale |-> FALSE] \in Copy
    BY <1>7, CaseType DEF Read, Copy
  <2>2. hand' \in [Analysts -> Copy \cup {None}] /\ edits' \in 0..MaxEdits
    BY <1>7, <2>1, BoundsAssumption DEF Read, Edit, TypeOK
  <2>3. QED
    BY <1>7, <2>2 DEF Read, TypeOK, tuning, alert, index, table
<1>8. ASSUME NEW h \in Analysts, Save(h) PROVE TypeOK'
  <2>1. hand[h].id \in Ids /\ hand[h].op \in Op /\ hand[h].case \in Case
    BY <1>8, HandType DEF Save
  <2>2. ideal[hand[h].id] \in Case
    BY <1>8, <2>1 DEF Save, Shape, TypeOK
  <2>3. Apply(hand[h].case, hand[h].op) \in Case /\ Apply(ideal[hand[h].id], hand[h].op) \in Case
    BY <2>1, <2>2, ApplyType
  <2>4. cases' \in [Ids -> Case \cup {None}] /\ ideal' \in [Ids -> Case \cup {None}]
    BY <1>8, <2>1, <2>3 DEF Save, TypeOK
  <2>5. blurred' \subseteq Ids
    BY <1>8, <2>1 DEF Save, TypeOK
  <2>6. hand' \in [Analysts -> Copy \cup {None}]
    <3>1. ASSUME NEW y \in Analysts, hand[y] # None
          PROVE  [hand[y] EXCEPT !.stale = TRUE] \in Copy
      BY <3>1, HandType DEF Copy
    <3>2. QED
      BY <1>8, <3>1 DEF Save, TypeOK
  <2>7. work' \in [Workers -> Jobs]
    <3>1. ASSUME NEW w \in Workers PROVE [work[w] EXCEPT !.stale = TRUE] \in Jobs
      BY WorkType DEF Jobs
    <3>2. QED
      BY <1>8, <3>1 DEF Save, TypeOK
  <2>8. QED
    BY <1>8, <2>4, <2>5, <2>6, <2>7 DEF Save, TypeOK, tuning, alert, index
<1>9. ASSUME NEW h \in Analysts, Drop(h) PROVE TypeOK'
  BY <1>9 DEF Drop, TypeOK, tuning, alert, index, table
<1>10. ASSUME NEW a \in Agents, CreateCase(a) PROVE TypeOK'
  <2>1. made' \in Ids /\ made' \in 0..MaxCases /\ edits' \in 0..MaxEdits
    BY <1>10, BoundsAssumption DEF CreateCase, Edit, TypeOK, Ids
  <2>2. [agent |-> a, status |-> "open", dets |-> {}, notes |-> {}, updated |-> clock] \in Case
    BY <1>0 DEF Case
  <2>3. cases' \in [Ids -> Case \cup {None}] /\ ideal' \in [Ids -> Case \cup {None}]
    BY <1>10, <2>1, <2>2 DEF CreateCase, TypeOK
  <2>4. QED
    BY <1>10, <2>1, <2>3 DEF CreateCase, TypeOK, tuning, alert, index
<1>11. ASSUME NEW loaded \in BOOLEAN, NEW seeded \in BOOLEAN, Restart(loaded, seeded)
       PROVE  TypeOK'
  <2>1. active' \in [Agents -> Ref \cup {None}]
    <3>1. ASSUME NEW a \in Agents PROVE Seed(a) \subseteq Ref
      BY CaseType DEF Seed, OpenOf, RefTo, Ref
    <3>2. QED
      BY <1>11, <3>1 DEF Restart
  <2>2. excused' \in [Agents -> BOOLEAN]
    BY <1>11, Zenon DEF Restart
  <2>3. work' \in [Workers -> Jobs]
    BY <1>11, RestType DEF Restart
  <2>4. faults' \in 0..MaxFaults
    BY <1>11, BoundsAssumption DEF Restart, Fault, TypeOK
  <2>5. cache' \subseteq Items /\ mixed' \subseteq Items
    BY <1>11 DEF Restart, TypeOK
  <2>6. /\ holder' \in Workers \cup {None} /\ hand' \in [Analysts -> Copy \cup {None}]
        /\ edit' \in [Editors -> Change \cup {None}]
    BY <1>11 DEF Restart
  <2>7. /\ sent' \in [Agents -> Time \cup {Never}] /\ lastGC' \in Time
        /\ alerts' \in [Agents -> Seq(Time)]
    BY <1>0, <1>11 DEF Restart
  <2>8. QED
    BY <1>11, <2>1, <2>2, <2>3, <2>4, <2>5, <2>6, <2>7 DEF Restart, TypeOK, table
<1>12. CASE Tick
  BY <1>12, BoundsAssumption DEF Tick, TypeOK, Time, tuning, alert, index, table
<1>13. CASE UNCHANGED vars
  BY <1>13 DEF vars, TypeOK, tuning, alert, index, table
<1>14. QED
  BY <1>1, <1>2, <1>3, <1>4, <1>5, <1>6, <1>7, <1>8, <1>9, <1>10, <1>11, <1>12, <1>13
     DEF Next

-----------------------------------------------------------------------------
(* The gate *)

\* Every step keeps the cache as far behind the database as the edits under way.
LEMMA NextCache == ASSUME IInv, [Next]_vars PROVE CacheFollows'
<1> USE DEF IInv
<1>1. ASSUME NEW e \in Editors, NEW i \in Items, NEW on \in BOOLEAN, SetStore(e, i, on)
      PROVE  CacheFollows'
  <2>1. /\ edit[e] = None /\ cache' = cache
        /\ edit' = [edit EXCEPT ![e] = [item |-> i, on |-> on]]
        /\ edit' \in [Editors -> Change \cup {None}] /\ mixed \subseteq mixed'
    BY <1>1, NextTypeOK DEF SetStore, TypeOK
  <2>2. SUFFICES ASSUME NEW x \in Items \ mixed'
                 PROVE  /\ \A f, g \in Editors : Edits(f, x)' /\ Edits(g, x)' => f = g
                        /\ \A f \in Editors : Edits(f, x)' => (edit'[f].on <=> x \in quiet')
                        /\ ~Edited(x)' => (x \in quiet' <=> x \in cache')
    BY DEF CacheFollows
  <2>3. \A f \in Editors \ {e} : edit'[f] = edit[f]
    BY <2>1 DEF TypeOK
  <2>4. edit'[e].item = i /\ edit'[e].on = on /\ edit'[e] # None
    BY <2>1, NoneAssumption DEF TypeOK, Change
  <2>5. CASE x # i
    <3>1. \A f \in Editors : Edits(f, x)' <=> Edits(f, x)
      BY <2>1, <2>3, <2>4, <2>5 DEF Edits
    <3>2. x \in quiet' <=> x \in quiet
      BY <1>1, <2>5 DEF SetStore, With
    <3>3. \A f \in Editors : Edits(f, x)' => edit'[f] = edit[f]
      BY <2>3, <2>4, <2>5 DEF Edits
    <3>4. Edited(x)' <=> Edited(x)
      BY <3>1 DEF Edited, Edits
    <3>5. QED
      BY <2>1, <3>1, <3>2, <3>3, <3>4 DEF CacheFollows
  <2>6. CASE x = i
    <3>1. ~Edited(i) /\ Edited(i)'
      BY <1>1, <2>4, <2>6 DEF SetStore, Edited
    <3>2. \A f \in Editors : Edits(f, i)' <=> f = e
      BY <2>3, <2>4, <3>1 DEF Edits, Edited
    <3>3. i \in quiet' <=> on
      BY <1>1 DEF SetStore, With
    <3>4. QED
      BY <2>4, <2>6, <3>1, <3>2, <3>3
  <2>7. QED
    BY <2>5, <2>6
<1>2. ASSUME NEW e \in Editors, SetCache(e) PROVE CacheFollows'
  <2> DEFINE i == edit[e].item
  <2>1. /\ edit[e] # None /\ edit' = [edit EXCEPT ![e] = None]
        /\ cache' = With(cache, i, edit[e].on) /\ UNCHANGED <<quiet, mixed>>
    BY <1>2 DEF SetCache
  <2>2. SUFFICES ASSUME NEW x \in Items \ mixed
                 PROVE  /\ \A f, g \in Editors : Edits(f, x)' /\ Edits(g, x)' => f = g
                        /\ \A f \in Editors : Edits(f, x)' => (edit'[f].on <=> x \in quiet)
                        /\ ~Edited(x)' => (x \in quiet <=> x \in cache')
    BY <2>1 DEF CacheFollows
  <2>3. /\ edit'[e] = None /\ \A f \in Editors \ {e} : edit'[f] = edit[f]
    BY <2>1 DEF TypeOK
  <2>4. \A f \in Editors : Edits(f, x)' => f # e /\ Edits(f, x) /\ edit'[f] = edit[f]
    BY <2>3 DEF Edits
  <2>5. ~Edited(x)' => (x \in quiet <=> x \in cache')
    <3>1. CASE x = i
      <4>1. Edits(e, x)
        BY <2>1, <3>1 DEF Edits
      <4>2. edit[e].on <=> x \in quiet
        BY <4>1 DEF CacheFollows
      <4>3. x \in cache' <=> edit[e].on
        BY <2>1, <3>1 DEF With
      <4>4. QED
        BY <4>2, <4>3
    <3>2. CASE x # i
      <4>1. Edited(x)' <=> Edited(x)
        BY <2>1, <2>3, <3>2 DEF Edited
      <4>2. x \in cache' <=> x \in cache
        BY <2>1, <3>2 DEF With
      <4>3. QED
        BY <4>1, <4>2 DEF CacheFollows
    <3>3. QED
      BY <3>1, <3>2
  <2>6. QED
    BY <2>4, <2>5 DEF CacheFollows
<1>3. ASSUME NEW loaded \in BOOLEAN, NEW seeded \in BOOLEAN, Restart(loaded, seeded)
      PROVE  CacheFollows'
  <2>1. \A e \in Editors : edit'[e] = None
    BY <1>3 DEF Restart
  <2>2. CASE loaded
    BY <1>3, <2>1, <2>2 DEF Restart, CacheFollows, Edits, Edited
  <2>3. CASE ~loaded
    <3>1. mixed' = Items
      BY <1>3, <2>3 DEF Restart
    <3>2. QED
      BY <3>1 DEF CacheFollows
  <2>4. QED
    BY <2>2, <2>3
<1>4. CASE UNCHANGED tuning
  BY <1>4 DEF tuning, CacheFollows, Edits, Edited
<1>5. QED
  BY <1>1, <1>2, <1>3, <1>4
     DEF Next, vars, Gate, Raise, Add, Put, Read, Save, Drop, CreateCase, Tick, tuning

-----------------------------------------------------------------------------
(* The throttle *)

\* Every step keeps the alerts of an agent apart.
LEMMA NextSpaced == ASSUME IInv, [Next]_vars PROVE Spaced'
<1> USE DEF IInv
<1>0. TypeOK /\ clock \in Int /\ Throttle \in Nat \ {0}
  BY BoundsAssumption, DataAssumption DEF TypeOK, Time
<1>a. \A a \in Agents : \A i \in DOMAIN alerts[a] : alerts[a][i] \in Int
  BY BoundsAssumption DEF TypeOK, Time
<1>1. ASSUME NEW w \in Workers, NEW d \in Detections, Notify(d), clock' = clock
      PROVE  Spaced'
  <2>1. SUFFICES ASSUME NEW a \in Agents
                 PROVE  /\ \A i, j \in DOMAIN alerts'[a] :
                             i < j => alerts'[a][j] - alerts'[a][i] >= Throttle
                        /\ \A i \in DOMAIN alerts'[a] :
                             /\ alerts'[a][i] <= clock
                             /\ alerts'[a][i] = sent'[a] \/ clock - alerts'[a][i] >= Throttle
                        /\ sent'[a] # Never => \E i \in DOMAIN alerts'[a] : alerts'[a][i] = sent'[a]
    BY <1>1 DEF Spaced
  <2>2. /\ SentAfterGc \in [Agents -> Time \cup {Never}]
        /\ SentAfterGc[a] \in {sent[a], Never}
        /\ sent[a] # Never /\ SentAfterGc[a] = Never => clock - sent[a] > Throttle
    BY GcType
  <2>3. sent[a] \in Int /\ Agent[d] \in Agents
    BY BoundsAssumption, DataAssumption DEF TypeOK, Time, Never
  <2>4. \A i \in DOMAIN alerts[a] :
          alerts[a][i] = SentAfterGc[a] \/ clock - alerts[a][i] >= Throttle
    BY <1>0, <2>2, <1>a DEF Spaced
  <2>5. CASE sent' = SentAfterGc /\ UNCHANGED alerts
    BY <2>2, <2>4, <2>5 DEF Spaced
  <2>6. CASE /\ sent' = [SentAfterGc EXCEPT ![Agent[d]] = clock]
             /\ alerts' = [alerts EXCEPT ![Agent[d]] = Append(@, clock)]
             /\ ~Throttled(Agent[d]) /\ a # Agent[d]
    <3>1. sent'[a] = SentAfterGc[a] /\ alerts'[a] = alerts[a]
      BY <2>2, <2>6 DEF TypeOK
    <3>2. QED
      BY <2>2, <2>4, <3>1 DEF Spaced
  <2>7. CASE /\ sent' = [SentAfterGc EXCEPT ![Agent[d]] = clock]
             /\ alerts' = [alerts EXCEPT ![Agent[d]] = Append(@, clock)]
             /\ ~Throttled(Agent[d]) /\ a = Agent[d]
    <3>1. alerts[a] \in Seq(Time) /\ clock \in Time
      BY DEF TypeOK
    <3>2. sent'[a] = clock /\ alerts'[a] = Append(alerts[a], clock)
      BY <2>2, <2>7 DEF TypeOK
    <3>3. /\ DOMAIN alerts[a] = 1..Len(alerts[a]) /\ Len(alerts[a]) \in Nat
          /\ DOMAIN alerts'[a] = 1..(Len(alerts[a]) + 1)
          /\ alerts'[a][Len(alerts[a]) + 1] = clock
          /\ \A i \in DOMAIN alerts[a] : alerts'[a][i] = alerts[a][i]
      BY <3>1, <3>2
    <3>4. \A i \in DOMAIN alerts[a] : clock - alerts[a][i] >= Throttle
      <4>1. CASE SentAfterGc[a] = Never
        BY <1>0, <1>a, <2>2, <2>4, <4>1, BoundsAssumption DEF Never, Time, TypeOK
      <4>2. CASE clock - SentAfterGc[a] >= Throttle
        BY <2>4, <4>2
      <4>3. SentAfterGc[a] \in Int
        BY <2>2, BoundsAssumption DEF Never, Time
      <4>4. QED
        BY <1>0, <2>7, <4>1, <4>2, <4>3 DEF Throttled
    <3>5. \A i, j \in DOMAIN alerts'[a] : i < j => alerts'[a][j] - alerts'[a][i] >= Throttle
      <4>1. SUFFICES ASSUME NEW i \in DOMAIN alerts'[a], NEW j \in DOMAIN alerts'[a], i < j
                     PROVE  alerts'[a][j] - alerts'[a][i] >= Throttle
        OBVIOUS
      <4>2. i \in DOMAIN alerts[a]
        BY <3>3, <4>1
      <4>3. CASE j \in DOMAIN alerts[a]
        BY <3>3, <4>1, <4>2, <4>3 DEF Spaced
      <4>4. CASE j = Len(alerts[a]) + 1
        BY <3>3, <3>4, <4>2, <4>4
      <4>5. QED
        BY <3>3, <4>3, <4>4
    <3>6. \A i \in DOMAIN alerts'[a] :
            alerts'[a][i] <= clock /\ (alerts'[a][i] = clock \/ clock - alerts'[a][i] >= Throttle)
      BY <1>0, <3>3, <3>4 DEF Spaced
    <3>7. QED
      BY <3>2, <3>3, <3>5, <3>6
  <2>8. QED
    BY <1>1, <2>5, <2>6, <2>7 DEF Notify
<1>2. ASSUME NEW loaded \in BOOLEAN, NEW seeded \in BOOLEAN, Restart(loaded, seeded)
      PROVE  Spaced'
  BY <1>2 DEF Restart, Spaced
<1>3. CASE Tick
  <2>1. clock' = clock + 1 /\ UNCHANGED <<sent, alerts>>
    BY <1>3 DEF Tick, alert
  <2>2. QED
    BY <1>0, <1>a, <2>1 DEF Spaced
<1>4. CASE UNCHANGED <<clock, alert>>
  BY <1>4 DEF alert, Spaced
<1>5. ASSUME NEW w \in Workers, Raise(w) PROVE Spaced'
  <2>1. clock' = clock /\ work[w].det \in Detections
    BY <1>5 DEF Raise, Shape
  <2>2. UNCHANGED alert \/ Notify(work[w].det)
    BY <1>5 DEF Raise
  <2>3. QED
    BY <1>1, <1>4, <2>1, <2>2
<1>6. QED
  BY <1>2, <1>3, <1>4, <1>5
     DEF Next, vars, Gate, Add, Put, SetStore, SetCache, Read, Save, Drop, CreateCase

-----------------------------------------------------------------------------
(* The mutex *)

\* Every step leaves the mutex with the worker that writes.
LEMMA NextLocked == ASSUME IInv, [Next]_vars PROVE Locked'
<1> USE NoneAssumption DEF IInv
<1>0. work \in [Workers -> Jobs] /\ Rest.at = "rest"
  BY RestType DEF TypeOK
<1>1. ASSUME NEW w \in Workers, NEW d \in Detections, Gate(w, d) PROVE Locked'
  BY <1>0, <1>1 DEF Gate, Locked, Job
<1>2. ASSUME NEW w \in Workers, Raise(w) PROVE Locked'
  <2>1. work'[w].at # "put"
    BY <1>0, <1>2 DEF Raise, Jobs
  <2>2. \A v \in Workers \ {w} : work'[v] = work[v]
    BY <1>0, <1>2 DEF Raise
  <2>3. QED
    BY <1>2, <2>1, <2>2 DEF Raise, Locked
<1>3. ASSUME NEW w \in Workers, Add(w) PROVE Locked'
  BY <1>0, <1>3 DEF Add, Taken, Opened, Job, Locked
<1>4. ASSUME NEW w \in Workers, Put(w) PROVE Locked'
  BY <1>0, <1>4 DEF Put, Locked
<1>5. ASSUME NEW h \in Analysts, Save(h) PROVE Locked'
  <2>1. \A w \in Workers : work'[w].at = work[w].at
    BY <1>0, <1>5 DEF Save, Jobs
  <2>2. QED
    BY <1>5, <2>1 DEF Save, Locked
<1>6. ASSUME NEW loaded \in BOOLEAN, NEW seeded \in BOOLEAN, Restart(loaded, seeded)
      PROVE  Locked'
  BY <1>0, <1>6 DEF Restart, Locked
<1>7. CASE UNCHANGED <<work, holder>>
  BY <1>7 DEF Locked
<1>8. QED
  BY <1>1, <1>2, <1>3, <1>4, <1>5, <1>6, <1>7
     DEF Next, vars, SetStore, SetCache, Read, Drop, CreateCase, Tick

-----------------------------------------------------------------------------
(* What the steps on cases do *)

\* Add turns the job into a write of the case that absorbs its detection.
AddEffect(w) ==
  LET d == work[w].det
      a == Agent[d]
  IN  /\ work[w].at = "add" /\ d \in Detections /\ a \in Agents /\ work[w].now \in Time
      /\ \A v \in Workers \ {w} : work'[v] = work[v]
      /\ work'[w].at = "put" /\ work'[w].det = d /\ work'[w].now = work[w].now
      /\ work'[w].stale = FALSE /\ work'[w].id \in Ids
      /\ \/ /\ made' = made /\ Joins(w) /\ work'[w].id = active[a].id
            /\ cases[active[a].id] # None /\ cases[active[a].id].status # "closed"
            /\ work'[w].case = Folded(cases[active[a].id], d, work[w].now)
         \/ /\ made' = made + 1 /\ work'[w].id = made'
            /\ work'[w].case = NewCase(d, work[w].now)
            /\ faults' = faults => (Joins(w) => Closed(w))

\* AddEffect is what that step does, in a state of the invariant.
LEMMA AddDoes ==
  ASSUME IInv, NEW w \in Workers, Add(w)
  PROVE  AddEffect(w)
<1> USE DEF IInv
<1>1. /\ work[w].at = "add" /\ work[w].det \in Detections /\ work[w].now \in Time
      /\ Agent[work[w].det] \in Agents
  BY WorkType, DataAssumption DEF Add, Shape
<1>2. work \in [Workers -> Jobs] /\ made \in Nat /\ faults \in Nat
  BY BoundsAssumption DEF TypeOK
<1>3. CASE Taken(w) /\ UNCHANGED made
  <2> DEFINE id == active[Agent[work[w].det]].id
  <2>1. id \in Ids /\ cases[id] # None
    BY <1>1, <1>3, RefType DEF Taken, Joins, Shape
  <2>2. work' = [work EXCEPT ![w] = Job("put", work[w].det, work[w].now, id,
                   Folded(cases[id], work[w].det, work[w].now), FALSE)]
    BY <1>3 DEF Taken
  <2>3. /\ \A v \in Workers \ {w} : work'[v] = work[v]
        /\ work'[w] = Job("put", work[w].det, work[w].now, id,
                         Folded(cases[id], work[w].det, work[w].now), FALSE)
    BY <1>2, <2>2
  <2>4. /\ work'[w].at = "put" /\ work'[w].det = work[w].det /\ work'[w].now = work[w].now
        /\ work'[w].stale = FALSE /\ work'[w].id = id
        /\ work'[w].case = Folded(cases[id], work[w].det, work[w].now)
    BY <2>3 DEF Job
  <2>5. Joins(w) /\ cases[id].status # "closed" /\ made' = made
    BY <1>3 DEF Taken
  <2> HIDE DEF id
  <2>6. QED
    BY <1>1, <2>1, <2>3, <2>4, <2>5 DEF AddEffect, id
<1>4. CASE Opened(w) /\ (faults' = faults => (Joins(w) => Closed(w)))
  <2>1. work' = [work EXCEPT ![w] = Job("put", work[w].det, work[w].now, made',
                   NewCase(work[w].det, work[w].now), FALSE)]
    BY <1>4 DEF Opened
  <2>2. made' = made + 1 /\ made' \in Ids
    BY <1>2, <1>4, BoundsAssumption DEF Opened, Ids
  <2>3. QED
    BY <1>1, <1>2, <1>4, <2>1, <2>2 DEF Job, AddEffect
<1>5. Fault => faults' # faults
  BY <1>2 DEF Fault
<1>6. QED
  BY <1>3, <1>4, <1>5 DEF Add

\* Put stores the case and leaves the others as they are.
PutEffect(w) ==
  LET j == work[w]
      a == Agent[j.det]
  IN  /\ j.at = "put" /\ j.id \in Ids /\ j.id <= made /\ j.det \in Detections /\ a \in Agents
      /\ j.case \in Case /\ j.now \in Time /\ holder = w
      /\ cases'[j.id] = j.case /\ \A i \in Ids \ {j.id} : cases'[i] = cases[i]
      /\ ideal'[j.id] = IF ideal[j.id] = None THEN NewCase(j.det, j.now)
                        ELSE Folded(ideal[j.id], j.det, j.now)
      /\ ideal'[j.id] \in Case /\ \A i \in Ids \ {j.id} : ideal'[i] = ideal[i]
      /\ work'[w] = Rest /\ \A v \in Workers \ {w} : work'[v] = work[v] /\ work[v].at # "put"
      /\ \A h \in Analysts : /\ hand'[h] = None <=> hand[h] = None
                             /\ hand[h] # None =>
                                  /\ hand'[h].id = hand[h].id /\ hand'[h].op = hand[h].op
                                  /\ hand'[h].case = hand[h].case
                                  /\ ~hand'[h].stale => ~hand[h].stale /\ hand[h].id # j.id
      /\ active'[a] = [id |-> j.id, last |-> j.now] /\ line'[a] = active'[a]
      /\ excused'[a] = FALSE
      /\ \A b \in Agents \ {a} : /\ active'[b] = active[b] /\ line'[b] = line[b]
                                 /\ excused'[b] = excused[b]

\* PutEffect is what that step does, in a state of the invariant.
LEMMA PutDoes ==
  ASSUME IInv, NEW w \in Workers, Put(w), Written(w)
  PROVE  PutEffect(w)
<1> USE DEF IInv
<1> DEFINE j == work[w]
           a == Agent[j.det]
<1>1. /\ j.at = "put" /\ j.id \in Ids /\ j.id <= made /\ j.det \in Detections /\ a \in Agents
      /\ j.case \in Case /\ j.now \in Time /\ holder = w
  BY PutType, WorkType DEF Put, Shape, Locked
<1>2. /\ cases'[j.id] = j.case /\ \A i \in Ids \ {j.id} : cases'[i] = cases[i]
  BY <1>1 DEF Written, TypeOK
<1>3. /\ ideal'[j.id] = IF ideal[j.id] = None THEN NewCase(j.det, j.now)
                        ELSE Folded(ideal[j.id], j.det, j.now)
      /\ \A i \in Ids \ {j.id} : ideal'[i] = ideal[i]
  <2> DEFINE c == IF ideal[j.id] = None THEN NewCase(j.det, j.now)
                  ELSE Folded(ideal[j.id], j.det, j.now)
  <2>1. ideal' = [ideal EXCEPT ![j.id] = c]
    BY DEF Written
  <2> HIDE DEF c
  <2>2. ideal'[j.id] = c /\ \A i \in Ids \ {j.id} : ideal'[i] = ideal[i]
    BY <1>1, <2>1 DEF TypeOK
  <2>3. QED
    BY <2>2 DEF c
<1>4. ideal'[j.id] \in Case
  BY <1>1, <1>3, NewCaseType, FoldedType DEF TypeOK
<1>5. /\ work'[w] = Rest
      /\ \A v \in Workers \ {w} : work'[v] = work[v] /\ work[v].at # "put"
  BY <1>1 DEF Put, Locked, TypeOK
<1>6. ASSUME NEW h \in Analysts
      PROVE  /\ hand'[h] = None <=> hand[h] = None
             /\ hand[h] # None =>
                  /\ hand'[h].id = hand[h].id /\ hand'[h].op = hand[h].op
                  /\ hand'[h].case = hand[h].case
                  /\ ~hand'[h].stale => ~hand[h].stale /\ hand[h].id # j.id
  <2>1. CASE hand[h] = None
    BY <2>1 DEF Written, Outdate
  <2>2. CASE hand[h] # None
    <3>1. [hand[h] EXCEPT !.stale = TRUE] \in Copy
      BY <2>2, HandType DEF Copy
    <3>2. CASE hand[h].id = j.id
      <4>1. hand'[h] = [hand[h] EXCEPT !.stale = TRUE]
        BY <2>2, <3>2 DEF Written, Outdate
      <4>2. hand[h] \in Copy
        BY <2>2, HandType
      <4>3. /\ hand'[h].id = hand[h].id /\ hand'[h].op = hand[h].op
            /\ hand'[h].case = hand[h].case /\ hand'[h].stale = TRUE
        BY <4>1, <4>2 DEF Copy
      <4>4. QED
        BY <2>2, <3>1, <4>1, <4>3, NoneAssumption
    <3>3. CASE hand[h].id # j.id
      BY <2>2, <3>3 DEF Written, Outdate
    <3>4. QED
      BY <3>2, <3>3
  <2>3. QED
    BY <2>1, <2>2
<1>7. /\ active'[a] = [id |-> j.id, last |-> j.now] /\ line'[a] = active'[a]
      /\ \A b \in Agents \ {a} : active'[b] = active[b] /\ line'[b] = line[b]
  BY <1>1 DEF Written, TypeOK
<1>8. excused'[a] = FALSE /\ \A b \in Agents \ {a} : excused'[b] = excused[b]
  BY <1>1, Zenon DEF Written, TypeOK
<1>9. QED
  BY <1>1, <1>2, <1>3, <1>4, <1>5, <1>6, <1>7, <1>8 DEF PutEffect

\* Save stores what was read, edited, and makes every other copy of the case old.
SaveEffect(h) ==
  LET x == hand[h]
  IN  /\ x # None /\ x.id \in Ids /\ x.op \in Op /\ x.case \in Case
      /\ cases[x.id] # None /\ ideal[x.id] \in Case
      /\ cases'[x.id] = Apply(x.case, x.op) /\ \A i \in Ids \ {x.id} : cases'[i] = cases[i]
      /\ ideal'[x.id] = Apply(ideal[x.id], x.op)
      /\ \A i \in Ids \ {x.id} : ideal'[i] = ideal[i]
      /\ cases'[x.id] \in Case /\ ideal'[x.id] \in Case
      /\ hand'[h] = None
      /\ \A y \in Analysts : hand'[y] # None =>
           /\ hand[y] # None /\ hand'[y].id = hand[y].id /\ hand'[y].case = hand[y].case
           /\ ~hand'[y].stale => hand[y].id # x.id /\ ~hand[y].stale
      /\ \A w \in Workers :
           /\ work'[w].at = work[w].at /\ work'[w].det = work[w].det
           /\ work'[w].now = work[w].now /\ work'[w].id = work[w].id
           /\ work'[w].case = work[w].case
           /\ work[w].at = "rest" => work'[w] = work[w]
           /\ work[w].at = "put" /\ ~work'[w].stale => work[w].id # x.id /\ ~work[w].stale

\* SaveEffect is what that step does, in a state of the invariant.
LEMMA SaveDoes ==
  ASSUME IInv, NEW h \in Analysts, Save(h)
  PROVE  SaveEffect(h)
<1> USE DEF IInv
<1> DEFINE x == hand[h]
<1>1. /\ x # None /\ x.id \in Ids /\ x.op \in Op /\ x.case \in Case
      /\ cases[x.id] # None /\ ideal[x.id] \in Case
  BY HandType DEF Save, Shape, TypeOK
<1>2. /\ cases'[x.id] = Apply(x.case, x.op) /\ \A i \in Ids \ {x.id} : cases'[i] = cases[i]
  BY <1>1 DEF Save, TypeOK
<1>3. /\ ideal'[x.id] = Apply(ideal[x.id], x.op)
      /\ \A i \in Ids \ {x.id} : ideal'[i] = ideal[i]
  BY <1>1 DEF Save, TypeOK
<1>4. cases'[x.id] \in Case /\ ideal'[x.id] \in Case
  BY <1>1, <1>2, <1>3, ApplyType
<1>5. hand'[h] = None
  BY DEF Save
<1>6. ASSUME NEW y \in Analysts, hand'[y] # None
      PROVE  /\ hand[y] # None /\ hand'[y].id = hand[y].id /\ hand'[y].case = hand[y].case
             /\ ~hand'[y].stale => hand[y].id # x.id /\ ~hand[y].stale
  <2>1. y # h /\ hand[y] # None
    BY <1>6 DEF Save
  <2>2. hand[y] \in Copy
    BY <2>1, HandType
  <2>3. CASE hand[y].id = x.id
    <3>1. hand'[y] = [hand[y] EXCEPT !.stale = TRUE]
      BY <2>1, <2>3 DEF Save
    <3>2. hand'[y].id = hand[y].id /\ hand'[y].case = hand[y].case /\ hand'[y].stale = TRUE
      BY <2>2, <3>1 DEF Copy
    <3>3. QED
      BY <2>1, <3>2
  <2>4. CASE hand[y].id # x.id
    BY <2>1, <2>4 DEF Save
  <2>5. QED
    BY <2>3, <2>4
<1>7. ASSUME NEW w \in Workers
      PROVE  /\ work'[w].at = work[w].at /\ work'[w].det = work[w].det
             /\ work'[w].now = work[w].now /\ work'[w].id = work[w].id
             /\ work'[w].case = work[w].case
             /\ work[w].at = "rest" => work'[w] = work[w]
             /\ work[w].at = "put" /\ ~work'[w].stale => work[w].id # x.id /\ ~work[w].stale
  <2>1. CASE work[w].at = "put" /\ work[w].id = x.id
    <3>1. work'[w] = [work[w] EXCEPT !.stale = TRUE]
      BY <2>1 DEF Save
    <3>2. work[w] \in Jobs
      BY WorkType
    <3>3. /\ work'[w].at = work[w].at /\ work'[w].det = work[w].det
          /\ work'[w].now = work[w].now /\ work'[w].id = work[w].id
          /\ work'[w].case = work[w].case /\ work'[w].stale = TRUE
      BY <3>1, <3>2 DEF Jobs
    <3>4. QED
      BY <2>1, <3>3
  <2>2. CASE ~(work[w].at = "put" /\ work[w].id = x.id)
    BY <2>2 DEF Save
  <2>3. QED
    BY <2>1, <2>2
<1>8. QED
  BY <1>1, <1>2, <1>3, <1>4, <1>5, <1>6, <1>7 DEF SaveEffect
\* createCase takes an id that nothing refers to.
CreateEffect(a) ==
  /\ made' = made + 1 /\ made' \in Ids /\ made \in Nat /\ cases[made'] = None
  /\ cases'[made'] = [agent |-> a, status |-> "open", dets |-> {}, notes |-> {},
                      updated |-> clock]
  /\ cases'[made'] \in Case /\ ideal'[made'] = cases'[made']
  /\ \A i \in Ids \ {made'} : cases'[i] = cases[i] /\ ideal'[i] = ideal[i]

\* CreateEffect is what that step does, in a state of the invariant.
LEMMA CreateDoes ==
  ASSUME IInv, NEW a \in Agents, CreateCase(a)
  PROVE  CreateEffect(a)
<1> USE DEF IInv
<1>1. made \in Nat /\ made' = made + 1 /\ made' \in Ids
  BY BoundsAssumption DEF CreateCase, TypeOK, Ids
<1>2. cases[made'] = None
  BY <1>1 DEF Shape
<1>3. [agent |-> a, status |-> "open", dets |-> {}, notes |-> {}, updated |-> clock] \in Case
  BY DEF Case, TypeOK
<1>4. QED
  BY <1>1, <1>2, <1>3 DEF CreateCase, TypeOK, CreateEffect

\* Every step gives ids out once and refers to what is there.
LEMMA NextShape == ASSUME IInv, [Next]_vars PROVE Shape'
<1> USE NoneAssumption DEF IInv
<1>0. work \in [Workers -> Jobs] /\ Rest.at = "rest" /\ made \in Nat
  BY RestType, BoundsAssumption DEF TypeOK
<1>1. ASSUME NEW w \in Workers, NEW d \in Detections, Gate(w, d) PROVE Shape'
  <2>1. UNCHANGED <<cases, ideal, made, hand, active, line>>
    BY <1>1 DEF Gate, index, table
  <2>2. \A v \in Workers : \/ work'[v] = work[v]
                           \/ work'[v].at = "raise" /\ work'[v].det \in Detections
    BY <1>0, <1>1 DEF Gate, Job
  <2>3. QED
    BY <2>1, <2>2 DEF Shape
<1>2. ASSUME NEW w \in Workers, Raise(w) PROVE Shape'
  <2>1. UNCHANGED <<cases, ideal, made, hand, active, line>>
    BY <1>2 DEF Raise, index, table
  <2>2. \A v \in Workers : \/ work'[v] = work[v] \/ work'[v] = Rest
                           \/ work'[v].at = "add" /\ work'[v].det = work[v].det /\ work[v].at = "raise"
    BY <1>0, <1>2 DEF Raise, Jobs
  <2>3. QED
    BY <1>0, <2>1, <2>2 DEF Shape
<1>3. ASSUME NEW w \in Workers, Add(w) PROVE Shape'
  <2> USE DEF AddEffect
  <2>0. AddEffect(w)
    BY <1>3, AddDoes
  <2>1. UNCHANGED <<cases, ideal, hand, active, line>> /\ made <= made'
    BY <1>0, <1>3, <2>0 DEF Add, index
  <2>2. /\ work'[w].at = "put" /\ work'[w].det \in Detections
        /\ work'[w].id \in Ids /\ work'[w].id <= made' /\ work'[w].case # None
    <3>1. CASE work'[w].id = made'
      <4>1. \/ work'[w].case = NewCase(work[w].det, work[w].now)
            \/ \E i \in Ids : /\ cases[i] # None
                              /\ work'[w].case = Folded(cases[i], work[w].det, work[w].now)
        BY <2>0, RefType DEF Joins
      <4>2. work[w].det \in Detections /\ work[w].now \in Time
        BY <2>0
      <4>3. work'[w].case \in Case
        BY <4>1, <4>2, NewCaseType, FoldedType, CaseType
      <4>4. made' \in Nat
        BY <1>0, <2>0
      <4>5. QED
        BY <2>0, <3>1, <4>3, <4>4
    <3>2. CASE work'[w].id # made'
      <4> DEFINE i == work'[w].id
      <4>1. /\ made' = made /\ i \in Ids /\ cases[i] # None
            /\ work'[w].case = Folded(cases[i], work[w].det, work[w].now)
        BY <2>0, <3>2
      <4>2. i <= made
        BY <1>0, <4>1 DEF Shape, Ids
      <4>3. work'[w].case \in Case
        BY <2>0, <4>1, FoldedType, CaseType
      <4>4. QED
        BY <2>0, <4>1, <4>2, <4>3
    <3>3. QED
      BY <3>1, <3>2
  <2>3. work'[w].id \in 1..made'
    BY <1>0, <2>0, <2>2 DEF Ids
  <2>4. \A v \in Workers \ {w} : work'[v] = work[v]
    BY <2>0
  <2>5. \A i \in 1..made : i \in 1..made'
    BY <1>0, <2>0, <2>1
  <2>6. \A i \in Ids : i > made' => i > made
    BY <1>0, <2>0, <2>1 DEF Ids
  <2>7. QED
    BY <2>1, <2>2, <2>3, <2>4, <2>5, <2>6 DEF Shape
<1>4. ASSUME NEW w \in Workers, Put(w) PROVE Shape'
  <2>1. CASE Written(w)
    <3> USE DEF PutEffect
    <3>0. PutEffect(w)
      BY <1>4, <2>1, PutDoes
    <3>1. made' = made /\ \A v \in Workers : work'[v] = work[v] \/ work'[v] = Rest
      BY <1>4, <3>0 DEF Put
    <3>2. \A i \in Ids : i > made => cases'[i] = None
      BY <1>0, <3>0 DEF Shape, Ids
    <3>3. \A i \in Ids : (cases'[i] = None <=> ideal'[i] = None) /\ (cases[i] # None => cases'[i] # None)
      BY <3>0 DEF Shape
    <3>4. \A h \in Analysts : hand'[h] # None => cases'[hand'[h].id] # None
      BY <3>0, <3>3, HandType DEF Shape
    <3>5. \A a \in Agents : /\ active'[a] # None => cases'[active'[a].id] # None
                            /\ line'[a] # None => cases'[line'[a].id] # None
      <4>1. SUFFICES ASSUME NEW a \in Agents, a # Agent[work[w].det]
                     PROVE  /\ active'[a] # None => cases'[active'[a].id] # None
                            /\ line'[a] # None => cases'[line'[a].id] # None
        BY <3>0
      <4>2. active'[a] = active[a] /\ line'[a] = line[a]
        BY <3>0, <4>1
      <4>3. QED
        BY <3>3, <4>2, RefType DEF Shape
    <3>6. QED
      BY <1>0, <3>1, <3>2, <3>3, <3>4, <3>5 DEF Shape
  <2>2. CASE UNCHANGED <<cases, ideal, blurred, hand, index>>
    <3>1. made' = made /\ \A v \in Workers : work'[v] = work[v] \/ work'[v] = Rest
      BY <1>0, <1>4 DEF Put
    <3>2. QED
      BY <1>0, <2>2, <3>1 DEF Shape, index
  <2>3. QED
    BY <1>4, <2>1, <2>2 DEF Put
<1>5. ASSUME NEW h \in Analysts, NEW id \in Ids, NEW op \in Op, Read(h, id, op)
      PROVE  Shape'
  <2>1. UNCHANGED <<cases, ideal, made, work, active, line>> /\ cases[id] # None
    BY <1>5 DEF Read, index, table
  <2>2. \A y \in Analysts : hand'[y] = hand[y] \/ hand'[y].id = id
    BY <1>5 DEF Read, TypeOK
  <2>3. QED
    BY <2>1, <2>2 DEF Shape
<1>6. ASSUME NEW h \in Analysts, Save(h) PROVE Shape'
  <2> USE DEF SaveEffect
  <2>0. SaveEffect(h)
    BY <1>6, SaveDoes
  <2>1. UNCHANGED <<made, active, line>>
    BY <1>6 DEF Save, index
  <2>2. \A i \in Ids : (cases'[i] = None <=> cases[i] = None) /\ (ideal'[i] = None <=> ideal[i] = None)
    BY <2>0
  <2>3. \A y \in Analysts : hand'[y] # None => cases'[hand'[y].id] # None
    BY <2>0, <2>2, HandType DEF Shape
  <2>4. \A w \in Workers :
          /\ work'[w].at = work[w].at /\ work'[w].det = work[w].det /\ work'[w].id = work[w].id
          /\ work'[w].case = work[w].case
          /\ work[w].at = "rest" => work'[w] = work[w]
    BY <2>0
  <2>5. QED
    BY <2>1, <2>2, <2>3, <2>4, RefType DEF Shape
<1>7. ASSUME NEW h \in Analysts, Drop(h) PROVE Shape'
  BY <1>7 DEF Drop, TypeOK, Shape, index, table
<1>8. ASSUME NEW a \in Agents, CreateCase(a) PROVE Shape'
  <2> USE DEF CreateEffect
  <2>0. CreateEffect(a)
    BY <1>8, CreateDoes
  <2>1. UNCHANGED <<work, hand, active, line>>
    BY <1>8 DEF CreateCase, index
  <2>2. \A i \in Ids : /\ i > made' => cases'[i] = None
                       /\ cases'[i] = None <=> ideal'[i] = None
                       /\ cases[i] # None => cases'[i] # None
    BY <2>0 DEF Shape, Ids
  <2>3. \A i \in 1..made : i \in 1..made'
    BY <2>0
  <2>4. QED
    BY <2>1, <2>2, <2>3, RefType, HandType DEF Shape
<1>9. ASSUME NEW loaded \in BOOLEAN, NEW seeded \in BOOLEAN, Restart(loaded, seeded)
      PROVE  Shape'
  <2>1. UNCHANGED <<cases, ideal, made, line>> /\ \A h \in Analysts : hand'[h] = None
    BY <1>9 DEF Restart, table
  <2>2. \A w \in Workers : work'[w] = Rest
    BY <1>9 DEF Restart
  <2>3. \A a \in Agents : active'[a] # None => cases[active'[a].id] # None
    BY <1>9 DEF Restart, Seed, OpenOf, RefTo
  <2>4. QED
    BY <1>0, <2>1, <2>2, <2>3 DEF Shape
<1>10. CASE UNCHANGED <<cases, ideal, made, work, hand, active, line>>
  BY <1>10 DEF Shape
<1>11. QED
  BY <1>1, <1>2, <1>3, <1>4, <1>5, <1>6, <1>7, <1>8, <1>9, <1>10
     DEF Next, vars, SetStore, SetCache, Tick, index, table

-----------------------------------------------------------------------------
(* Copies *)

\* Every step either keeps the copies of a case current or marks them old.
LEMMA NextCurrent == ASSUME IInv, [Next]_vars PROVE Current'
<1> USE NoneAssumption DEF IInv
<1>0. work \in [Workers -> Jobs] /\ Rest.at = "rest"
  BY RestType DEF TypeOK
<1>1. ASSUME NEW w \in Workers, NEW d \in Detections, Gate(w, d) PROVE Current'
  <2>1. UNCHANGED <<cases, ideal, blurred, hand>>
    BY <1>1 DEF Gate, table
  <2>2. \A v \in Workers : work'[v].at = "put" => work'[v] = work[v]
    BY <1>0, <1>1 DEF Gate, Job
  <2>3. QED
    BY <2>1, <2>2 DEF Current
<1>2. ASSUME NEW w \in Workers, Raise(w) PROVE Current'
  <2>1. UNCHANGED <<cases, ideal, blurred, hand>>
    BY <1>2 DEF Raise, table
  <2>2. \A v \in Workers : work'[v].at = "put" => work'[v] = work[v]
    BY <1>0, <1>2 DEF Raise, Jobs
  <2>3. QED
    BY <2>1, <2>2 DEF Current
<1>3. ASSUME NEW w \in Workers, Add(w) PROVE Current'
  <2>1. UNCHANGED <<cases, ideal, blurred, hand>>
    BY <1>3 DEF Add
  <2>2. AddEffect(w)
    BY <1>3, AddDoes
  <2>3. \A v \in Workers \ {w} : work'[v].at # "put"
    BY <1>3, <2>2 DEF Add, AddEffect, Locked
  <2>4. cases[made + 1] = None \/ made + 1 \notin Ids
    <3>1. made \in Nat
      BY DEF TypeOK
    <3>2. QED
      BY <3>1 DEF Shape
  <2>5. IF cases[work'[w].id] = None THEN work'[w].case = NewCase(work'[w].det, work'[w].now)
        ELSE /\ work'[w].case = Folded(cases[work'[w].id], work'[w].det, work'[w].now)
             /\ cases[work'[w].id].status # "closed"
    BY <2>2, <2>4 DEF AddEffect
  <2>6. QED
    BY <2>1, <2>3, <2>5 DEF Current
<1>4. ASSUME NEW w \in Workers, Put(w) PROVE Current'
  <2>1. CASE Written(w)
    <3> DEFINE j == work[w]
    <3>1. PutEffect(w) /\ blurred' = IF j.stale THEN blurred \cup {j.id} ELSE blurred
      BY <1>4, <2>1, PutDoes DEF Written
    <3>2. ASSUME NEW i \in Ids \ blurred' PROVE cases'[i] = ideal'[i]
      <4>1. cases[i] = ideal[i]
        BY <3>1 DEF Current
      <4>2. CASE i # j.id
        BY <3>1, <4>1, <4>2 DEF PutEffect
      <4>3. CASE i = j.id
        <5>1. ~j.stale /\ cases'[i] = j.case /\ j.at = "put"
          BY <3>1, <4>3 DEF PutEffect
        <5>2. IF cases[i] = None THEN j.case = NewCase(j.det, j.now)
              ELSE j.case = Folded(cases[i], j.det, j.now)
          BY <4>3, <5>1 DEF Current
        <5>3. ideal'[i] = IF cases[i] = None THEN NewCase(j.det, j.now)
                          ELSE Folded(cases[i], j.det, j.now)
          BY <3>1, <4>1, <4>3 DEF PutEffect
        <5>4. QED
          BY <5>1, <5>2, <5>3
      <4>4. QED
        BY <4>2, <4>3
    <3>3. ASSUME NEW h \in Analysts, hand'[h] # None, ~hand'[h].stale
          PROVE  hand'[h].case = cases'[hand'[h].id]
      <4>1. hand[h] # None /\ ~hand[h].stale /\ hand[h].id # j.id /\ hand'[h].id = hand[h].id
            /\ hand'[h].case = hand[h].case /\ hand[h].id \in Ids
        BY <3>1, <3>3, HandType DEF PutEffect
      <4>2. QED
        BY <3>1, <4>1 DEF PutEffect, Current
    <3>4. \A v \in Workers : work'[v].at # "put"
      BY <1>0, <3>1 DEF PutEffect
    <3>5. QED
      BY <3>2, <3>3, <3>4 DEF Current
  <2>2. CASE UNCHANGED <<cases, ideal, blurred, hand, index>>
    <3>1. \A v \in Workers : work'[v].at = "put" => work'[v] = work[v]
      BY <1>0, <1>4 DEF Put
    <3>2. QED
      BY <2>2, <3>1 DEF Current
  <2>3. QED
    BY <1>4, <2>1, <2>2 DEF Put
<1>5. ASSUME NEW h \in Analysts, NEW id \in Ids, NEW op \in Op, Read(h, id, op)
      PROVE  Current'
  <2>1. UNCHANGED <<cases, ideal, blurred, work>>
    BY <1>5 DEF Read, table
  <2>2. \A y \in Analysts : hand'[y] = hand[y] \/ hand'[y].case = cases[hand'[y].id]
    BY <1>5 DEF Read, TypeOK
  <2>3. QED
    BY <2>1, <2>2 DEF Current
<1>6. ASSUME NEW h \in Analysts, Save(h) PROVE Current'
  <2> DEFINE x == hand[h]
  <2>1. SaveEffect(h) /\ blurred' = IF x.stale THEN blurred \cup {x.id} ELSE blurred
    BY <1>6, SaveDoes DEF Save
  <2>2. ASSUME NEW i \in Ids \ blurred' PROVE cases'[i] = ideal'[i]
    <3>1. cases[i] = ideal[i]
      BY <2>1 DEF Current
    <3>2. CASE i # x.id
      BY <2>1, <3>1, <3>2 DEF SaveEffect
    <3>3. CASE i = x.id
      <4>1. ~x.stale /\ x # None
        BY <2>1, <3>3 DEF SaveEffect
      <4>2. x.case = ideal[i]
        BY <3>1, <3>3, <4>1 DEF Current
      <4>3. QED
        BY <2>1, <3>3, <4>2 DEF SaveEffect
    <3>4. QED
      BY <3>2, <3>3
  <2>3. ASSUME NEW y \in Analysts, hand'[y] # None, ~hand'[y].stale
        PROVE  hand'[y].case = cases'[hand'[y].id]
    <3>1. /\ hand[y] # None /\ ~hand[y].stale /\ hand[y].id # x.id
          /\ hand'[y].id = hand[y].id /\ hand'[y].case = hand[y].case
      BY <2>1, <2>3 DEF SaveEffect
    <3>2. cases'[hand[y].id] = cases[hand[y].id]
      BY <2>1, <3>1, HandType DEF SaveEffect
    <3>3. QED
      BY <3>1, <3>2 DEF Current
  <2>4. ASSUME NEW w \in Workers, work'[w].at = "put", ~work'[w].stale
        PROVE  LET j == work'[w]
               IN  IF cases'[j.id] = None THEN j.case = NewCase(j.det, j.now)
                   ELSE j.case = Folded(cases'[j.id], j.det, j.now) /\ cases'[j.id].status # "closed"
    <3>1. /\ work[w].at = "put" /\ ~work[w].stale /\ work[w].id # x.id
          /\ work'[w].det = work[w].det /\ work'[w].now = work[w].now
          /\ work'[w].id = work[w].id /\ work'[w].case = work[w].case
      BY <2>1, <2>4 DEF SaveEffect
    <3>2. cases'[work[w].id] = cases[work[w].id]
      BY <2>1, <3>1, PutType DEF SaveEffect
    <3>3. QED
      BY <3>1, <3>2 DEF Current
  <2>5. QED
    BY <2>2, <2>3, <2>4 DEF Current
<1>7. ASSUME NEW h \in Analysts, Drop(h) PROVE Current'
  BY <1>7 DEF Drop, TypeOK, Current, table
<1>8. ASSUME NEW a \in Agents, CreateCase(a) PROVE Current'
  <2>1. CreateEffect(a) /\ UNCHANGED <<blurred, work, hand>>
    BY <1>8, CreateDoes DEF CreateCase
  <2>2. \A i \in Ids \ blurred : cases'[i] = ideal'[i]
    BY <2>1 DEF CreateEffect, Current
  <2>3. \A h \in Analysts : hand[h] # None => cases'[hand[h].id] = cases[hand[h].id]
    BY <2>1, HandType DEF CreateEffect, Shape
  <2>4. \A w \in Workers : work[w].at = "put" => cases'[work[w].id] = cases[work[w].id]
    BY <2>1, PutType DEF CreateEffect, Shape
  <2>5. QED
    BY <2>1, <2>2, <2>3, <2>4 DEF Current
<1>9. ASSUME NEW loaded \in BOOLEAN, NEW seeded \in BOOLEAN, Restart(loaded, seeded)
      PROVE  Current'
  BY <1>0, <1>9 DEF Restart, Current, table
<1>10. CASE UNCHANGED <<cases, ideal, blurred, work, hand>>
  BY <1>10 DEF Current
<1>11. QED
  BY <1>1, <1>2, <1>3, <1>4, <1>5, <1>6, <1>7, <1>8, <1>9, <1>10
     DEF Next, vars, SetStore, SetCache, Tick, table

-----------------------------------------------------------------------------
(* Detections *)

\* Detections only leave the queue for a worker, and a worker for good.
LEMMA DetsMove ==
  ASSUME IInv, [Next]_vars
  PROVE  /\ queue' \subseteq queue
         /\ \A w \in Workers : work'[w].det # work[w].det /\ work'[w].det # None =>
              /\ work'[w].det \in queue /\ work'[w].det \notin queue'
              /\ \A v \in Workers \ {w} : work'[v] = work[v]
<1> USE DEF IInv
<1>0. work \in [Workers -> Jobs] /\ Rest.det = None
  BY RestType DEF TypeOK
<1>1. ASSUME NEW w \in Workers, NEW d \in Detections, Gate(w, d)
      PROVE  /\ queue' \subseteq queue
             /\ \A y \in Workers : work'[y].det # work[y].det /\ work'[y].det # None =>
                  /\ work'[y].det \in queue /\ work'[y].det \notin queue'
                  /\ \A v \in Workers \ {y} : work'[v] = work[v]
  BY <1>0, <1>1 DEF Gate, Job
<1>2. ASSUME NEW w \in Workers, Raise(w)
      PROVE  queue' = queue /\ \A v \in Workers : work'[v].det \in {work[v].det, None}
  BY <1>0, <1>2 DEF Raise, Jobs
<1>3. ASSUME NEW w \in Workers, Add(w)
      PROVE  queue' = queue /\ \A v \in Workers : work'[v].det \in {work[v].det, None}
  BY <1>3, AddDoes DEF Add, AddEffect
<1>4. ASSUME NEW w \in Workers, Put(w)
      PROVE  queue' = queue /\ \A v \in Workers : work'[v].det \in {work[v].det, None}
  BY <1>0, <1>4 DEF Put
<1>5. ASSUME NEW h \in Analysts, Save(h)
      PROVE  queue' = queue /\ \A v \in Workers : work'[v].det \in {work[v].det, None}
  BY <1>5, SaveDoes DEF Save, SaveEffect
<1>6. ASSUME NEW loaded \in BOOLEAN, NEW seeded \in BOOLEAN, Restart(loaded, seeded)
      PROVE  queue' = queue /\ \A v \in Workers : work'[v].det \in {work[v].det, None}
  BY <1>0, <1>6 DEF Restart
<1>7. CASE UNCHANGED <<queue, work>>
  BY <1>7
<1>8. QED
  BY <1>1, <1>2, <1>3, <1>4, <1>5, <1>6, <1>7
     DEF Next, vars, SetStore, SetCache, Read, Drop, CreateCase, Tick

\* So what was apart from them stays so.
LEMMA ApartKept ==
  ASSUME IInv, [Next]_vars, NEW S, S \subseteq Detections, NEW W \in SUBSET Workers,
         S \cap queue = {}, \A w \in W : work[w].det \notin S
  PROVE  S \cap queue' = {} /\ \A w \in W : work'[w].det \notin S
<1>1. \A w \in W : work'[w].det = work[w].det \/ work'[w].det = None \/ work'[w].det \in queue
  BY DetsMove
<1>2. QED
  BY <1>1, DetsMove, NoneAssumption
\* Every step keeps what is yet to be raised out of the cases and their copies.
LEMMA NextOnce == ASSUME IInv, [Next]_vars PROVE Once'
<1> USE NoneAssumption DEF IInv
<1>0. work \in [Workers -> Jobs] /\ Rest.at = "rest" /\ Rest.det = None
  BY RestType DEF TypeOK
<1>a. ASSUME NEW w \in Workers PROVE work'[w].det \notin queue'
  <2>1. queue' \subseteq queue /\ None \notin queue
    BY DetsMove DEF TypeOK
  <2>2. work[w].det \notin queue
    BY DEF Once
  <2>3. \/ work'[w].det = work[w].det \/ work'[w].det = None \/ work'[w].det \notin queue'
    BY DetsMove
  <2>4. QED
    BY <2>1, <2>2, <2>3
<1>b. \A w, v \in Workers : work'[w].det = work'[v].det => w = v \/ work'[w].det = None
  <2>1. SUFFICES ASSUME NEW w \in Workers, NEW v \in Workers, w # v,
                        work'[w].det = work'[v].det, work'[w].det # None
                 PROVE  FALSE
    OBVIOUS
  <2>2. CASE work'[w].det = work[w].det /\ work'[v].det = work[v].det
    BY <2>1, <2>2 DEF Once
  <2>3. CASE work'[w].det # work[w].det
    <3>1. work'[w].det \in queue /\ work'[v] = work[v]
      BY <2>1, <2>3, DetsMove
    <3>2. QED
      BY <2>1, <3>1 DEF Once
  <2>4. CASE work'[v].det # work[v].det
    <3>1. work'[v].det \in queue /\ work'[w] = work[w]
      BY <2>1, <2>4, DetsMove
    <3>2. QED
      BY <2>1, <3>1 DEF Once
  <2>5. QED
    BY <2>2, <2>3, <2>4
<1>c. ASSUME NEW S, S \subseteq Detections, Apart(S)
      PROVE  S \cap queue' = {} /\ \A w \in Workers : work'[w].det \notin S
  BY <1>c, ApartKept DEF Apart
<1>d. \A i \in Ids : cases[i] # None =>
        /\ cases[i].dets \cap queue' = {} /\ \A w \in Workers : work'[w].det \notin cases[i].dets
  BY <1>c, CaseType DEF Once
<1>e. \A h \in Analysts : hand[h] # None =>
        /\ hand[h].case.dets \subseteq Detections
        /\ hand[h].case.dets \cap queue' = {}
        /\ \A w \in Workers : work'[w].det \notin hand[h].case.dets
  BY <1>c, HandType DEF Once, Case
<1>f. \A w \in Workers : work[w].at = "put" =>
        /\ work[w].case.dets \subseteq Detections /\ work[w].case.dets \cap queue' = {}
        /\ \A v \in Workers \ {w} : work'[v].det \notin work[w].case.dets
  <2>1. ASSUME NEW w \in Workers, work[w].at = "put"
        PROVE  work[w].case.dets \subseteq Detections
    BY <2>1, PutType DEF Case
  <2>2. ASSUME NEW w \in Workers, work[w].at = "put", NEW W, W = Workers \ {w}
        PROVE  /\ work[w].case.dets \cap queue' = {}
               /\ \A v \in W : work'[v].det \notin work[w].case.dets
    BY <2>1, <2>2, ApartKept DEF Once
  <2>3. QED
    BY <2>1, <2>2
<1>g. ASSUME \A i \in Ids : cases'[i] # None =>
               cases'[i].dets \cap queue' = {} /\ \A w \in Workers : work'[w].det \notin cases'[i].dets,
             \A h \in Analysts : hand'[h] # None =>
               /\ hand'[h].case.dets \cap queue' = {}
               /\ \A w \in Workers : work'[w].det \notin hand'[h].case.dets,
             \A w \in Workers : work'[w].at = "put" =>
               /\ work'[w].case.dets \cap queue' = {}
               /\ \A v \in Workers \ {w} : work'[v].det \notin work'[w].case.dets
      PROVE  Once'
  BY <1>a, <1>b, <1>g DEF Once, Apart
<1>h. ASSUME UNCHANGED <<cases, hand>>,
             \A w \in Workers : work'[w].at = "put" => work'[w] = work[w]
      PROVE  Once'
  BY <1>d, <1>e, <1>f, <1>g, <1>h
<1>1. ASSUME NEW w \in Workers, NEW d \in Detections, Gate(w, d) PROVE Once'
  <2>1. \A v \in Workers : work'[v].at = "put" => work'[v] = work[v]
    BY <1>0, <1>1 DEF Gate, Job
  <2>2. QED
    BY <1>1, <1>h, <2>1 DEF Gate, table
<1>2. ASSUME NEW w \in Workers, Raise(w) PROVE Once'
  <2>1. \A v \in Workers : work'[v].at = "put" => work'[v] = work[v]
    BY <1>0, <1>2 DEF Raise, Jobs
  <2>2. QED
    BY <1>2, <1>h, <2>1 DEF Raise, table
<1>3. ASSUME NEW w \in Workers, Add(w) PROVE Once'
  <2> DEFINE d == work[w].det
             a == Agent[d]
  <2>1. AddEffect(w) /\ UNCHANGED <<cases, hand, queue>> /\ work'[w].det = d /\ d \in Detections
    BY <1>3, AddDoes DEF Add, AddEffect
  <2>2. \A v \in Workers \ {w} : work'[v] = work[v]
    BY <2>1 DEF AddEffect
  <2>3. \/ work'[w].case.dets = {d}
        \/ \E i \in Ids : cases[i] # None /\ work'[w].case.dets = cases[i].dets \cup {d}
    <3>1. CASE work'[w].case = NewCase(d, work[w].now)
      BY <3>1 DEF NewCase
    <3>2. CASE work'[w].case # NewCase(d, work[w].now)
      <4> DEFINE i == active[a].id
      <4>1. i \in Ids /\ cases[i] # None /\ work'[w].case = Folded(cases[i], d, work[w].now)
        BY <2>1, <3>2 DEF AddEffect
      <4>2. work[w].now \in Time
        BY <2>1 DEF AddEffect
      <4>3. work'[w].case.dets = cases[i].dets \cup {d}
        <5>1. cases[i] \in Case
          BY <4>1, CaseType
        <5>2. \A now \in Time : Folded(cases[i], d, now).dets = cases[i].dets \cup {d}
          BY <2>1, <5>1, FoldedType
        <5>3. QED
          BY <4>1, <4>2, <5>2
      <4>4. QED
        BY <4>1, <4>3
    <3>3. QED
      BY <3>1, <3>2
  <2>4. d \notin queue' /\ \A v \in Workers \ {w} : work'[v].det # d
    BY <1>a, <1>b, <2>1
  <2>5. /\ work'[w].case.dets \cap queue' = {}
        /\ \A v \in Workers \ {w} : work'[v].det \notin work'[w].case.dets
    BY <1>d, <2>3, <2>4
  <2>6. QED
    BY <1>d, <1>e, <1>f, <1>g, <2>1, <2>2, <2>5
<1>4. ASSUME NEW w \in Workers, Put(w) PROVE Once'
  <2>1. CASE Written(w)
    <3>1. PutEffect(w) /\ work'[w].det = None
      BY <1>0, <1>4, <2>1, PutDoes DEF PutEffect
    <3>2. /\ work[w].at = "put" /\ work[w].case.dets \subseteq Detections
          /\ work[w].case.dets \cap queue' = {}
          /\ \A v \in Workers : work'[v].det \notin work[w].case.dets
      BY <1>f, <3>1 DEF PutEffect
    <3>3. \A i \in Ids : cases'[i] = cases[i] \/ cases'[i].dets = work[w].case.dets
      BY <3>1 DEF PutEffect
    <3>4. \A h \in Analysts : hand'[h] # None => hand[h] # None /\ hand'[h].case = hand[h].case
      BY <3>1 DEF PutEffect
    <3>5. \A v \in Workers : work'[v].at # "put"
      BY <1>0, <3>1 DEF PutEffect
    <3>6. QED
      BY <1>d, <1>e, <1>g, <3>2, <3>3, <3>4, <3>5
  <2>2. CASE UNCHANGED <<cases, ideal, blurred, hand, index>>
    <3>1. \A v \in Workers : work'[v].at = "put" => work'[v] = work[v]
      BY <1>0, <1>4 DEF Put
    <3>2. QED
      BY <1>h, <2>2, <3>1
  <2>3. QED
    BY <1>4, <2>1, <2>2 DEF Put
<1>5. ASSUME NEW h \in Analysts, NEW id \in Ids, NEW op \in Op, Read(h, id, op)
      PROVE  Once'
  <2>1. UNCHANGED <<cases, work>> /\ cases[id] # None
    BY <1>5 DEF Read, table
  <2>2. \A y \in Analysts : hand'[y] = hand[y] \/ hand'[y].case = cases[id]
    BY <1>5 DEF Read, TypeOK
  <2>3. QED
    BY <1>d, <1>e, <1>f, <1>g, <2>1, <2>2
<1>6. ASSUME NEW h \in Analysts, Save(h) PROVE Once'
  <2>1. SaveEffect(h)
    BY <1>6, SaveDoes
  <2>2. cases'[hand[h].id].dets = hand[h].case.dets /\ hand[h] # None
    BY <2>1, ApplyType DEF SaveEffect
  <2>3. \A i \in Ids : cases'[i] = cases[i] \/ cases'[i].dets = hand[h].case.dets
    BY <2>1, <2>2 DEF SaveEffect
  <2>4. \A y \in Analysts : hand'[y] # None => hand[y] # None /\ hand'[y].case = hand[y].case
    BY <2>1 DEF SaveEffect
  <2>5. \A w \in Workers : work'[w].at = work[w].at /\ work'[w].case = work[w].case
    BY <2>1 DEF SaveEffect
  <2>6. QED
    BY <1>d, <1>e, <1>f, <1>g, <2>2, <2>3, <2>4, <2>5
<1>7. ASSUME NEW h \in Analysts, Drop(h) PROVE Once'
  <2>1. UNCHANGED <<cases, work>> /\ \A y \in Analysts : hand'[y] = hand[y] \/ hand'[y] = None
    BY <1>7 DEF Drop, TypeOK, table
  <2>2. QED
    BY <1>d, <1>e, <1>f, <1>g, <2>1
<1>8. ASSUME NEW a \in Agents, CreateCase(a) PROVE Once'
  <2>1. UNCHANGED <<hand, work>> /\ \A i \in Ids : cases'[i] = cases[i] \/ cases'[i].dets = {}
    BY <1>8, CreateDoes DEF CreateCase, CreateEffect
  <2>2. QED
    BY <1>d, <1>e, <1>f, <1>g, <2>1
<1>9. ASSUME NEW loaded \in BOOLEAN, NEW seeded \in BOOLEAN, Restart(loaded, seeded)
      PROVE  Once'
  <2>1. /\ UNCHANGED cases /\ \A h \in Analysts : hand'[h] = None
        /\ \A w \in Workers : work'[w].at # "put"
    BY <1>0, <1>9 DEF Restart, table
  <2>2. QED
    BY <1>d, <1>g, <2>1
<1>10. CASE UNCHANGED <<cases, work, hand>>
  BY <1>h, <1>10
<1>11. QED
  BY <1>1, <1>2, <1>3, <1>4, <1>5, <1>6, <1>7, <1>8, <1>9, <1>10
     DEF Next, vars, SetStore, SetCache, Tick, table

-----------------------------------------------------------------------------
(* The index *)

\* Every step keeps the index at the line of its agent, or excuses the agent.
LEMMA NextLines == ASSUME IInv, [Next]_vars PROVE Lines'
<1> USE NoneAssumption DEF IInv
<1>0. /\ work \in [Workers -> Jobs] /\ Rest.at = "rest" /\ Rest.now = 0
      /\ clock \in Int /\ 0 <= clock
  BY RestType, BoundsAssumption DEF TypeOK, Time
<1>a. TypeOK'
  BY NextTypeOK
<1>b. /\ \A w \in Workers : work[w].now \in Int
      /\ \A i \in Ids : cases[i] # None => cases[i].updated \in Int
      /\ \A a \in Agents : /\ line[a] # None => line[a].id \in Ids /\ line[a].last \in Int
                           /\ active[a] # None => active[a].id \in Ids /\ active[a].last \in Int
  BY WorkType, CaseType, RefType, BoundsAssumption DEF Time
\* What holds of the cases, the index and the copies when only the jobs change.
<1>c. ASSUME UNCHANGED <<cases, hand, active, line, excused>>, clock <= clock', clock' \in Int,
             \A w \in Workers : /\ work'[w].now <= clock'
                                /\ work'[w].at = "put" => work'[w] = work[w]
      PROVE  Lines'
  <2>1. \A a \in Agents : line[a] # None => line[a].last <= clock'
    BY <1>0, <1>b, <1>c DEF Lines
  <2>2. QED
    BY <1>c, <2>1 DEF Lines
<1>1. ASSUME NEW w \in Workers, NEW d \in Detections, Gate(w, d) PROVE Lines'
  <2>1. \A v \in Workers : /\ work'[v].now <= clock
                           /\ work'[v].at = "put" => work'[v] = work[v]
    BY <1>0, <1>1 DEF Gate, Job, Lines
  <2>2. UNCHANGED <<cases, hand, active, line, excused, clock>>
    BY <1>1 DEF Gate, table, index
  <2>3. QED
    BY <1>0, <1>c, <2>1, <2>2
<1>2. ASSUME NEW w \in Workers, Raise(w) PROVE Lines'
  <2>1. \A v \in Workers : /\ work'[v].now <= clock
                           /\ work'[v].at = "put" => work'[v] = work[v]
    BY <1>0, <1>2 DEF Raise, Jobs, Lines
  <2>2. UNCHANGED <<cases, hand, active, line, excused, clock>>
    BY <1>2 DEF Raise, table, index
  <2>3. QED
    BY <1>0, <1>c, <2>1, <2>2
<1>3. ASSUME NEW w \in Workers, Add(w) PROVE Lines'
  <2> DEFINE d == work[w].det
             a == Agent[d]
             i == work'[w].id
  <2>1. /\ AddEffect(w) /\ UNCHANGED <<cases, hand, active, line, excused, clock>>
        /\ d \in Detections /\ a \in Agents /\ i \in Ids /\ work[w].now \in Time
        /\ work'[w].det = d /\ work'[w].now = work[w].now
    BY <1>3, AddDoes DEF Add, AddEffect, index
  <2>2. \A v \in Workers \ {w} : work'[v] = work[v]
    BY <2>1 DEF AddEffect
  <2>3. /\ work'[w].case.agent = a /\ work[w].now <= work'[w].case.updated
        /\ cases[i] # None => cases[i].agent = a
    <3>1. CASE work'[w].id = active[a].id /\ cases[i] # None /\ Joins(w)
               /\ work'[w].case = Folded(cases[i], d, work[w].now)
      <4>1. cases[i] \in Case /\ cases[i].agent = a /\ cases[i].updated \in Int
        <5>1. active[a] # None /\ a \in Agents
          BY <2>1, <3>1 DEF Joins
        <5>2. cases[i].agent = a
          BY <3>1, <5>1 DEF Lines
        <5>3. QED
          BY <1>b, <2>1, <3>1, <5>2, CaseType
      <4>2. d \notin cases[i].dets
        BY <2>1, <3>1 DEF Once, Apart
      <4>3. work'[w].case.updated = work[w].now
        BY <3>1, <4>1, <4>2 DEF Folded, Case
      <4>4. work'[w].case.agent = a
        BY <3>1, <4>1 DEF Folded, Case
      <4>5. work[w].now <= work'[w].case.updated
        BY <1>b, <4>3
      <4>6. QED
        BY <4>1, <4>4, <4>5
    <3>2. CASE made' = made + 1 /\ i = made' /\ work'[w].case = NewCase(d, work[w].now)
      <4>1. cases[i] = None
        BY <2>1, <3>2, BoundsAssumption DEF Shape, TypeOK, Ids
      <4>2. QED
        BY <1>b, <3>2, <4>1 DEF NewCase
    <3>3. QED
      BY <2>1, <3>1, <3>2 DEF AddEffect
  <2>4. QED
    BY <2>1, <2>2, <2>3 DEF Lines
<1>4. ASSUME NEW w \in Workers, Put(w) PROVE Lines'
  <2> DEFINE j == work[w]
             a == Agent[j.det]
  <2>1. CASE Written(w)
    <3>1. PutEffect(w) /\ clock' = clock
      BY <1>4, <2>1, PutDoes DEF Put
    <3>2. /\ j.at = "put" /\ j.id \in Ids /\ a \in Agents /\ j.case \in Case
          /\ cases'[j.id] = j.case /\ cases'[j.id] # None
          /\ \A i \in Ids \ {j.id} : cases'[i] = cases[i]
          /\ j.case.agent = a /\ j.now <= j.case.updated /\ j.now <= clock
          /\ cases[j.id] # None => cases[j.id].agent = a
      BY <3>1 DEF PutEffect, Lines
    <3>3. \A i \in Ids : cases[i] # None => cases'[i].agent = cases[i].agent
      BY <3>2
    <3>4. \A v \in Workers : work'[v].now <= clock' /\ work'[v].at # "put"
      BY <1>0, <3>1 DEF PutEffect, Lines
    <3>5. \A h \in Analysts : hand'[h] # None => hand'[h].case.agent = cases'[hand'[h].id].agent
      <4>1. SUFFICES ASSUME NEW h \in Analysts, hand'[h] # None
                     PROVE  hand'[h].case.agent = cases'[hand'[h].id].agent
        OBVIOUS
      <4>2. hand[h] # None /\ hand'[h].case = hand[h].case /\ hand'[h].id = hand[h].id
        BY <3>1, <4>1 DEF PutEffect
      <4>3. QED
        BY <3>3, <4>2, HandType DEF Lines, Shape
    <3>6. ASSUME NEW b \in Agents
          PROVE  /\ active'[b] # None => cases'[active'[b].id].agent = b
                 /\ line'[b] # None =>
                      LET l == line'[b]
                          c == cases'[l.id]
                      IN  /\ c.agent = b /\ l.last <= c.updated /\ l.last <= clock'
                          /\ ~excused'[b] => /\ active'[b] # None /\ active'[b].id = l.id
                                             /\ l.last <= active'[b].last
      <4>1. CASE b = a
        <5>1. active'[b] = [id |-> j.id, last |-> j.now] /\ line'[b] = active'[b]
          BY <3>1, <4>1 DEF PutEffect
        <5>2. active'[b].id = j.id /\ active'[b].last = j.now
          BY <5>1
        <5>3. active'[b] \in Ref
          BY <3>1, <5>1 DEF PutEffect, Ref
        <5>4. QED
          BY <1>b, <3>1, <3>2, <4>1, <5>1, <5>2, <5>3
      <4>2. CASE b # a
        <5>1. active'[b] = active[b] /\ line'[b] = line[b] /\ excused'[b] = excused[b]
          BY <3>1, <4>2 DEF PutEffect
        <5>2. active[b] # None => cases'[active[b].id] = cases[active[b].id]
          BY <1>b, <3>2, <4>2 DEF Lines, Shape
        <5>3. line[b] # None => cases'[line[b].id] = cases[line[b].id]
          BY <1>b, <3>2, <4>2 DEF Lines, Shape
        <5>4. QED
          BY <3>1, <5>1, <5>2, <5>3 DEF Lines
      <4>3. QED
        BY <4>1, <4>2
    <3>7. QED
      BY <3>4, <3>5, <3>6 DEF Lines
  <2>2. CASE UNCHANGED <<cases, ideal, blurred, hand, index>>
    <3>1. \A v \in Workers : /\ work'[v].now <= clock
                             /\ work'[v].at = "put" => work'[v] = work[v]
      BY <1>0, <1>4 DEF Put, Lines
    <3>2. QED
      BY <1>0, <1>4, <1>c, <2>2, <3>1 DEF Put, index
  <2>3. QED
    BY <1>4, <2>1, <2>2 DEF Put
<1>5. ASSUME NEW h \in Analysts, NEW id \in Ids, NEW op \in Op, Read(h, id, op)
      PROVE  Lines'
  <2>1. UNCHANGED <<cases, work, active, line, excused, clock>> /\ cases[id] # None
    BY <1>5 DEF Read, table, index
  <2>2. \A y \in Analysts : \/ hand'[y] = hand[y]
                            \/ hand'[y].case = cases[id] /\ hand'[y].id = id
    BY <1>5 DEF Read, TypeOK
  <2>3. QED
    BY <2>1, <2>2 DEF Lines
<1>6. ASSUME NEW h \in Analysts, Save(h) PROVE Lines'
  <2> DEFINE x == hand[h]
  <2>1. SaveEffect(h) /\ UNCHANGED <<clock, active, line, excused>>
    BY <1>6, SaveDoes DEF Save, index
  <2>2. cases'[x.id].agent = cases[x.id].agent /\ cases'[x.id].updated = clock
    BY <2>1, ApplyType DEF SaveEffect, Lines
  <2>3. \A i \in Ids : /\ cases[i] # None => cases'[i].agent = cases[i].agent
                       /\ cases'[i].updated = cases[i].updated \/ cases'[i].updated = clock
                       /\ cases'[i] # None => cases[i] # None
    BY <2>1, <2>2 DEF SaveEffect
  <2>4. \A y \in Analysts : hand'[y] # None => hand'[y].case.agent = cases'[hand'[y].id].agent
    <3>1. SUFFICES ASSUME NEW y \in Analysts, hand'[y] # None
                   PROVE  hand'[y].case.agent = cases'[hand'[y].id].agent
      OBVIOUS
    <3>2. hand[y] # None /\ hand'[y].case = hand[y].case /\ hand'[y].id = hand[y].id
      BY <2>1, <3>1 DEF SaveEffect
    <3>3. QED
      BY <2>3, <3>2, HandType DEF Lines, Shape
  <2>5. \A w \in Workers :
          /\ work'[w].at = work[w].at /\ work'[w].det = work[w].det /\ work'[w].now = work[w].now
          /\ work'[w].id = work[w].id /\ work'[w].case = work[w].case
    BY <2>1 DEF SaveEffect
  <2>6. \A w \in Workers : work[w].at = "put" /\ cases'[work[w].id] # None =>
          cases'[work[w].id].agent = work[w].case.agent
    BY <2>3, PutType DEF Lines
  <2>7. \A a \in Agents :
          /\ active[a] # None => cases'[active[a].id].agent = a
          /\ line[a] # None => /\ cases'[line[a].id].agent = a
                               /\ line[a].last <= cases'[line[a].id].updated
    BY <1>b, <2>3 DEF Lines, Shape
  <2>8. QED
    BY <2>1, <2>4, <2>5, <2>6, <2>7 DEF Lines
<1>7. ASSUME NEW h \in Analysts, Drop(h) PROVE Lines'
  <2>1. /\ UNCHANGED <<cases, work, active, line, excused, clock>>
        /\ \A y \in Analysts : hand'[y] = hand[y] \/ hand'[y] = None
    BY <1>7 DEF Drop, TypeOK, table, index
  <2>2. QED
    BY <2>1 DEF Lines
<1>8. ASSUME NEW a \in Agents, CreateCase(a) PROVE Lines'
  <2>1. CreateEffect(a) /\ UNCHANGED <<hand, work, active, line, excused, clock>>
    BY <1>8, CreateDoes DEF CreateCase, index
  <2>2. \A i \in Ids : cases[i] # None => cases'[i] = cases[i]
    BY <2>1 DEF CreateEffect
  <2>3. \A w \in Workers : work[w].at = "put" => cases'[work[w].id] = cases[work[w].id]
    BY <2>1, PutType DEF CreateEffect, Shape
  <2>4. \A h \in Analysts : hand[h] # None => cases'[hand[h].id] = cases[hand[h].id]
    BY <2>2, HandType DEF Shape
  <2>5. \A b \in Agents : /\ active[b] # None => cases'[active[b].id] = cases[active[b].id]
                          /\ line[b] # None => cases'[line[b].id] = cases[line[b].id]
    BY <1>b, <2>2 DEF Shape
  <2>6. QED
    BY <2>1, <2>3, <2>4, <2>5 DEF Lines
<1>9. ASSUME NEW loaded \in BOOLEAN, NEW seeded \in BOOLEAN, Restart(loaded, seeded)
      PROVE  Lines'
  <2>1. /\ UNCHANGED <<cases, clock, line>> /\ \A h \in Analysts : hand'[h] = None
        /\ \A w \in Workers : work'[w].now <= clock /\ work'[w].at # "put"
    BY <1>0, <1>9 DEF Restart, table
  <2>2. ASSUME NEW a \in Agents, active'[a] # None
        PROVE  /\ active'[a] \in Seed(a)
               /\ \E i \in OpenOf(a) : active'[a] = RefTo(i)
                                       /\ \A y \in OpenOf(a) : cases[y].updated <= cases[i].updated
    BY <1>9, <2>2 DEF Restart, Seed
  <2>3. ASSUME NEW a \in Agents, active'[a] # None PROVE cases[active'[a].id].agent = a
    <3>1. PICK i \in OpenOf(a) : active'[a] = RefTo(i)
      BY <2>2, <2>3
    <3>2. active'[a].id = i
      BY <3>1 DEF RefTo
    <3>3. QED
      BY <3>2 DEF OpenOf
  <2>4. ASSUME NEW a \in Agents, line[a] # None, ~excused'[a]
        PROVE  active'[a] # None /\ active'[a].id = line[a].id /\ line[a].last <= active'[a].last
    <3> DEFINE i == line[a].id
    <3>1. seeded /\ ~LineHidden(a)
      BY <1>9, <2>4 DEF Restart
    <3>2. i \in OpenOf(a) /\ \A y \in OpenOf(a) \ {i} : ~(cases[y].updated >= cases[i].updated)
      BY <1>b, <2>4, <3>1 DEF LineHidden, OpenOf, Lines, Shape
    <3>3. \A y \in OpenOf(a) : cases[y].updated \in Int
      BY <1>b DEF OpenOf
    <3>4. RefTo(i) \in Seed(a)
      BY <3>2, <3>3 DEF Seed
    <3>5. Seed(a) # {} => active'[a] \in Seed(a)
      BY <1>9, <3>1 DEF Restart
    <3>6. PICK y \in OpenOf(a) : /\ active'[a] = RefTo(y)
                                 /\ cases[i].updated <= cases[y].updated
      BY <3>2, <3>4, <3>5 DEF Seed
    <3>7. y = i
      BY <3>2, <3>3, <3>6
    <3>8. active'[a] = [id |-> i, last |-> cases[i].updated] /\ active'[a] \in Ref
      BY <3>2, <3>6, <3>7, CaseType DEF RefTo, Ref, OpenOf
    <3>9. QED
      BY <2>4, <3>8 DEF Lines
  <2>5. QED
    BY <2>1, <2>3, <2>4 DEF Lines
<1>10. CASE Tick
  <2>1. clock' = clock + 1 /\ UNCHANGED <<cases, hand, active, line, excused, work>>
    BY <1>10 DEF Tick, table, index
  <2>2. \A w \in Workers : work'[w].now <= clock'
    BY <1>0, <1>b, <2>1 DEF Lines
  <2>3. QED
    BY <1>0, <1>c, <2>1, <2>2
<1>11. CASE UNCHANGED <<cases, work, hand, active, line, excused, clock>>
  BY <1>11 DEF Lines
<1>12. QED
  BY <1>1, <1>2, <1>3, <1>4, <1>5, <1>6, <1>7, <1>8, <1>9, <1>10, <1>11
     DEF Next, vars, SetStore, SetCache, table, index

-----------------------------------------------------------------------------
(* What follows *)

\* Every step preserves the invariant.
LEMMA NextIInv == IInv /\ [Next]_vars => IInv'
<1> SUFFICES ASSUME IInv, [Next]_vars PROVE IInv'
  OBVIOUS
<1>1. TypeOK' /\ Shape' /\ Locked' /\ CacheFollows'
  BY NextTypeOK, NextShape, NextLocked, NextCache
<1>2. Spaced' /\ Current' /\ Once' /\ Lines'
  BY NextSpaced, NextCurrent, NextOnce, NextLines
<1>3. QED
  BY <1>1, <1>2 DEF IInv

\* The inductive invariant, for any number of consumers, analysts and editors: what
\* each holds and may be old, what the throttle remembers, and where the index points.
THEOREM Invariance == Spec => []IInv
<1>1. QED
  BY InitIInv, NextIInv, PTL DEF Spec

\* All variables keep their types: the cases in the database and in every copy, the
\* jobs of the consumers, the index of the correlator and the log of alerts.
THEOREM TypeCorrect == Spec => []TypeOK
<1>1. IInv => TypeOK
  BY DEF IInv
<1>2. QED
  BY <1>1, Invariance, PTL

\* What a consumer lets through the gate no item of the database silences, and what it
\* drops one does, but for items that are being edited or were not loaded.
LEMMA GateStep ==
  ASSUME IInv, [Next]_vars, NEW d \in queue \ queue'
  PROVE  LET passed == \E w \in Workers : work[w].at = "rest" /\ work'[w].det = d
         IN  IF passed THEN \A i \in quiet : Settled(i) => ~Matches(i, d)
             ELSE \E i \in Items : Matches(i, d) /\ (Settled(i) => i \in quiet)
<1> DEFINE passed == \E w \in Workers : work[w].at = "rest" /\ work'[w].det = d
<1>0. TypeOK /\ Shape /\ CacheFollows /\ d \in Detections
  BY DEF IInv, TypeOK
<1>1. PICK w \in Workers : Gate(w, d)
  <2>1. PICK w \in Workers, x \in Detections : Gate(w, x)
    BY <1>0
       DEF Next, vars, Raise, Add, Put, SetStore, SetCache, Read, Save, Drop, CreateCase,
                Restart, Tick
  <2>2. x = d
    BY <2>1 DEF Gate
  <2>3. QED
    BY <2>1, <2>2
<1>2. \A i \in Items : Settled(i) => (i \in quiet <=> i \in cache)
  BY <1>0 DEF CacheFollows, Settled
<1>3. CASE \E i \in cache : Matches(i, d)
  <2>1. work' = work
    BY <1>1, <1>3 DEF Gate
  <2>2. ~passed
    BY <1>0, <2>1, RestType, NoneAssumption DEF Shape
  <2>3. QED
    BY <1>0, <1>2, <1>3, <2>2 DEF TypeOK
<1>4. CASE ~\E i \in cache : Matches(i, d)
  <2>1. work' = [work EXCEPT ![w] = Job("raise", d, 0, 0, None, FALSE)] /\ work[w].at = "rest"
    BY <1>1, <1>4 DEF Gate
  <2>2. work'[w].det = d
    BY <1>0, <2>1 DEF TypeOK, Job
  <2>3. passed
    BY <2>1, <2>2
  <2>4. QED
    BY <1>0, <1>2, <1>4, <2>3 DEF TypeOK
<1>5. QED
  BY <1>3, <1>4

\* The gate follows the database: the cache is what it says of every item that nobody
\* is editing, that no two edited at once and that was loaded (api.go:463).
THEOREM GateFollowsStoreHolds == Spec => GateFollowsStore
<1>1. IInv /\ [Next]_vars =>
        [\A d \in queue \ queue' :
           LET passed == \E w \in Workers : work[w].at = "rest" /\ work'[w].det = d
           IN  IF passed THEN \A i \in quiet : Settled(i) => ~Matches(i, d)
               ELSE \E i \in Items : Matches(i, d) /\ (Settled(i) => i \in quiet)]_vars
  BY GateStep
<1>2. QED
  BY <1>1, Invariance, PTL DEF Spec, GateFollowsStore

\* A detection that is severe enough leaves Raise with a recent alert of its agent.
LEMMA RaiseAlerts ==
  ASSUME IInv, [Next]_vars, NEW w \in Workers, work[w].at = "raise", work'[w].at = "add",
         work[w].det \in Qualifies
  PROVE  \E i \in DOMAIN alerts'[Agent[work[w].det]] :
           clock - alerts'[Agent[work[w].det]][i] < Throttle
<1> DEFINE a == Agent[work[w].det]
<1>0. /\ TypeOK /\ Shape /\ Spaced /\ work \in [Workers -> Jobs]
      /\ clock \in Int /\ Throttle \in Nat \ {0}
  BY BoundsAssumption, DataAssumption DEF IInv, TypeOK, Time
<1>1. Raise(w)
  <2>1. ASSUME NEW v \in Workers, NEW d \in Detections, Gate(v, d) PROVE FALSE
    BY <1>0, <2>1 DEF Gate, Job
  <2>2. ASSUME NEW v \in Workers, Raise(v) PROVE v = w
    BY <1>0, <2>2 DEF Raise
  <2>3. ASSUME NEW v \in Workers, Add(v) PROVE FALSE
    <3>1. AddEffect(v)
      BY <2>3, AddDoes
    <3>2. QED
      BY <3>1 DEF AddEffect
  <2>4. ASSUME NEW v \in Workers, Put(v) PROVE FALSE
    BY <1>0, <2>4, RestType DEF Put
  <2>5. ASSUME NEW h \in Analysts, Save(h) PROVE FALSE
    <3>1. SaveEffect(h)
      BY <2>5, SaveDoes
    <3>2. QED
      BY <3>1 DEF SaveEffect
  <2>6. ASSUME NEW loaded \in BOOLEAN, NEW seeded \in BOOLEAN, Restart(loaded, seeded)
        PROVE  FALSE
    BY <2>6, RestType DEF Restart
  <2>7. QED
    BY <2>1, <2>2, <2>3, <2>4, <2>5, <2>6
       DEF Next, vars, SetStore, SetCache, Read, Drop, CreateCase, Tick
<1>2. work[w].det \in Detections /\ a \in Agents
  BY <1>0, DataAssumption DEF Shape
<1>3. Notify(work[w].det)
  BY <1>0, <1>1, RestType DEF Raise
<1>4. CASE Throttled(a)
  <2>1. alerts' = alerts /\ SentAfterGc[a] # Never /\ clock - SentAfterGc[a] < Throttle
    BY <1>3, <1>4 DEF Notify, Throttled
  <2>2. SentAfterGc[a] = sent[a]
    BY <1>0, <1>2, <2>1, GcType
  <2>3. PICK i \in DOMAIN alerts[a] : alerts[a][i] = sent[a]
    BY <1>0, <1>2, <2>1, <2>2 DEF Spaced
  <2>4. QED
    BY <2>1, <2>2, <2>3
<1>5. CASE ~Throttled(a)
  <2>1. alerts' = [alerts EXCEPT ![a] = Append(@, clock)]
    BY <1>3, <1>5 DEF Notify
  <2>2. alerts[a] \in Seq(Time) /\ clock \in Time
    BY <1>0, <1>2 DEF TypeOK
  <2>3. alerts'[a] = Append(alerts[a], clock)
    BY <1>0, <1>2, <2>1 DEF TypeOK
  <2>4. /\ Len(alerts[a]) + 1 \in DOMAIN alerts'[a]
        /\ alerts'[a][Len(alerts[a]) + 1] = clock
    BY <2>2, <2>3
  <2>5. QED
    BY <1>0, <2>4
<1>6. QED
  BY <1>4, <1>5

\* The alerts of an agent are a throttle apart, and none that is due is held back by
\* anything but one sent less than a throttle ago (notify.go:3).
THEOREM AlertsSpacedHolds == Spec => AlertsSpaced
<1> DEFINE A == /\ \A a \in Agents : \A i, j \in DOMAIN alerts'[a] :
                     i < j => alerts'[a][j] - alerts'[a][i] >= Throttle
                /\ \A w \in Workers :
                     work[w].at = "raise" /\ work'[w].at = "add" /\ work[w].det \in Qualifies =>
                       \E i \in DOMAIN alerts'[Agent[work[w].det]] :
                         clock - alerts'[Agent[work[w].det]][i] < Throttle
<1>1. IInv /\ [Next]_vars => A
  <2> SUFFICES ASSUME IInv, [Next]_vars PROVE A
    OBVIOUS
  <2>1. Spaced'
    BY NextSpaced
  <2>2. QED
    BY <2>1, RaiseAlerts DEF Spaced
<1>2. IInv /\ [Next]_vars => [A]_vars
  BY <1>1
<1>3. QED
  BY <1>2, Invariance, PTL DEF Spec, AlertsSpaced

\* A detection in time for the line of its agent is written to the case of that line.
LEMMA JoinsLine == ASSUME IInv, [Next]_vars PROVE SameIncident
<1> SUFFICES ASSUME NEW w \in Workers, work[w].at = "add", work'[w].at = "put",
                    line[Agent[work[w].det]] # None, ~excused[Agent[work[w].det]],
                    work[w].now - line[Agent[work[w].det]].last < Window,
                    cases[line[Agent[work[w].det]].id].status # "closed", faults' = faults
             PROVE  work'[w].id = line[Agent[work[w].det]].id
  BY DEF SameIncident
<1> DEFINE a == Agent[work[w].det]
<1>0. TypeOK /\ Lines /\ work \in [Workers -> Jobs]
  BY DEF IInv, TypeOK
<1>1. Add(w)
  <2>1. ASSUME NEW v \in Workers, NEW d \in Detections, Gate(v, d) PROVE FALSE
    BY <1>0, <2>1 DEF Gate, Job
  <2>2. ASSUME NEW v \in Workers, Raise(v) PROVE FALSE
    BY <1>0, <2>2, RestType DEF Raise, Jobs
  <2>3. ASSUME NEW v \in Workers, Add(v) PROVE v = w
    <3>1. AddEffect(v)
      BY <2>3, AddDoes
    <3>2. QED
      BY <3>1 DEF AddEffect
  <2>4. ASSUME NEW v \in Workers, Put(v) PROVE FALSE
    BY <1>0, <2>4, RestType DEF Put
  <2>5. ASSUME NEW h \in Analysts, Save(h) PROVE FALSE
    <3>1. SaveEffect(h)
      BY <2>5, SaveDoes
    <3>2. QED
      BY <3>1 DEF SaveEffect
  <2>6. ASSUME NEW loaded \in BOOLEAN, NEW seeded \in BOOLEAN, Restart(loaded, seeded)
        PROVE  FALSE
    BY <2>6, RestType DEF Restart
  <2>7. QED
    BY <2>1, <2>2, <2>3, <2>4, <2>5, <2>6
       DEF Next, vars, SetStore, SetCache, Read, Drop, CreateCase, Tick
<1>2. AddEffect(w) /\ a \in Agents
  BY <1>1, AddDoes DEF AddEffect
<1>3. /\ active[a] # None /\ active[a].id = line[a].id /\ line[a].last <= active[a].last
      /\ line[a].last \in Int /\ active[a].last \in Int /\ work[w].now \in Int /\ Window \in Int
  BY <1>0, <1>2, RefType, WorkType, BoundsAssumption, DataAssumption DEF Lines, Time
<1>4. Joins(w) /\ ~Closed(w)
  BY <1>3 DEF Joins, Closed
<1>5. QED
  BY <1>2, <1>3, <1>4 DEF AddEffect

\* A closed case takes no detection that no old copy brings in.
LEMMA ClosedKept ==
  ASSUME IInv, [Next]_vars, NEW i \in Ids \ blurred', cases[i] # None,
         cases[i].status = "closed"
  PROVE  cases'[i].dets = cases[i].dets
<1>0. TypeOK /\ Current
  BY DEF IInv
<1>1. ASSUME NEW w \in Workers, Put(w) PROVE cases'[i].dets = cases[i].dets
  <2>1. CASE Written(w)
    <3>1. PutEffect(w) /\ (work[w].stale => work[w].id \in blurred')
      BY <1>1, <2>1, PutDoes DEF Written
    <3>2. work[w].id # i
      BY <1>0, <3>1 DEF PutEffect, Current
    <3>3. QED
      BY <3>1, <3>2 DEF PutEffect
  <2>2. CASE UNCHANGED cases
    BY <2>2
  <2>3. QED
    BY <1>1, <2>1, <2>2 DEF Put
<1>2. ASSUME NEW h \in Analysts, Save(h) PROVE cases'[i].dets = cases[i].dets
  <2>1. SaveEffect(h) /\ (hand[h].stale => hand[h].id \in blurred')
    BY <1>2, SaveDoes DEF Save
  <2>2. CASE hand[h].id = i
    <3>1. hand[h].case = cases[i]
      BY <1>0, <2>1, <2>2 DEF SaveEffect, Current
    <3>2. cases'[i].dets = hand[h].case.dets
      BY <1>0, <2>1, <2>2, ApplyType DEF SaveEffect
    <3>3. QED
      BY <3>1, <3>2
  <2>3. CASE hand[h].id # i
    BY <2>1, <2>3 DEF SaveEffect
  <2>4. QED
    BY <2>2, <2>3
<1>3. ASSUME NEW a \in Agents, CreateCase(a) PROVE cases'[i].dets = cases[i].dets
  BY <1>3, CreateDoes DEF CreateEffect
<1>4. QED
  BY <1>1, <1>2, <1>3
     DEF Next, vars, Gate, Raise, Add, SetStore, SetCache, Read, Drop, Restart, Tick,
         table

\* A case holds what it would if every change were atomic, a closed one absorbs
\* nothing, and what belongs together shares one, also after a restart (cases.go:45).
THEOREM CasesAsAtomicHolds == Spec => CasesAsAtomic
<1> DEFINE A == /\ SameIncident
                /\ \A i \in Ids \ blurred' :
                     /\ cases'[i] = ideal'[i]
                     /\ cases[i] # None /\ cases[i].status = "closed" =>
                          cases'[i].dets = cases[i].dets
<1>1. IInv /\ [Next]_vars => A
  <2> SUFFICES ASSUME IInv, [Next]_vars PROVE A
    OBVIOUS
  <2>1. Current'
    BY NextCurrent
  <2>2. \A i \in Ids \ blurred' : cases'[i] = ideal'[i]
    BY <2>1 DEF Current
  <2>3. QED
    BY <2>2, JoinsLine, ClosedKept
<1>2. IInv /\ [Next]_vars => [A]_vars
  BY <1>1
<1>3. QED
  BY <1>2, Invariance, PTL DEF Spec, CasesAsAtomic
=============================================================================
