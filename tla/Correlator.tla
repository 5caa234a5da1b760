----------------------------- MODULE Correlator -----------------------------
(***************************************************************************)
(* The windowed correlation engine (server/internal/behavior/behavior.go)  *)
(* as the correlator tier drives it: every call of Observe takes the lock, *)
(* may collect garbage, moves the window of one entity, the outbound       *)
(* volume of one agent or both, and returns the detections that fire.      *)
(*                                                                         *)
(* The engine's clock is the timestamp of the event in hand.  Agents stamp *)
(* events with their own clocks and replay their spools, so timestamps     *)
(* need not ascend; "late" counts the events that arrive behind a younger  *)
(* one, and the promises of the engine are for the time before the first.  *)
(*                                                                         *)
(* A window is the set of its entries; an entry is a timestamp and the     *)
(* number of the call that appended it, which is also its place.           *)
(***************************************************************************)
EXTENDS Integers, FiniteSets, FiniteSetsExt, SequencesExt

CONSTANTS
  Keys,         \* entities: <<kind, agent, source address / domain / serial>>
  Entities,     \* source addresses, domains, serials
  Agents,       \* agents that send outbound traffic
  Count,        \* per kind: bruteForceCount, usbCopyCount, beaconCount
  Window,       \* per kind: bruteForceWindow, usbCopyWindow, beaconWindow
  ExfilBytes, ExfilWindow,
  Refire,       \* no second detection of one key within this time
  GcEvery,      \* the throttle of gc: one minute
  Sizes,        \* outbound volumes of one event
  MaxTime,      \* bound: timestamps are 0..MaxTime
  First,        \* bound: the timestamp of the first event, for only
                \* differences matter
  MaxEvents,    \* bound: events observed
  MaxLate,      \* bound: events behind a younger one
  None

Kinds == {"bf", "usbcopy", "beacon"}

ASSUME KeysAssumption ==
  /\ Keys \subseteq Kinds \X Agents \X Entities
  /\ Count \in [Kinds -> Nat \ {0}] /\ Window \in [Kinds -> Nat \ {0}]
  /\ None \notin Keys
ASSUME TimesAssumption ==
  /\ ExfilWindow \in Nat \ {0} /\ Refire \in Nat \ {0} /\ GcEvery \in Nat \ {0}
  /\ ExfilBytes \in Nat \ {0} /\ Sizes \subseteq Nat \ {0}
ASSUME BoundsAssumption ==
  /\ MaxTime \in Nat /\ First \in 0..MaxTime /\ MaxEvents \in Nat /\ MaxLate \in Nat

VARIABLES
  seen,      \* failedAuth, usbWrites and conns: the window of each key
  egress,    \* per agent: the start of its volume window and the bytes in it
  fired,     \* per key: when it last fired
  lastGC,
  out,       \* what the last Observe returned: the keys that fired
  events,    \* history: how many events were observed
  clock,     \* history: the youngest timestamp observed
  late,      \* history: events that were behind it
  obs, sent, \* history: every entry of each key; every transfer of each agent
  alarms     \* history: every detection: key and time

engine  == <<seen, egress, fired, lastGC>>
history == <<events, clock, late, obs, sent, alarms>>
vars    == <<engine, out, history>>

Time   == 0..MaxTime
Never  == -1                      \* the zero time, an absent map entry
Entry  == [at : 1..MaxEvents, ts : Time]
Volume == [start : Time \cup {Never}, bytes : Nat]
Closed == [start |-> Never, bytes |-> 0]

ExfilKey(a)  == <<"exfil", a>>
ExfilKeys    == {ExfilKey(a) : a \in Agents}
AllKeys      == Keys \cup ExfilKeys

TypeOK ==
  /\ seen \in [Keys -> SUBSET Entry]
  /\ egress \in [Agents -> Volume]
  /\ fired \in [AllKeys -> Time \cup {Never}]
  /\ lastGC \in Time \cup {Never}
  /\ out \subseteq AllKeys
  /\ events \in 0..MaxEvents
  /\ clock \in Time \cup {Never} /\ late \in 0..MaxLate
  /\ obs \in [Keys -> SUBSET Entry]
  /\ sent \in [Agents -> SUBSET [at : 1..MaxEvents, ts : Time, bytes : Sizes]]
  /\ alarms \subseteq AllKeys \X Time

Init ==
  /\ seen = [k \in Keys |-> {}]
  /\ egress = [a \in Agents |-> Closed]
  /\ fired = [k \in AllKeys |-> Never]
  /\ lastGC = Never
  /\ out = {}
  /\ events = 0 /\ clock = Never /\ late = 0
  /\ obs = [k \in Keys |-> {}]
  /\ sent = [a \in Agents |-> {}]
  /\ alarms = {}

-----------------------------------------------------------------------------
(* Windows *)

\* Variant: nothing is pruned.
RecentAll(s, t, w) == s

\* prune: the entries after the cutoff, those of the future included.
Recent(s, t, w) == {x \in s : x.ts > t - w}

\* The squares of the gaps vary by less than a quarter of the squared mean.
Evenly(gaps) ==
  LET n   == Len(gaps)
      sum == FoldSeq(LAMBDA g, acc : g + acc, 0, gaps)
      sqs == FoldSeq(LAMBDA g, acc : g * g + acc, 0, gaps)
  IN  sum > 0 /\ 4 * (n * sqs - sum * sum) < sum * sum

\* regular: at least four arrivals, in the order they were appended.
Regular(s) ==
  LET ts == [i \in 1..Cardinality(s) |->
               SetToSortSeq(s, LAMBDA x, y : x.at < y.at)[i].ts]
  IN  Len(ts) >= 4 /\ Evenly([i \in 1..(Len(ts) - 1) |-> ts[i + 1] - ts[i]])

Kind(k) == k[1]

\* A window that is full, and evenly spaced if that is what the kind is about.
Full(k, s) ==
  /\ Cardinality(s) >= Count[Kind(k)]
  /\ Kind(k) = "beacon" => Regular(s)

-----------------------------------------------------------------------------
(* gc *)

GcDue(t) == lastGC = Never \/ t - lastGC >= GcEvery

\* The windows, volumes and firing times that survive.
SeenAfterGc(t) ==
  [k \in Keys |-> IF GcDue(t) /\ Recent(seen[k], t, Window[Kind(k)]) = {}
                  THEN {} ELSE seen[k]]

EgressAfterGc(t) ==
  [a \in Agents |-> IF GcDue(t) /\ t - egress[a].start > ExfilWindow
                    THEN Closed ELSE egress[a]]

\* Variant: gc starts the firing times afresh.
FiredAfterGcEager(t) ==
  [k \in AllKeys |-> IF GcDue(t) THEN Never ELSE fired[k]]

FiredAfterGc(t) ==
  [k \in AllKeys |-> IF GcDue(t) /\ t - fired[k] > Refire
                     THEN Never ELSE fired[k]]

CanFire(k, t) ==
  LET last == FiredAfterGc(t)[k] IN last = Never \/ t - last >= Refire

-----------------------------------------------------------------------------
(* Observe *)

\* The entry of an event stamped t.
Stamp(t) == [at |-> events + 1, ts |-> t]

\* The windows after an event of key k (or of none) at t.
SeenAfter(k, t) ==
  [x \in Keys |->
     IF x = k THEN Recent(SeenAfterGc(t)[x], t, Window[Kind(x)]) \cup {Stamp(t)}
     ELSE SeenAfterGc(t)[x]]

\* Variant: the volume window is never renewed.
MovedNever(v, b, t) ==
  IF v.start = Never THEN [start |-> t, bytes |-> b]
  ELSE [v EXCEPT !.bytes = @ + b]

\* The volume window renewed when it is older than exfilWindow, plus b bytes.
Moved(v, b, t) ==
  IF v.start = Never \/ t - v.start > ExfilWindow
  THEN [start |-> t, bytes |-> b]
  ELSE [v EXCEPT !.bytes = @ + b]

\* Moving the volume window of agent a, if the event carries bytes.
EgressAfter(a, b, t) ==
  IF b = 0 THEN EgressAfterGc(t)
  ELSE [EgressAfterGc(t) EXCEPT ![a] = Moved(@, b, t)]

\* Is this an event the engine looks at: outbound bytes come with network
\* events, which move a beacon's window or none.
Shape(k, a, b) ==
  /\ k # None => k[2] = a
  /\ b > 0 /\ k # None => Kind(k) = "beacon"

\* One event of agent a, of key k or none, with b outbound bytes, stamped t.
Observe(k, a, b, t) ==
  /\ events < MaxEvents /\ Shape(k, a, b)
  /\ events = 0 => t = First
  /\ events' = events + 1
  /\ seen' = SeenAfter(k, t)
  /\ egress' = EgressAfter(a, b, t)
  /\ LET full == {x \in {k} \ {None} : Full(x, seen'[x])}
                   \cup {x \in {ExfilKey(a)} :
                           b > 0 /\ egress'[a].bytes >= ExfilBytes}
     IN  out' = {x \in full : CanFire(x, t)}
  /\ fired' = [x \in AllKeys |-> IF x \in out' THEN t ELSE FiredAfterGc(t)[x]]
  /\ lastGC' = IF GcDue(t) THEN t ELSE lastGC
  /\ clock' = IF t > clock THEN t ELSE clock
  /\ late' = IF t < clock THEN late + 1 ELSE late
  /\ late' <= MaxLate
  /\ obs' = [x \in Keys |-> IF x = k THEN obs[x] \cup {Stamp(t)} ELSE obs[x]]
  /\ sent' = [x \in Agents |->
                IF x = a /\ b > 0
                THEN sent[x] \cup {[at |-> events', ts |-> t, bytes |-> b]}
                ELSE sent[x]]
  /\ alarms' = alarms \cup (out' \X {t})

Next ==
  \E k \in Keys \cup {None}, a \in Agents, b \in Sizes \cup {0}, t \in Time :
    Observe(k, a, b, t)

Spec == Init /\ [][Next]_vars
-----------------------------------------------------------------------------
(* Properties *)

InOrder == late = 0

\* The arrivals stamped less than w before t, or after it.
Within(s, t, w) == {x \in s : t - x.ts < w}

\* The engine fires exactly when a sliding window over everything it was ever
\* shown is full and it has not fired for the key within refire: neither gc nor
\* the pruning of windows nor the forgetting of firing times is ever felt.
\* "gc evicts windows/keys that can no longer contribute" (behavior.go:128).
FiresExactly ==
  [][\A k \in Keys : InOrder' =>
       LET s == Within(obs'[k], clock', Window[Kind(k)])
       IN  k \in out' <=>
             /\ obs'[k] # obs[k]
             /\ Full(k, s)
             /\ \A t \in Time : <<k, t>> \in alarms => clock' - t >= Refire]_vars

\* In whatever order events arrive, a detection counts real arrivals, each once:
\* as many as its rule asks for were stamped after the cutoff of the event that
\* fired it.  (An event that was delivered twice has arrived twice.)
CountsReal ==
  [][\A k \in Keys : \A t \in Time :
       <<k, t>> \in alarms' \ alarms =>
         Cardinality(Within(obs'[k], t, Window[Kind(k)])) >= Count[Kind(k)]]_vars

\* The bytes of the transfer numbered n, of those up to it, and of all of S.
BytesAt(S, n) == IF \E x \in S : x.at = n THEN (CHOOSE x \in S : x.at = n).bytes ELSE 0
UpTo(S) ==
  LET sum[n \in 0..MaxEvents] == IF n = 0 THEN 0 ELSE sum[n - 1] + BytesAt(S, n)
  IN  sum
SumOf(S) == UpTo(S)[MaxEvents]

\* "N MB sent outbound within 5m": the bytes of an exfiltration detection were
\* all sent within one exfilWindow.
ExfilWithinWindow ==
  [][\A a \in Agents : InOrder' /\ ExfilKey(a) \in out' =>
       LET recent == {x \in sent'[a] : clock' - x.ts <= ExfilWindow}
       IN  SumOf(recent) >= ExfilBytes]_vars

\* The maps are bounded by the active entities: a window that is kept has an
\* entry that was inside it not longer than one gc interval ago, and a firing
\* time or volume window is not kept much longer than it is of use.
BoundedByActive ==
  InOrder =>
    /\ \A k \in Keys : seen[k] # {} =>
         \E x \in seen[k] : x.ts > clock - GcEvery - Window[Kind(k)]
    /\ \A x \in AllKeys : fired[x] # Never => clock - fired[x] < Refire + GcEvery
    /\ \A a \in Agents : egress[a] # Closed =>
         clock - egress[a].start < ExfilWindow + GcEvery

\* The parts of the inductive invariant of the proofs.

\* A window has nothing but arrivals of its key, numbered up to the present.
SeenIsObserved ==
  \A k \in Keys : /\ seen[k] \subseteq obs[k]
                  /\ IsFiniteSet(obs[k])
                  /\ \A x \in obs[k] : x.at <= events

\* While events are in order, a window has all that can still count, and the
\* latest firing is remembered for as long as it suppresses others.
KeepsWhatCounts ==
  InOrder =>
    \A k \in Keys : \A x \in obs[k] :
      /\ x.ts <= clock
      /\ clock - x.ts < Window[Kind(k)] => x \in seen[k]

RemembersFirings ==
  InOrder =>
    \A k \in AllKeys :
      /\ fired[k] # Never => <<k, fired[k]>> \in alarms
      /\ \A t \in Time : <<k, t>> \in alarms => t <= clock
      /\ \A t \in Time : <<k, t>> \in alarms /\ clock - t < Refire =>
           fired[k] # Never /\ fired[k] >= t

\* What was left at the last gc, or came after it.
Swept ==
  InOrder =>
    /\ lastGC <= clock /\ clock - lastGC < GcEvery
    /\ \A k \in Keys : seen[k] # {} =>
         \E x \in seen[k] : x.ts > lastGC - Window[Kind(k)]
    /\ \A k \in AllKeys : fired[k] # Never => lastGC - fired[k] <= Refire
    /\ \A a \in Agents : egress[a] # Closed => lastGC - egress[a].start <= ExfilWindow

\* Transfers have numbers of their own, up to the present.
SentIsNumbered ==
  \A a \in Agents : \A x, y \in sent[a] : x.at <= events /\ (x.at = y.at => x = y)

\* While events are in order, the bytes of a volume window were sent since its start.
VolumeIsSent ==
  InOrder =>
    \A a \in Agents : egress[a].start # Never =>
      /\ egress[a].start <= clock
      /\ egress[a].bytes <= SumOf({x \in sent[a] : x.ts >= egress[a].start})

IInv ==
  /\ TypeOK /\ SeenIsObserved /\ KeepsWhatCounts /\ RemembersFirings /\ Swept
  /\ SentIsNumbered /\ VolumeIsSent
=============================================================================
