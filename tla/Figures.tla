------------------------------- MODULE Figures -------------------------------
(***************************************************************************)
(* What the dashboard computes from the rows it polls: the network page's  *)
(* destinations and upload curve (app/(app)/internet/page.tsx), the        *)
(* overview's priority detections (app/(app)/page.tsx), the kill chain of  *)
(* a finding (components/mitre.tsx, lib/mitre.ts); and the number of a     *)
(* metric, which counts up to a new value instead of jumping to it         *)
(* (components/metric.tsx).                                                *)
(*                                                                         *)
(* Rows come one by one, the newest first, and leave when the read that    *)
(* brought them no longer reaches them or when they are closed.            *)
(***************************************************************************)
EXTENDS Lists, Functions

CONSTANTS
  Flows,       \* kinds of connection: direction, category, where to, bytes up
  Techniques,  \* ids the server may send
  Tactic,      \* the table of techniques: the stage of each one listed
  Parent,      \* of a sub-technique its technique, else itself
  Stages,      \* how many stages the kill chain has
  Ranks,       \* how many severities there are, the gravest the highest
  Window,      \* how many rows a read returns
  Buckets, Top, Around,   \* points of the curve, rows shown, stages of context
  None, MaxMoves

VARIABLES
  at,      \* the page
  data,    \* its rows, the newest first
  calm,    \* does the operator prefer reduced motion?
  shown,   \* the number the metric shows
  from,    \* and the one it last came to rest at
  frame,   \* the value it is on its way to, if any
  moves

vars == <<at, data, calm, shown, from, frame, moves>>

Pages == {"network", "overview", "finding"}
\* A finding has techniques, and may name a stage itself.
Kinds == [network |-> Flows, overview |-> 1..Ranks, finding |-> Techniques \cup 1..Stages]

TypeOK ==
  /\ at \in Pages /\ data \in Seq(Kinds[at]) /\ Len(data) <= Window
  /\ calm \in BOOLEAN /\ {shown, from} \subseteq 0..Window
  /\ frame \in 0..Window \cup {None} /\ moves \in 0..MaxMoves

-----------------------------------------------------------------------------
(* The network page *)

\* A peer is known by its domain, else by its address without the port.
HostOf(f) == IF f.remote = None THEN None ELSE f.remote.host
Named(f)  == IF f.domain # None THEN f.domain
             ELSE IF HostOf(f) # None THEN HostOf(f) ELSE "unknown"

\* The bytes up of some rows, and of all.
Up(rows) == Sum([i \in DOMAIN data |-> IF i \in rows THEN data[i].out ELSE 0])
TotalOut == Up(DOMAIN data)

\* Mutant: rounded down, and never to nothing.
SizeDown(n) == IF n < Buckets THEN 1 ELSE n \div Buckets

\* Rows to a point of the curve.
Size(n) == IF n = 0 THEN 1 ELSE (n + Buckets - 1) \div Buckets

\* The curve, oldest first; a single point is no curve.
Curve ==
  LET n == Len(data)
      points == (n + Size(n) - 1) \div Size(n)
      of(k) == {i \in 1..n : (n - i) \div Size(n) = k - 1}
  IN  IF points > 1 THEN [k \in 1..points |-> Up(of(k))] ELSE <<0, 0>>

\* Outbound connections to outside, and those to one peer: how many, and the bytes up.
Outward == {i \in DOMAIN data : ~data[i].inbound /\ ~data[i].internal}
To(p)   == {i \in Outward : Named(data[i]) = p}
HitCount(p) == Cardinality(To(p))
Out(p)  == Up(To(p))

\* Each peer's first row, at which it is listed, and a figure over the peers listed.
Heads == {i \in Outward : \A j \in Outward : Named(data[j]) = Named(data[i]) => i <= j}
Overall(f) == Sum([i \in DOMAIN data |-> IF i \in Heads THEN f[i] ELSE 0])

-----------------------------------------------------------------------------
(* The overview *)

\* Rows of the priority detections: by severity, then the newest, no more than Top.
Above(i, j) == data[i] > data[j] \/ (data[i] = data[j] /\ i < j)
Dets == {i \in DOMAIN data : Cardinality({j \in DOMAIN data : Above(j, i)}) < Top}

-----------------------------------------------------------------------------
(* The kill chain *)

\* A technique that is not listed is taken for its parent.
TechniqueTactic(t) ==
  IF t \in DOMAIN Tactic THEN Tactic[t]
  ELSE IF Parent[t] \in DOMAIN Tactic THEN Tactic[Parent[t]] ELSE None

Observed ==
  ({TechniqueTactic(t) : t \in Range(data) \cap Techniques} \ {None})
  \cup (Range(data) \cap 1..Stages)

\* The strip, from the first stage observed to the last and a little context.
Strip ==
  IF Observed = {} THEN {}
  ELSE {s \in 1..Stages : s >= Least(Observed) - Around /\ s <= Most(Observed) + Around}

-----------------------------------------------------------------------------
(* The metric *)

Value == Len(data)

\* The effect of a new target: an animation under way is dropped where it is, and
\* the next sets out from where the last one came to rest.
CountUp(to) ==
  IF at = "finding" \/ to = Value THEN UNCHANGED <<shown, from, frame>>
  ELSE IF to = from THEN frame' = None /\ UNCHANGED <<shown, from>>
  ELSE IF calm THEN shown' = to /\ from' = to /\ frame' = None
  ELSE frame' = to /\ UNCHANGED <<shown, from>>

Between(a, b) == {n \in 0..Window : (a <= n /\ n <= b) \/ (b <= n /\ n <= a)}

\* An animation frame: somewhere on the way.
Frame ==
  /\ frame # None /\ shown' \in Between(from, frame) \ {shown}
  /\ UNCHANGED <<at, data, calm, from, frame, moves>>

\* The last frame.
LastFrame ==
  /\ frame # None /\ shown' = frame /\ from' = frame /\ frame' = None
  /\ UNCHANGED <<at, data, calm, moves>>

-----------------------------------------------------------------------------
Init ==
  /\ at \in Pages /\ data = <<>> /\ calm \in BOOLEAN
  /\ shown = 0 /\ from = 0 /\ frame = None /\ moves = 0

Renders(rows) ==
  /\ moves < MaxMoves /\ moves' = moves + 1
  /\ data' = rows /\ CountUp(Len(rows)) /\ UNCHANGED <<at, calm>>

Cut(rows) == IF Len(rows) > Window THEN SubSeq(rows, 1, Window) ELSE rows

Arrive(x) ==
  /\ at = "finding" /\ x \in 1..Stages => Range(data) \cap 1..Stages = {}
  /\ Renders(Cut(<<x>> \o data))

Without(i) == SubSeq(data, 1, i - 1) \o SubSeq(data, i + 1, Len(data))

\* One that was out of reach may come in its place.
Leave(i) ==
  /\ i \in DOMAIN data
  /\ \/ Renders(Without(i))
     \/ Len(data) = Window /\ \E x \in Kinds[at] : Renders(Append(Without(i), x))

Next ==
  \/ \E x \in Kinds[at] : Arrive(x)
  \/ \E i \in 1..Window : Leave(i)
  \/ Frame \/ LastFrame

Spec == Init /\ [][Next]_vars

-----------------------------------------------------------------------------
(* Properties *)

\* A metric at rest shows its value, unless that is back where it had rested before.
Rested ==
  at # "finding" => IF frame = None THEN shown = Value \/ from = Value ELSE frame = Value

\* Whatever rows come and go, what one page shows of them agrees: the points of the
\* curve are no more than there is room for and add up to the total beside it, each
\* outward connection counts for one peer, a detection left out is no graver than
\* one shown, the strip has every stage observed and starts and ends near one, and
\* metrics are at rest where they should be.
FiguresAgree ==
  /\ at = "network" =>
       /\ Len(Curve) <= Buckets
       /\ Len(data) > 1 => Sum(Curve) = TotalOut
       /\ Overall([i \in Heads |-> HitCount(Named(data[i]))]) = Cardinality(Outward)
       /\ Overall([i \in Heads |-> Out(Named(data[i]))]) = Up(Outward)
       /\ Up(Outward) <= TotalOut
  /\ at = "overview" => \A i \in Dets, j \in DOMAIN data \ Dets : data[i] >= data[j]
  /\ at = "finding" =>
       /\ Observed \subseteq Strip
       /\ \A s \in Strip : \E o, p \in Observed : o - Around <= s /\ s <= p + Around
  /\ Rested

\* The inductive invariant.
IInv == TypeOK /\ Rested
=============================================================================
