---------------------------- MODULE ConsoleProofs ----------------------------
(***************************************************************************)
(* Theorems about Console and WebConsole, for any rows, rules, components, *)
(* browsers and times, part by part: the dashboard's first, then those of  *)
(* the older console.  A theorem is about the behaviours of one of the two *)
(* alone; what they share is the lemmas about numbers, sums and lists.     *)
(***************************************************************************)
EXTENDS Console, WebConsole, Lists, FiniteSetTheorems, FunctionTheorems,
        SequenceTheorems, WellFoundedInduction, TLAPS

\* What the assumption says of the events, the channel and access.
LEMMA FeedFacts ==
  /\ Events \subseteq Nat \ {0}
  /\ Matches \in [Filters -> SUBSET Events]
  /\ {FeedPage, TailLimit, Cap} \subseteq Nat \ {0}
BY ConsoleAssumption

\* Of the channel: outstanding timeouts and moves are counted.
LEMMA ChannelFacts ==
  /\ MaxTimers \in Nat /\ None \notin {"connecting", "open", "failed"}
  /\ "channel" \in DOMAIN Moves => Moves["channel"] \in Nat
BY ConsoleAssumption

\* Of access: times are numbers, and a kept token has a login's time left at the server.
LEMMA AccessFacts ==
  /\ SessionTTL \in Nat \ {0}
  /\ {CacheAge, Keep, TokenTTL, Slack, Horizon} \subseteq Nat
  /\ Keep + Slack <= TokenTTL
  /\ {None, Ready, Asked} \cap Nat = {}
BY ConsoleAssumption

\* The sets of the modules that LiveList and Stream extend are these.
LEMMA SameFinite ==
  \A S : /\ Push!IsFiniteSet(S) <=> IsFiniteSet(S)
         /\ Feed!IsFiniteSet(S) <=> IsFiniteSet(S)
BY DEF Push!IsFiniteSet, Feed!IsFiniteSet, IsFiniteSet

\* And so are the sizes of sets.
LEMMA SameCardinality ==
  \A S : /\ Push!Cardinality(S) = Cardinality(S) /\ Feed!Cardinality(S) = Cardinality(S)
         /\ Count!Cardinality(S) = Cardinality(S)
BY Zenon DEF Push!Cardinality, Feed!Cardinality, Count!Cardinality, Cardinality

\* A behaviour stays with its part, and a step is one of that part.
LEMMA StepOfPart ==
  ASSUME [Next]_vars
  PROVE  /\ part' = part
         /\ part = "events"     => [Feed!Next]_(Feed!vars)
         /\ part = "detections" => [Dets!Next]_(Dets!vars)
         /\ part = "cases"      => [Cases!Next]_(Cases!vars)
         /\ part = "endpoints"  => [Hosts!Next]_(Hosts!vars)
         /\ part = "rules"      => [Rules!Next]_(Rules!vars)
         /\ part = "channel"    => [Push!Next]_(Push!vars)
         /\ part = "hunt"       => [Trail!Next]_(Trail!vars)
         /\ part = "story"      => [Tale!Next]_(Tale!vars)
         /\ part = "figures"    => [Count!Next]_(Count!vars)
         /\ part = "access"     => [Gate!Next]_(Gate!vars)
<1>1. CASE UNCHANGED vars
  BY <1>1 DEF vars, common, table, triaged, cased, tuned, pushed, later, hunted, entered,
     counted, Count!vars,
     fed, Feed!vars, Feed!list, Dets!vars, Dets!list, Dets!table, Dets!drawer, Cases!vars,
     Cases!list, Cases!drawer, Cases!form, Hosts!vars, Hosts!list, Hosts!table,
     Rules!vars, Rules!list, Rules!slist, Rules!table, Push!vars, Trail!vars,
     Trail!place, Trail!query, Trail!sheet, Tale!vars, Tale!reads, Tale!acts, Gate!vars,
     Gate!who
<1>2. CASE Next
  BY <1>2 DEF Next
<1>3. QED
  BY <1>1, <1>2

-----------------------------------------------------------------------------
(* Events *)

\* Of a finite set of numbers there is one with any number of larger ones below its size.
LEMMA RankTaken ==
  ASSUME NEW S, S \subseteq Int, IsFiniteSet(S), NEW k \in 1..Cardinality(S)
  PROVE  \E e \in S : Cardinality({x \in S : x > e}) = k - 1
<1> DEFINE Above(e) == {x \in S : x > e}
           n == Cardinality(S)
           f == [e \in S |-> Cardinality(Above(e))]
<1>1. n \in Nat
  BY FS_CardinalityType
<1>2. ASSUME NEW e \in S
      PROVE  IsFiniteSet(Above(e)) /\ Cardinality(Above(e)) \in 0..(n - 1)
  <2>1. IsFiniteSet(S \ {e}) /\ Cardinality(S \ {e}) = n - 1
    BY FS_RemoveElement
  <2>2. Above(e) \in SUBSET (S \ {e})
    OBVIOUS
  <2>3. IsFiniteSet(Above(e)) /\ Cardinality(Above(e)) <= n - 1
    BY <2>1, <2>2, FS_Subset
  <2>4. QED
    BY <1>1, <2>3, FS_CardinalityType
<1>3. ASSUME NEW a \in S, NEW b \in S, a < b PROVE f[a] # f[b]
  <2>1. b > a /\ ~(b > b) /\ \A x \in S : x > b => x > a
    BY <1>3
  <2>2. Above(b) \in SUBSET Above(a) /\ b \in Above(a) /\ b \notin Above(b)
    BY <2>1, Zenon
  <2>3. Cardinality(Above(a)) # Cardinality(Above(b))
    BY <1>2, <2>2, FS_Subset
  <2>4. QED
    BY <2>3
<1>4. f \in Injection(S, 0..(n - 1))
  <2>1. f \in [S -> 0..(n - 1)]
    BY <1>2
  <2>2. \A a, b \in S : f[a] = f[b] => a = b
    BY <1>3
  <2>3. QED
    BY <2>1, <2>2, Fun_IsInj
<1>5. IsFiniteSet(0..(n - 1)) /\ Cardinality(0..(n - 1)) = n
  <2>1. 0 \in Int /\ n - 1 \in Int /\ (IF 0 > n - 1 THEN 0 ELSE n - 1 - 0 + 1) = n
    BY <1>1
  <2>2. QED
    BY <2>1, FS_Interval
<1>6. f \in Surjection(S, 0..(n - 1))
  BY <1>4, <1>5, FS_Injection
<1>7. k - 1 \in 0..(n - 1)
  BY <1>1
<1>8. PICK e \in S : f[e] = k - 1
  BY <1>6, <1>7 DEF Surjection
<1>9. QED
  BY <1>8

\* Rows in order are those of the set, none twice.
LEMMA OrderedIs ==
  ASSUME NEW S, S \subseteq Int, IsFiniteSet(S)
  PROVE  Feed!Ordered(S) \in Seq(S) /\ Feed!Once(Feed!Ordered(S))
         /\ Feed!Range(Feed!Ordered(S)) \subseteq S
<1> DEFINE s == Feed!Ordered(S)
<1>1. Feed!Cardinality(S) \in Nat
  BY FS_CardinalityType, SameCardinality
<1>2. ASSUME NEW k \in 1..Feed!Cardinality(S)
      PROVE  s[k] \in S /\ Feed!Cardinality({x \in S : x > s[k]}) = k - 1
  <2>1. \E e \in S : Feed!Cardinality({x \in S : x > e}) = k - 1
    BY RankTaken, SameCardinality
  <2>2. s[k] = CHOOSE e \in S : Feed!Cardinality({x \in S : x > e}) = k - 1
    BY DEF Feed!Ordered
  <2>3. QED
    BY <2>1, <2>2, Zenon
<1>3. DOMAIN s = 1..Feed!Cardinality(S)
  BY DEF Feed!Ordered
<1>4. s \in [1..Feed!Cardinality(S) -> S]
  BY <1>2 DEF Feed!Ordered
<1>5. s \in Seq(S)
  BY <1>1, <1>4, IsASeq
<1>6. Feed!Range(s) \subseteq S
  BY <1>2, <1>3 DEF Feed!Range
<1>7. Feed!Once(s)
  <2>1. ASSUME NEW i \in DOMAIN s, NEW j \in DOMAIN s, s[i] = s[j] PROVE i = j
    <3>1. i - 1 = Feed!Cardinality({x \in S : x > s[i]}) /\ i \in Nat /\ j \in Nat
      BY <1>1, <1>2, <1>3
    <3>2. j - 1 = Feed!Cardinality({x \in S : x > s[i]})
      BY <1>2, <1>3, <2>1
    <3>3. QED
      BY <3>1, <3>2
  <2>2. QED
    BY <2>1 DEF Feed!Once
<1>8. QED
  BY <1>5, <1>6, <1>7

\* A part of rows is of the rows, and none twice if none was.
LEMMA SliceIs ==
  ASSUME NEW S, NEW s \in Seq(S), NEW m \in Nat \ {0}, NEW n \in Nat
  PROVE  /\ Feed!Slice(s, m, n) \in Seq(S)
         /\ Feed!Range(Feed!Slice(s, m, n)) \subseteq Feed!Range(s)
         /\ Feed!Once(s) => Feed!Once(Feed!Slice(s, m, n))
<1> DEFINE q == Feed!Min({n, Len(s)})
           t == SubSeq(s, m, q)
<1>1. q \in Nat /\ q <= Len(s)
  <2>1. Len(s) \in Nat
    BY LenProperties
  <2>2. \E x \in {n, Len(s)} : \A y \in {n, Len(s)} : x <= y
    BY <2>1
  <2>3. q \in {n, Len(s)} /\ \A y \in {n, Len(s)} : q <= y
    BY <2>2, Zenon DEF Feed!Min
  <2>4. QED
    BY <2>1, <2>3
<1>2. \A i \in m..q : i \in DOMAIN s /\ s[i] \in S
  BY <1>1, LenProperties, ElementOfSeq
<1>3. /\ t \in Seq(S)
      /\ Len(t) = IF m <= q THEN q - m + 1 ELSE 0
      /\ \A i \in 1..(q - m + 1) : t[i] = s[m + i - 1]
  <2>1. m \in Int /\ q \in Int
    BY <1>1
  <2>2. \A i \in m..q : s[i] \in S
    BY <1>2
  <2> HIDE DEF q
  <2>3. QED
    BY <2>1, <2>2, SubSeqProperties
<1>4. DOMAIN t = 1..Len(t)
  BY <1>3, LenProperties
<1>5. ASSUME NEW i \in DOMAIN t
      PROVE  m + i - 1 \in DOMAIN s /\ t[i] = s[m + i - 1] /\ i \in Nat
  BY <1>1, <1>2, <1>3, <1>4
<1>6. Feed!Range(t) \subseteq Feed!Range(s)
  BY <1>5 DEF Feed!Range
<1>7. ASSUME Feed!Once(s), NEW i \in DOMAIN t, NEW j \in DOMAIN t, t[i] = t[j] PROVE i = j
  <2>1. m + i - 1 = m + j - 1
    BY <1>5, <1>7 DEF Feed!Once
  <2>2. QED
    BY <1>5, <2>1
<1>8. QED
  BY <1>3, <1>6, <1>7 DEF Feed!Slice, Feed!Once

\* One after the other: the rows of both, and none twice if none was and they share none.
LEMMA ConcatIs ==
  ASSUME NEW S, NEW s \in Seq(S), NEW t \in Seq(S)
  PROVE  /\ s \o t \in Seq(S)
         /\ Feed!Range(s \o t) \subseteq Feed!Range(s) \cup Feed!Range(t)
         /\ Feed!Once(s) /\ Feed!Once(t) /\ Feed!Range(s) \cap Feed!Range(t) = {}
              => Feed!Once(s \o t)
<1>1. /\ s \o t \in Seq(S) /\ Len(s \o t) = Len(s) + Len(t)
      /\ \A i \in 1 .. Len(s) + Len(t) : (s \o t)[i] =
            IF i <= Len(s) THEN s[i] ELSE t[i - Len(s)]
  BY ConcatProperties
<1>2. /\ Len(s) \in Nat /\ Len(t) \in Nat /\ DOMAIN s = 1..Len(s) /\ DOMAIN t = 1..Len(t)
      /\ DOMAIN (s \o t) = 1..(Len(s) + Len(t))
  BY <1>1, LenProperties
<1>3. ASSUME NEW i \in DOMAIN (s \o t)
      PROVE  \/ i \in DOMAIN s /\ (s \o t)[i] = s[i]
             \/ i - Len(s) \in DOMAIN t /\ (s \o t)[i] = t[i - Len(s)]
  BY <1>1, <1>2
<1>4. Feed!Range(s \o t) \subseteq Feed!Range(s) \cup Feed!Range(t)
  BY <1>3 DEF Feed!Range
<1>5. ASSUME Feed!Once(s), Feed!Once(t), Feed!Range(s) \cap Feed!Range(t) = {},
             NEW i \in DOMAIN (s \o t), NEW j \in DOMAIN (s \o t),
             (s \o t)[i] = (s \o t)[j]
      PROVE  i = j
  <2>1. CASE i \in DOMAIN s /\ (s \o t)[i] = s[i] /\ j \in DOMAIN s /\ (s \o t)[j] = s[j]
    BY <1>5, <2>1 DEF Feed!Once
  <2>2. CASE /\ i - Len(s) \in DOMAIN t /\ (s \o t)[i] = t[i - Len(s)]
             /\ j - Len(s) \in DOMAIN t /\ (s \o t)[j] = t[j - Len(s)]
    <3>1. i - Len(s) = j - Len(s)
      BY <1>5, <2>2 DEF Feed!Once
    <3>2. QED
      BY <1>2, <3>1
  <2>3. ASSUME NEW a \in DOMAIN s, NEW b \in DOMAIN t PROVE s[a] # t[b]
    BY <1>5 DEF Feed!Range
  <2>4. QED
    BY <1>3, <1>5, <2>1, <2>2, <2>3
<1>6. QED
  BY <1>1, <1>4, <1>5 DEF Feed!Once

\* Timestamps are numbers, and bounds positive.
LEMMA FeedNumbers ==
  /\ \A S : S \subseteq Events => S \subseteq Int
  /\ 1 \in Nat \ {0} /\ Cap \in Nat /\ FeedPage \in Nat /\ TailLimit \in Nat
<1>1. Events \subseteq Int
  BY FeedFacts
<1>2. \A S : S \subseteq Events => S \subseteq Int
  BY <1>1
<1>3. 1 \in Nat \ {0} /\ Cap \in Nat /\ FeedPage \in Nat /\ TailLimit \in Nat
  BY FeedFacts
<1>4. QED
  BY <1>2, <1>3

\* What is left of rows after those seen.
LEMMA FreshIs ==
  ASSUME NEW s \in Feed!Rows
  PROVE  /\ Feed!Fresh(s) \in Feed!Rows /\ Feed!Once(Feed!Fresh(s))
         /\ Feed!Range(Feed!Fresh(s)) \subseteq Feed!Range(s) \ seen
<1>1. /\ DOMAIN s = 1..Len(s) /\ Len(s) \in Nat
      /\ s \in [1..Len(s) -> Events]
  BY LenProperties DEF Feed!Rows
<1>2. Feed!Range(s) \subseteq Events
  BY <1>1 DEF Feed!Range
<1>3. s \in Surjection(1..Len(s), Feed!Range(s))
  BY <1>1 DEF Feed!Range, Surjection
<1>4. IsFiniteSet(1..Len(s))
  BY <1>1, FS_Interval
<1>5. IsFiniteSet(Feed!Range(s))
  BY <1>3, <1>4, FS_Surjection
<1>6. IsFiniteSet(Feed!Range(s) \ seen)
  BY <1>5, FS_Difference
<1>7. Feed!Range(s) \ seen \subseteq Int
  BY <1>2, FeedNumbers
<1>8. Feed!Ordered(Feed!Range(s) \ seen) \in Seq(Feed!Range(s) \ seen)
  BY <1>6, <1>7, OrderedIs
<1>9. Seq(Feed!Range(s) \ seen) \subseteq Seq(Events)
  BY <1>2
<1>10. QED
  BY <1>6, <1>7, <1>8, <1>9, OrderedIs DEF Feed!Fresh, Feed!Rows

\* What the server answers.
LEMMA QueryIs ==
  ASSUME Feed!Stored, NEW f \in Filters, NEW since, NEW limit \in Nat, NEW offset \in Nat
  PROVE  /\ Feed!Query(f, since, limit, offset) \in Feed!Rows
         /\ Feed!Range(Feed!Query(f, since, limit, offset)) \subseteq Matches[f]
         /\ Feed!Once(Feed!Query(f, since, limit, offset))
<1> DEFINE S == {e \in db \cap Matches[f] : e >= since}
<1>1. S \in SUBSET db /\ S \subseteq Events /\ S \subseteq Matches[f]
  BY DEF Feed!Stored
<1>2. IsFiniteSet(S)
  BY <1>1, FS_Subset, SameFinite DEF Feed!Stored
<1>3. S \subseteq Int
  BY <1>1, FeedNumbers
<1> HIDE DEF S
<1>4. /\ Feed!Ordered(S) \in Seq(S) /\ Feed!Once(Feed!Ordered(S))
      /\ Feed!Range(Feed!Ordered(S)) \subseteq S
  BY <1>2, <1>3, OrderedIs
<1>5. offset + 1 \in Nat \ {0} /\ offset + limit \in Nat
  OBVIOUS
<1> DEFINE q == Feed!Slice(Feed!Ordered(S), offset + 1, offset + limit)
<1>6. q \in Seq(S) /\ Feed!Range(q) \subseteq S /\ Feed!Once(q)
  BY <1>4, <1>5, SliceIs
<1>7. q \in Seq(Events)
  BY <1>1, <1>6
<1>8. Feed!Query(f, since, limit, offset) = q
  BY DEF Feed!Query, S
<1>9. QED
  BY <1>1, <1>6, <1>7, <1>8 DEF Feed!Rows

\* New rows on top.
LEMMA PrependDoes ==
  ASSUME Feed!Listed, NEW s \in Feed!Rows, Feed!Prepend(Feed!Fresh(s))
  PROVE  /\ Feed!Listed'
         /\ Feed!Range(items') \subseteq Feed!Range(items) \cup Feed!Range(s)
<1> DEFINE new == Feed!Fresh(s)
<1>1. /\ new \in Feed!Rows /\ Feed!Once(new)
      /\ Feed!Range(new) \subseteq Feed!Range(s) /\ Feed!Range(new) \cap seen = {}
  BY FreshIs
<1>2. Feed!Range(new) \subseteq Events
  BY <1>1, ElementOfSeq DEF Feed!Rows, Feed!Range
<1>3. CASE new = <<>>
  BY <1>3 DEF Feed!Prepend, Feed!Listed, Feed!Once
<1>4. CASE new # <<>>
  <2>1. /\ items' = Feed!Capped(new \o items) /\ seen' = seen \cup Feed!Range(new)
        /\ newest' = Feed!Later(new[1], newest)
    BY <1>4 DEF Feed!Prepend
  <2> HIDE DEF new
  <2>2. /\ new \o items \in Feed!Rows /\ Feed!Once(new \o items)
        /\ Feed!Range(new \o items) \subseteq Feed!Range(new) \cup Feed!Range(items)
    BY <1>1, ConcatIs DEF Feed!Listed, Feed!Rows
  <2>3. /\ items' \in Feed!Rows /\ Feed!Once(items')
        /\ Feed!Range(items') \subseteq Feed!Range(new \o items)
    <3>1. new \o items \in Seq(Events) /\ items' = Feed!Slice(new \o items, 1, Cap)
      BY <2>1, <2>2 DEF Feed!Rows, Feed!Capped
    <3>2. QED
      BY <2>2, <3>1, SliceIs, FeedNumbers DEF Feed!Rows
  <2>4. new[1] \in Events
    BY <1>1, <1>4, EmptySeq, LenProperties, ElementOfSeq DEF Feed!Rows
  <2>5. newest' \in Events \cup {0}
    BY <2>1, <2>4 DEF Feed!Later, Feed!Listed
  <2>6. QED
    BY <1>1, <1>2, <2>1, <2>2, <2>3, <2>5 DEF Feed!Listed
<1>5. QED
  BY <1>3, <1>4

\* The page as it opens satisfies the invariant.
LEMMA FeedInit == Feed!Init => Feed!IInv
<1> SUFFICES ASSUME Feed!Init PROVE Feed!IInv
  OBVIOUS
<1>1. <<>> \in Feed!Rows /\ DOMAIN <<>> = {}
  BY EmptySeq DEF Feed!Rows
<1>2. Feed!Range(<<>>) = {} /\ Feed!Once(<<>>)
  BY <1>1 DEF Feed!Range, Feed!Once
<1>3. Feed!Stored /\ Feed!Listed
  BY <1>1, <1>2 DEF Feed!Init, Feed!Stored, Feed!Listed
<1>4. Feed!Asking
  BY DEF Feed!Init, Feed!Asking, Feed!Pending, Feed!Answers
<1>5. QED
  BY <1>3, <1>4 DEF Feed!IInv

\* The database: rows are stored one at a time, and broadcast.
LEMMA FeedStored == Feed!Stored /\ [Feed!Next]_(Feed!vars) => Feed!Stored'
<1> SUFFICES ASSUME Feed!Stored, [Feed!Next]_(Feed!vars) PROVE Feed!Stored'
  OBVIOUS
<1>1. ASSUME NEW e \in Events, Feed!Store(e) PROVE Feed!Stored'
  <2>1. db' = db \cup {e} /\ pushes' \in {pushes, Append(pushes, e)}
    BY <1>1 DEF Feed!Store
  <2>2. Append(pushes, e) \in Feed!Rows
    BY AppendProperties DEF Feed!Stored, Feed!Rows
  <2>3. Feed!IsFiniteSet(db')
    BY <2>1, FS_AddElement, SameFinite DEF Feed!Stored
  <2>4. QED
    BY <2>1, <2>2, <2>3 DEF Feed!Stored
<1>2. CASE Feed!Push
  <2>1. pushes' \in Feed!Rows
    BY <1>2, HeadTailProperties DEF Feed!Push, Feed!Stored, Feed!Rows
  <2>2. QED
    BY <1>2, <2>1 DEF Feed!Push, Feed!Stored
<1>3. CASE UNCHANGED <<db, pushes>>
  BY <1>3 DEF Feed!Stored
<1>4. QED
  BY <1>1, <1>2, <1>3
     DEF Feed!Next, Feed!vars, Feed!ToggleLive, Feed!SetFilter, Feed!AnswerFirst,
         Feed!FirstArrives, Feed!FirstFails, Feed!Tick, Feed!AnswerTail,
         Feed!TickArrives, Feed!TickFails, Feed!LoadMore, Feed!AnswerOlder,
         Feed!MoreArrives, Feed!MoreFails

\* What is under way answers to its question.
LEMMA FeedAsking ==
  ASSUME Feed!Stored, Feed!Listed, Feed!Asking, [Feed!Next]_(Feed!vars)
  PROVE  Feed!Asking'
<1> USE DEF Feed!Asking, Feed!Pending
<1>1. ASSUME NEW f \in Filters, Feed!SetFilter(f) PROVE Feed!Asking'
  BY <1>1, FeedFacts DEF Feed!SetFilter, Feed!Reset, Feed!Answers
<1>2. CASE Feed!AnswerFirst
  <2>1. /\ first' \in Feed!Rows /\ Feed!Once(first')
        /\ Feed!Range(first') \subseteq Matches[filter]
    <3>1. 0 \in Nat
      OBVIOUS
    <3>2. QED
      BY <1>2, <3>1, QueryIs, FeedNumbers DEF Feed!AnswerFirst
  <2>2. UNCHANGED <<filter, tails, older>>
    BY <1>2 DEF Feed!AnswerFirst
  <2>3. QED
    BY <2>1, <2>2 DEF Feed!Answers
<1>3. CASE (Feed!FirstArrives \/ Feed!FirstFails) 
  BY <1>3 DEF Feed!FirstArrives, Feed!FirstFails
<1>4. CASE Feed!ToggleLive
  BY <1>4 DEF Feed!ToggleLive
<1>5. ASSUME NEW t \in Slots, Feed!Tick(t) PROVE Feed!Asking'
  <2>1. newest \in Events
    BY <1>5 DEF Feed!Tick, Feed!Listed
  <2>2. tails' = [tails EXCEPT ![t] = [since |-> newest, rows |-> Asked]]
    BY <1>5 DEF Feed!Tick
  <2>3. tails' \in [Slots -> [since : Events, rows : Feed!Pending] \cup {None}]
    BY <2>1, <2>2
  <2>4. \A u \in Slots : tails'[u] # None => Feed!Answers(tails'[u].rows, filter)
    BY <2>2 DEF Feed!Answers
  <2>5. UNCHANGED <<filter, first, older>>
    BY <1>5 DEF Feed!Tick
  <2>6. QED
    BY <2>3, <2>4, <2>5 DEF Feed!Answers
<1>6. ASSUME NEW t \in Slots, Feed!AnswerTail(t) PROVE Feed!Asking'
  <2> DEFINE q == Feed!Query(filter, tails[t].since, TailLimit, 0)
  <2>1. tails' = [tails EXCEPT ![t].rows = q] /\ tails[t] # None
    BY <1>6 DEF Feed!AnswerTail
  <2>2. q \in Feed!Rows /\ Feed!Range(q) \subseteq Matches[filter]
    <3>1. 0 \in Nat
      OBVIOUS
    <3>2. QED
      BY <3>1, QueryIs, FeedNumbers
  <2> HIDE DEF q
  <2>3. tails' \in [Slots -> [since : Events, rows : Feed!Pending] \cup {None}]
    BY <2>1, <2>2
  <2>4. \A u \in Slots : tails'[u] # None => Feed!Answers(tails'[u].rows, filter)
    BY <2>1, <2>2 DEF Feed!Answers
  <2>5. UNCHANGED <<filter, first, older>>
    BY <1>6 DEF Feed!AnswerTail
  <2>6. QED
    BY <2>3, <2>4, <2>5 DEF Feed!Answers
<1>7. ASSUME NEW t \in Slots, tails' = [tails EXCEPT ![t] = None],
             UNCHANGED <<filter, first, older>>
      PROVE  Feed!Asking'
  BY <1>7 DEF Feed!Answers
<1>8. CASE Feed!LoadMore
  <2>1. Len(items) \in Nat
    BY LenProperties DEF Feed!Listed, Feed!Rows
  <2>2. older' = [f |-> filter, offset |-> Len(items), rows |-> Asked]
    BY <1>8 DEF Feed!LoadMore
  <2>3. UNCHANGED <<filter, first, tails>>
    BY <1>8 DEF Feed!LoadMore
  <2>4. QED
    BY <2>1, <2>2, <2>3 DEF Feed!Answers
<1>9. CASE Feed!AnswerOlder
  <2> DEFINE q == Feed!Query(older.f, 0, FeedPage, older.offset)
  <2>1. older' = [older EXCEPT !.rows = q] /\ older # None
    BY <1>9 DEF Feed!AnswerOlder
  <2>2. q \in Feed!Rows /\ Feed!Range(q) \subseteq Matches[older.f]
    BY <2>1, QueryIs, FeedNumbers
  <2> HIDE DEF q
  <2>3. UNCHANGED <<filter, first, tails>>
    BY <1>9 DEF Feed!AnswerOlder
  <2>4. QED
    BY <2>1, <2>2, <2>3 DEF Feed!Answers
<1>10. CASE Feed!MoreArrives \/ Feed!MoreFails
  BY <1>10 DEF Feed!MoreArrives, Feed!MoreFails, Feed!Answers
<1>11. CASE UNCHANGED <<filter, first, tails, older>>
  BY <1>11 DEF Feed!Answers
<1>12. QED
  BY <1>1, <1>2, <1>3, <1>4, <1>5, <1>6, <1>7, <1>8, <1>9, <1>10, <1>11
     DEF Feed!Next, Feed!vars, Feed!TickArrives, Feed!TickFails, Feed!Push, Feed!Store

\* What a step adds to the list: of rows asked for under these filters, or of an older
\* page asked for under others.
Added ==
  /\ Feed!Listed'
  /\ \A e \in Feed!Range(items') \ Feed!Range(items) :
       \/ e \in Matches[filter']
       \/ older # None /\ older.f # filter /\ e \in Feed!Range(older.rows)

\* Whatever answers arrive, in whatever order, the list takes in no more than that.
LEMMA FeedListed ==
  ASSUME Feed!Stored, Feed!Listed, Feed!Asking, [Feed!Next]_(Feed!vars)
  PROVE  Added
<1>1. ASSUME NEW f \in Filters, Feed!SetFilter(f) PROVE Added
  <2>1. items' = <<>> /\ seen' = {} /\ newest' = 0
    BY <1>1 DEF Feed!SetFilter, Feed!Reset
  <2>2. <<>> \in Feed!Rows /\ DOMAIN <<>> = {}
    BY EmptySeq DEF Feed!Rows
  <2>3. Feed!Range(<<>>) = {} /\ Feed!Once(<<>>)
    BY <2>2 DEF Feed!Range, Feed!Once
  <2>4. QED
    BY <2>1, <2>2, <2>3 DEF Added, Feed!Listed
<1>2. CASE Feed!FirstArrives
  <2>1. /\ first \in Feed!Rows /\ Feed!Once(first)
        /\ Feed!Range(first) \subseteq Matches[filter]
    BY <1>2 DEF Feed!FirstArrives, Feed!Asking, Feed!Pending, Feed!Answers
  <2>2. Feed!Range(first) \subseteq Events
    BY <2>1, LenProperties, ElementOfSeq DEF Feed!Range, Feed!Rows
  <2>3. newest' \in Events \cup {0}
    <3>1. CASE first = <<>>
      BY <1>2, <3>1 DEF Feed!FirstArrives, Feed!Listed
    <3>2. CASE first # <<>>
      BY <1>2, <2>1, <3>2, EmptySeq, LenProperties, ElementOfSeq
         DEF Feed!FirstArrives, Feed!Rows
    <3>3. QED
      BY <3>1, <3>2
  <2>4. items' = first /\ seen' = seen \cup Feed!Range(first) /\ filter' = filter
    BY <1>2 DEF Feed!FirstArrives
  <2>5. QED
    BY <2>1, <2>2, <2>3, <2>4 DEF Added, Feed!Listed
<1>3. ASSUME NEW t \in Slots, Feed!TickArrives(t) PROVE Added
  <2>1. tails[t].rows \in Feed!Rows /\ Feed!Range(tails[t].rows) \subseteq Matches[filter]
    BY <1>3 DEF Feed!TickArrives, Feed!Asking, Feed!Pending, Feed!Answers
  <2>2. Feed!Prepend(Feed!Fresh(tails[t].rows)) /\ filter' = filter
    BY <1>3 DEF Feed!TickArrives
  <2>3. QED
    BY <2>1, <2>2, PrependDoes DEF Added
<1>4. CASE Feed!Push
  <2>1. filter' = filter
    BY <1>4 DEF Feed!Push
  <2>2. CASE UNCHANGED <<items, seen, newest>>
    BY <2>1, <2>2 DEF Added, Feed!Listed
  <2>3. CASE ~UNCHANGED <<items, seen, newest>>
    <3> DEFINE e == Head(pushes)
    <3>1. e \in Matches[filter] /\ Feed!Prepend(Feed!Fresh(<<e>>)) /\ pushes # <<>>
      BY <1>4, <2>3 DEF Feed!Push
    <3>2. e \in Events
      BY <3>1, HeadTailProperties DEF Feed!Stored, Feed!Rows
    <3> HIDE DEF e
    <3>3. <<e>> \in Feed!Rows /\ Feed!Range(<<e>>) \subseteq {e}
      BY <3>2 DEF Feed!Rows, Feed!Range
    <3>4. /\ Feed!Listed'
          /\ Feed!Range(items') \subseteq Feed!Range(items) \cup Feed!Range(<<e>>)
      BY <3>1, <3>3, PrependDoes
    <3>5. QED
      BY <2>1, <3>1, <3>3, <3>4 DEF Added
  <2>4. QED
    BY <2>2, <2>3
<1>5. CASE Feed!MoreArrives
  <2> DEFINE new == Feed!Fresh(older.rows)
  <2>1. /\ older # None /\ older.rows \in Feed!Rows
        /\ Feed!Range(older.rows) \subseteq Matches[older.f]
    BY <1>5 DEF Feed!MoreArrives, Feed!Asking, Feed!Pending, Feed!Answers
  <2>2. /\ new \in Feed!Rows /\ Feed!Once(new)
        /\ Feed!Range(new) \subseteq Feed!Range(older.rows) \ seen
    BY <2>1, FreshIs
  <2> HIDE DEF new
  <2>3. Feed!Range(older.rows) \subseteq Events
    BY <2>1, LenProperties, ElementOfSeq DEF Feed!Range, Feed!Rows
  <2>4. /\ items' = items \o new /\ seen' = seen \cup Feed!Range(older.rows)
        /\ filter' = filter /\ newest' = newest
    BY <1>5 DEF Feed!MoreArrives, new
  <2>5. /\ items \o new \in Feed!Rows /\ Feed!Once(items \o new)
        /\ Feed!Range(items \o new) \subseteq Feed!Range(items) \cup Feed!Range(new)
    BY <2>2, ConcatIs DEF Feed!Listed, Feed!Rows
  <2>6. Feed!Listed'
    BY <2>2, <2>3, <2>4, <2>5 DEF Feed!Listed
  <2>7. QED
    BY <2>1, <2>2, <2>4, <2>5, <2>6 DEF Added
<1>6. CASE UNCHANGED <<items, seen, newest>>
  BY <1>6 DEF Added, Feed!Listed
<1>7. QED
  BY <1>1, <1>2, <1>3, <1>4, <1>5, <1>6
     DEF Feed!Next, Feed!vars, Feed!list, Feed!ToggleLive, Feed!AnswerFirst,
         Feed!FirstFails, Feed!Tick, Feed!AnswerTail, Feed!TickFails, Feed!LoadMore,
         Feed!AnswerOlder, Feed!MoreFails, Feed!Store

\* So no row is there twice, and only an older page strays from the filters.
LEMMA FeedRows ==
  ASSUME Feed!IInv, [Feed!Next]_(Feed!vars)
  PROVE  Feed!NoDuplicates' /\ Feed!OnlyOlderPageStrays
BY FeedListed
   DEF Feed!IInv, Added, Feed!Listed, Feed!Once, Feed!NoDuplicates,
       Feed!OnlyOlderPageStrays

-----------------------------------------------------------------------------
(* Detections *)

\* The keys held are those of the ticks, whichever way the operator ticks or clears.
LEMMA DetsTicks ==
  ASSUME Dets!T!TicksKept, [Dets!Next]_(Dets!vars)
  PROVE  Dets!T!TicksKept'
<1> USE DEF Dets!T!TicksKept, Dets!T!Key
<1>1. CASE Dets!UseTable
  BY <1>1 DEF Dets!UseTable, Dets!T!Tick, Dets!T!TickPage, Dets!T!Clear, Dets!T!Type
<1>2. ASSUME NEW b \in bulks, Dets!BulkDone(b) PROVE Dets!T!TicksKept'
  BY <1>2 DEF Dets!BulkDone, Dets!T!Clear
<1>3. CASE UNCHANGED <<selection, ticked>>
  BY <1>3
<1>4. QED
  BY <1>1, <1>2, <1>3
     DEF Dets!Next, Dets!vars, Dets!table, Dets!Tick, Dets!Reply, Dets!ReadFails,
         Dets!Receive, Dets!Close, Dets!Confirm, Dets!Cancel, Dets!Analyze,
         Dets!SetStatus, Dets!SetSev, Dets!Bulk, Dets!Send, Dets!Apply, Dets!PostFails,
         Dets!Detect, Dets!Open, Dets!Choose, Dets!Analyzed, Dets!OtherAnalyst,
         Dets!SetStat

\* A read is answered for the status asked for; another status throws away what is
\* under way.
LEMMA DetsAnswers ==
  ASSUME Dets!AnswersToStatus, [Dets!Next]_(Dets!vars)
  PROVE  Dets!AnswersToStatus'
<1> USE DEF Dets!AnswersToStatus
<1>1. CASE Dets!Reply
  <2>1. \A d \in DOMAIN Dets!Query : status \in {"all", Dets!Query[d]}
    BY DEF Dets!Query, Dets!Newest
  <2>2. replies' = replies \cup {Dets!Query} /\ status' = status
    BY <1>1 DEF Dets!Reply, Dets!List!Reply
  <2>3. QED
    BY <2>1, <2>2
<1>2. ASSUME NEW r \in replies, Dets!Receive(r) PROVE Dets!AnswersToStatus'
  BY <1>2 DEF Dets!Receive, Dets!List!Receive
<1>3. ASSUME NEW s \in {"all"} \cup Dets!Statuses, Dets!SetStatus(s)
      PROVE  Dets!AnswersToStatus'
  BY <1>3 DEF Dets!SetStatus, Dets!List!Restart
<1>4. CASE UNCHANGED <<replies, status>>
  BY <1>4
<1>5. QED
  BY <1>1, <1>2, <1>3, <1>4
     DEF Dets!Next, Dets!vars, Dets!list, Dets!Tick, Dets!List!Tick, Dets!ReadFails,
         Dets!List!Fail, Dets!UseTable, Dets!BulkDone, Dets!Close, Dets!Confirm,
         Dets!Cancel, Dets!Analyze, Dets!SetSev, Dets!Bulk, Dets!Send, Dets!Apply,
         Dets!PostFails, Dets!Detect, Dets!Open, Dets!Choose, Dets!Analyzed,
         Dets!OtherAnalyst, Dets!SetStat

\* The list takes in only what answers to the status.
LEMMA DetsShown ==
  ASSUME Dets!AnswersToStatus, [Dets!Next]_(Dets!vars)
  PROVE  Dets!NoStaleRows
<1> USE DEF Dets!AnswersToStatus, Dets!NoStaleRows
<1>1. ASSUME NEW r \in replies, Dets!Receive(r) PROVE Dets!NoStaleRows
  BY <1>1 DEF Dets!Receive, Dets!List!Receive
<1>2. CASE UNCHANGED data
  BY <1>2
<1>3. QED
  BY <1>1, <1>2
     DEF Dets!Next, Dets!vars, Dets!list, Dets!Tick, Dets!List!Tick, Dets!Reply,
         Dets!List!Reply, Dets!ReadFails, Dets!List!Fail, Dets!UseTable, Dets!BulkDone,
         Dets!Close, Dets!Confirm, Dets!Cancel, Dets!Analyze, Dets!SetStatus,
         Dets!SetSev, Dets!Bulk, Dets!Send, Dets!Apply, Dets!PostFails, Dets!Detect,
         Dets!Open, Dets!Choose, Dets!Analyzed, Dets!OtherAnalyst, Dets!SetStat

\* Only a confirmation sends an isolation, and as it was confirmed.
LEMMA DetsConfirmed ==
  ASSUME [Dets!Next]_(Dets!vars)
  PROVE  [Dets!ContainmentConfirmed]_vars
<1>1. SUFFICES ASSUME NEW p \in posts' \ posts, p.what = "isolate"
               PROVE  pending # None /\ p.d = pending.d
  BY DEF Dets!ContainmentConfirmed
<1>2. CASE Dets!Confirm
  BY <1>1, <1>2 DEF Dets!Confirm, Dets!Act
<1>3. ASSUME NEW what \in {"closed", "escalate"}, Dets!Bulk(what) PROVE FALSE
  BY <1>1, <1>3 DEF Dets!Bulk, Dets!Send
<1>4. ASSUME NEW d \in Ids, NEW what \in Dets!Statuses \cup {"escalate"},
             Dets!SetStat(d, what)
      PROVE  FALSE
  BY <1>1, <1>4 DEF Dets!SetStat, Dets!Send, Dets!Statuses
<1>5. CASE posts' \subseteq posts
  BY <1>1, <1>5
<1>6. QED
  BY <1>2, <1>3, <1>4, <1>5
     DEF Dets!Next, Dets!vars, Dets!Tick, Dets!Reply, Dets!ReadFails, Dets!Receive,
         Dets!UseTable, Dets!BulkDone, Dets!Close, Dets!Cancel, Dets!Analyze,
         Dets!SetStatus, Dets!SetSev, Dets!Apply, Dets!PostFails, Dets!Detect,
         Dets!Open, Dets!Choose, Dets!Analyzed, Dets!OtherAnalyst

-----------------------------------------------------------------------------
(* Cases *)

\* The load follows the selection: a new one asks anew.
LEMMA CasesLoad ==
  ASSUME Cases!IInv, [Cases!Next]_(Cases!vars)
  PROVE  Cases!IInv'
<1> USE DEF Cases!IInv, Cases!Select, Cases!Hydrate
<1>1. ASSUME NEW r \in replies, Cases!Receive(r) PROVE Cases!IInv'
  BY <1>1 DEF Cases!Receive
<1>2. CASE Cases!LoadAnswered
  BY <1>2 DEF Cases!LoadAnswered, Cases!Case
<1>3. CASE Cases!Loaded \/ Cases!LoadFails
  BY <1>3 DEF Cases!Loaded, Cases!LoadFails
<1>4. ASSUME NEW c \in Ids, Cases!Open(c) PROVE Cases!IInv'
  BY <1>4 DEF Cases!Open
<1>5. CASE Cases!Close
  BY <1>5 DEF Cases!Close
<1>6. ASSUME NEW p \in posts, Cases!Created(p) PROVE Cases!IInv'
  BY <1>6 DEF Cases!Created
<1>7. CASE UNCHANGED <<sel, load>>
  BY <1>7
<1>8. QED
  BY <1>1, <1>2, <1>3, <1>4, <1>5, <1>6, <1>7
     DEF Cases!Next, Cases!vars, Cases!drawer, Cases!Tick, Cases!Reply, Cases!ReadFails,
         Cases!Type, Cases!OpenDialog, Cases!CloseDialog, Cases!Submit, Cases!SetStatus,
         Cases!Write, Cases!Touch, Cases!Apply, Cases!Written, Cases!PostFails

\* What fills the drawer without an answer to a write is the load.
LEMMA CasesShown ==
  ASSUME Cases!IInv, [Cases!Next]_(Cases!vars)
  PROVE  Cases!LoadsShowSelection
<1> USE DEF Cases!Select, Cases!Hydrate
<1>1. CASE Cases!Loaded
  BY <1>1 DEF Cases!Loaded, Cases!IInv, Cases!LoadsShowSelection
<1>2. ASSUME NEW p \in posts, Cases!Written(p) PROVE posts' # posts
  BY <1>2 DEF Cases!Written
<1>3. ASSUME NEW r \in replies, Cases!Receive(r) PROVE detail' \in {detail, None}
  BY <1>3 DEF Cases!Receive
<1>4. ASSUME NEW c \in Ids, Cases!Open(c) PROVE detail' \in {detail, None}
  BY <1>4 DEF Cases!Open
<1>5. CASE Cases!Close
  BY <1>5 DEF Cases!Close, Cases!LoadsShowSelection
<1>6. ASSUME NEW p \in posts, Cases!Created(p) PROVE detail' \in {detail, None}
  BY <1>6 DEF Cases!Created
<1>7. CASE UNCHANGED detail
  BY <1>7 DEF Cases!LoadsShowSelection
<1>8. CASE detail' \in {detail, None} \/ posts' # posts
  BY <1>8 DEF Cases!LoadsShowSelection
<1>9. QED
  BY <1>1, <1>2, <1>3, <1>4, <1>5, <1>6, <1>7, <1>8
     DEF Cases!Next, Cases!vars, Cases!drawer, Cases!Tick, Cases!Reply, Cases!ReadFails,
         Cases!LoadAnswered, Cases!LoadFails, Cases!Type, Cases!OpenDialog,
         Cases!CloseDialog, Cases!Submit, Cases!SetStatus, Cases!Write, Cases!Touch,
         Cases!Apply, Cases!PostFails

-----------------------------------------------------------------------------
(* Endpoints *)

\* The keys held are those of the ticks.
LEMMA HostsTicks ==
  ASSUME Hosts!T!TicksKept, [Hosts!Next]_(Hosts!vars)
  PROVE  Hosts!T!TicksKept'
<1> USE DEF Hosts!T!TicksKept, Hosts!T!Key
<1>1. CASE Hosts!UseTable
  BY <1>1 DEF Hosts!UseTable, Hosts!T!Tick, Hosts!T!TickPage, Hosts!T!Clear, Hosts!T!Type
<1>2. ASSUME NEW b \in bulks, Hosts!BulkDone(b) PROVE Hosts!T!TicksKept'
  BY <1>2 DEF Hosts!BulkDone, Hosts!T!Clear
<1>3. CASE UNCHANGED <<selection, ticked>>
  BY <1>3
<1>4. QED
  BY <1>1, <1>2, <1>3
     DEF Hosts!Next, Hosts!vars, Hosts!table, Hosts!Tick, Hosts!Reply, Hosts!ReadFails,
         Hosts!Receive, Hosts!Close, Hosts!Confirm, Hosts!Cancel, Hosts!Bulk,
         Hosts!Push, Hosts!Retry, Hosts!Apply, Hosts!PostFails, Hosts!Enroll,
         Hosts!Open, Hosts!Choose, Hosts!LiveTriage

\* A failed row is written by the server from the action it carried out, and clicks are
\* counted up.
LEMMA HostsFailed ==
  ASSUME Hosts!FailedPlain, moves \in Nat, [Hosts!Next]_(Hosts!vars)
  PROVE  Hosts!FailedPlain' /\ moves' \in Nat
<1>1. ASSUME NEW p \in posts, Hosts!Apply(p) PROVE Hosts!FailedPlain' /\ moves' = moves
  BY <1>1 DEF Hosts!Apply, Hosts!FailedPlain
<1>2. CASE UNCHANGED failed /\ (UNCHANGED moves \/ Hosts!Move)
  BY <1>2 DEF Hosts!Move, Hosts!FailedPlain
<1>3. ASSUME NEW a \in Ids,
             Hosts!Enroll(a) \/ Hosts!Open(a) \/ Hosts!Choose(a) \/ Hosts!LiveTriage(a)
      PROVE  UNCHANGED failed /\ (UNCHANGED moves \/ Hosts!Move)
  BY <1>3 DEF Hosts!Enroll, Hosts!Open, Hosts!Choose, Hosts!LiveTriage
<1>4. QED
  BY <1>1, <1>2, <1>3
     DEF Hosts!Next, Hosts!vars, Hosts!Tick, Hosts!Reply, Hosts!ReadFails,
         Hosts!Receive, Hosts!UseTable, Hosts!Close, Hosts!Confirm, Hosts!Cancel,
         Hosts!BulkDone, Hosts!Bulk, Hosts!Push, Hosts!Retry, Hosts!PostFails

\* An isolation, or its end, goes out confirmed, in bulk, or as a retry.
LEMMA HostsCaused ==
  ASSUME Hosts!IInv, [Hosts!Next]_(Hosts!vars)
  PROVE  [Hosts!ContainmentHasCause]_vars
<1> DEFINE Caused(p) ==
      \/ pending # None /\ p.a = pending.a /\ p.what = pending.what
      \/ p.bulk > 0 /\ p.a \in ticked /\ (data[p.a] = "isolated") = (p.what = "unisolate")
      \/ [a |-> p.a, what |-> p.what] \in failed
<1>1. SUFFICES ASSUME NEW p \in posts' \ posts, p.what \in {"isolate", "unisolate"}
               PROVE  Caused(p)
  BY DEF Hosts!ContainmentHasCause
<1>2. CASE Hosts!Confirm
  BY <1>1, <1>2 DEF Hosts!Confirm, Hosts!Act, Hosts!Request
<1>3. ASSUME NEW what \in {"isolate", "unisolate"}, Hosts!Bulk(what) PROVE Caused(p)
  <2>1. moves + 1 > 0 /\ p \in Hosts!Request(Hosts!BulkTargets(what), what, moves + 1)
    BY <1>1, <1>3 DEF Hosts!Bulk, Hosts!IInv
  <2>2. p.bulk > 0 /\ p.what = what /\ p.a \in Hosts!BulkTargets(what)
    BY <2>1 DEF Hosts!Request
  <2>3. p.a \in ticked /\ (data[p.a] = "isolated") = (what = "unisolate")
    BY <2>2 DEF Hosts!BulkTargets, Hosts!T!Selected, Hosts!T!Key, Hosts!IInv,
       Hosts!T!TicksKept
  <2>4. QED
    BY <2>2, <2>3
<1>4. ASSUME NEW f \in failed, Hosts!Retry(f) PROVE Caused(p)
  BY <1>1, <1>4 DEF Hosts!Retry, Hosts!Request, Hosts!IInv, Hosts!FailedPlain
<1>5. ASSUME NEW what \in Hosts!Pushes, Hosts!Push(what) PROVE FALSE
  BY <1>1, <1>5 DEF Hosts!Push, Hosts!Pushes, Hosts!Request
<1>6. ASSUME NEW a \in Ids, Hosts!LiveTriage(a) PROVE FALSE
  BY <1>1, <1>6 DEF Hosts!LiveTriage, Hosts!Request
<1>7. CASE posts' \subseteq posts
  BY <1>1, <1>7
<1>8. QED
  BY <1>2, <1>3, <1>4, <1>5, <1>6, <1>7
     DEF Hosts!Next, Hosts!vars, Hosts!Tick, Hosts!Reply, Hosts!ReadFails,
         Hosts!Receive, Hosts!UseTable, Hosts!Close, Hosts!Cancel, Hosts!BulkDone,
         Hosts!Apply, Hosts!Returned, Hosts!PostFails, Hosts!Enroll, Hosts!Open,
         Hosts!Choose

-----------------------------------------------------------------------------
(* Rules *)

\* The keys held are those of the ticks, also when the page is opened anew.
LEMMA RulesTicks ==
  ASSUME Rules!T!TicksKept, [Rules!Next]_(Rules!vars)
  PROVE  Rules!T!TicksKept'
<1> USE DEF Rules!T!TicksKept, Rules!T!Key
<1>1. CASE Rules!UseTable
  BY <1>1
     DEF Rules!UseTable, Rules!T!Tick, Rules!T!TickPage, Rules!T!Clear, Rules!T!Type,
         Rules!T!ToggleSort, Rules!T!ToggleDensity, Rules!T!ToggleColumn,
         Rules!T!SetView, Rules!T!Turn
<1>2. ASSUME NEW b \in bulks, Rules!BulkDone(b) PROVE Rules!T!TicksKept'
  BY <1>2 DEF Rules!BulkDone, Rules!T!Clear
<1>3. CASE Rules!Reopen
  BY <1>3 DEF Rules!Reopen, Rules!T!Mount
<1>4. CASE UNCHANGED <<selection, ticked>>
  BY <1>4
<1>5. QED
  BY <1>1, <1>2, <1>3, <1>4
     DEF Rules!Next, Rules!vars, Rules!table, Rules!Tick, Rules!Reply, Rules!STick,
         Rules!SReply, Rules!ReadFails, Rules!Receive, Rules!SReceive,
         Rules!SwitchDialog, Rules!Submit, Rules!Toggle, Rules!OtherAdmin,
         Rules!RemoveSupp, Rules!Bulk, Rules!BulkThrows, Rules!Apply, Rules!Done,
         Rules!Unheard, Rules!Refuse

\* What is under way was read after the write the page was last told of: when it is
\* told of another, both effects start anew.
LEMMA RulesReads ==
  ASSUME Rules!ReadSinceTold, [Rules!Next]_(Rules!vars)
  PROVE  Rules!ReadSinceTold'
<1> USE DEF Rules!ReadSinceTold
<1>1. CASE Rules!Reply
  BY <1>1 DEF Rules!Reply, Rules!R!Reply, Rules!slist
<1>2. CASE Rules!SReply
  BY <1>2 DEF Rules!SReply, Rules!S!Reply, Rules!list
<1>3. ASSUME NEW r \in replies, Rules!Receive(r) PROVE Rules!ReadSinceTold'
  BY <1>3 DEF Rules!Receive, Rules!R!Receive, Rules!slist
<1>4. ASSUME NEW r \in sreplies, Rules!SReceive(r) PROVE Rules!ReadSinceTold'
  BY <1>4 DEF Rules!SReceive, Rules!S!Receive, Rules!list
<1>5. CASE Rules!Reopen
  BY <1>5 DEF Rules!Reopen, Rules!R!Restart, Rules!S!Restart
<1>6. ASSUME NEW what, NEW x, srv' = Rules!Written(what, x),
             UNCHANGED <<told, replies, sreplies>>
      PROVE  Rules!ReadSinceTold'
  BY <1>6 DEF Rules!Written
<1>7. ASSUME NEW b \in bulks, Rules!BulkDone(b) PROVE Rules!ReadSinceTold'
  BY <1>7 DEF Rules!BulkDone, Rules!Reload, Rules!R!Restart, Rules!S!Restart
<1>8. ASSUME NEW p \in posts, Rules!Done(p) PROVE Rules!ReadSinceTold'
  BY <1>8
     DEF Rules!Done, Rules!Reload, Rules!R!Restart, Rules!S!Restart, Rules!list,
         Rules!slist
<1>9. ASSUME NEW what, NEW x, Rules!OtherAdmin(what, x) PROVE Rules!ReadSinceTold'
  BY <1>6, <1>9 DEF Rules!OtherAdmin, Rules!list, Rules!slist
<1>10. ASSUME NEW p \in posts, Rules!Apply(p) PROVE Rules!ReadSinceTold'
  <2>1. UNCHANGED <<told, replies, sreplies>>
    BY <1>10 DEF Rules!Apply, Rules!list, Rules!slist
  <2>2. \E what, x : srv' = Rules!Written(what, x)
    BY <1>10 DEF Rules!Apply
  <2>3. QED
    BY <1>6, <2>1, <2>2
<1>11. CASE UNCHANGED <<srv, told, replies, sreplies>>
  BY <1>11
<1>12. QED
  BY <1>1, <1>2, <1>3, <1>4, <1>5, <1>7, <1>8, <1>9, <1>10, <1>11
     DEF Rules!Next, Rules!vars, Rules!list, Rules!slist, Rules!Tick, Rules!R!Tick,
         Rules!STick, Rules!S!Tick, Rules!ReadFails, Rules!R!Fail, Rules!S!Fail,
         Rules!UseTable, Rules!SwitchDialog, Rules!Submit, Rules!Toggle,
         Rules!RemoveSupp, Rules!Bulk, Rules!BulkThrows, Rules!Unheard, Rules!Refuse

\* Neither list takes in anything older.
LEMMA RulesShown ==
  ASSUME Rules!ReadSinceTold, [Rules!Next]_(Rules!vars)
  PROVE  Rules!ReadYourWrites
<1> USE DEF Rules!ReadSinceTold, Rules!ReadYourWrites
<1>1. ASSUME NEW r \in replies, Rules!Receive(r) PROVE Rules!ReadYourWrites
  BY <1>1 DEF Rules!Receive, Rules!R!Receive, Rules!slist
<1>2. ASSUME NEW r \in sreplies, Rules!SReceive(r) PROVE Rules!ReadYourWrites
  BY <1>2 DEF Rules!SReceive, Rules!S!Receive, Rules!list
<1>3. CASE Rules!Reopen
  BY <1>3 DEF Rules!Reopen
<1>4. ASSUME NEW b \in bulks, Rules!BulkDone(b) PROVE UNCHANGED <<data, supps>>
  BY <1>4 DEF Rules!BulkDone, Rules!Reload
<1>5. ASSUME NEW p \in posts, Rules!Done(p) PROVE UNCHANGED <<data, supps>>
  BY <1>5 DEF Rules!Done, Rules!Reload, Rules!list, Rules!slist
<1>6. CASE UNCHANGED <<data, supps>>
  BY <1>6
<1>7. QED
  BY <1>1, <1>2, <1>3, <1>4, <1>5, <1>6
     DEF Rules!Next, Rules!vars, Rules!list, Rules!slist, Rules!Tick, Rules!R!Tick,
         Rules!STick, Rules!S!Tick, Rules!Reply, Rules!R!Reply, Rules!SReply,
         Rules!S!Reply, Rules!ReadFails, Rules!R!Fail, Rules!S!Fail, Rules!UseTable,
         Rules!SwitchDialog, Rules!Submit, Rules!Toggle, Rules!RemoveSupp, Rules!Bulk,
         Rules!BulkThrows, Rules!Apply, Rules!OtherAdmin, Rules!Unheard, Rules!Refuse

-----------------------------------------------------------------------------
(* From page to page *)

\* What waits for its confirmation stays what was offered for the event in the sheet.
LEMMA TrailPending ==
  ASSUME Trail!IInv, [Trail!Next]_(Trail!vars)
  PROVE  Trail!IInv'
<1> USE DEF Trail!IInv
<1>1. CASE pending' = None
  BY <1>1
<1>2. CASE UNCHANGED <<at, sel, pending>>
  BY <1>2
<1>3. ASSUME NEW v \in DOMAIN Trail!Aim, Trail!Choose(v) PROVE Trail!IInv'
  <2>1. at' = "events" /\ sel' = sel /\ sel # None
    BY <1>3 DEF Trail!Choose, Trail!Sheet, Trail!place
  <2>2. (Trail!Offered(sel, v) /\ pending = Trail!Choice(sel, v))'
    BY <1>3, <2>1 DEF Trail!Choose, Trail!Offered, Trail!Choice
  <2>3. QED
    BY <2>1, <2>2
<1>4. ASSUME NEW p, NEW ask, Trail!Go(p, ask) PROVE Trail!IInv'
  BY <1>1, <1>2, <1>4 DEF Trail!Go, Trail!Mount, Trail!sheet
<1>5. ASSUME NEW p, NEW ask, Trail!Load(p, ask) PROVE Trail!IInv'
  BY <1>1, <1>5 DEF Trail!Load, Trail!Mount
<1>6. CASE Trail!Navigate
  BY <1>4, <1>6 DEF Trail!Navigate, Trail!go
<1>7. ASSUME NEW e \in DOMAIN Facts,
             Trail!OpenDetection(e) \/ Trail!Open(e) \/ Trail!OpenConnection(e)
             \/ Trail!OpenIncident(e)
      PROVE  Trail!IInv'
  BY <1>4, <1>7
     DEF Trail!OpenDetection, Trail!Open, Trail!OpenConnection, Trail!OpenIncident,
         Trail!Free
<1>8. ASSUME NEW c \in Categories, Trail!OpenCategory(c) PROVE Trail!IInv'
  BY <1>4, <1>8 DEF Trail!OpenCategory
<1>9. ASSUME NEW t \in Trail!Texts, Trail!OpenDestination(t) PROVE Trail!IInv'
  BY <1>5, <1>9 DEF Trail!OpenDestination
<1>10. CASE Trail!PivotAway
  BY <1>5, <1>10 DEF Trail!PivotAway
<1>11. CASE Trail!PivotHere \/ Trail!Close
  BY <1>11 DEF Trail!PivotHere, Trail!Close, Trail!Sheet
<1>12. CASE Trail!Confirm \/ Trail!Cancel
  BY <1>1, <1>12 DEF Trail!Confirm, Trail!Cancel
<1>13. QED
  BY <1>2, <1>3, <1>6, <1>7, <1>8, <1>9, <1>10, <1>11, <1>12
     DEF Trail!Next, Trail!vars, Trail!place, Trail!sheet, Trail!TogglePalette,
         Trail!OpenPalette, Trail!Settle, Trail!SetCategory, Trail!Type, Trail!Clear,
         Trail!Edit, Trail!Answered

\* Only a confirmation sends an action, the one that waited.
LEMMA TrailActs ==
  ASSUME Trail!IInv, [Trail!Next]_(Trail!vars)
  PROVE  [Trail!ActsOnShown]_vars
<1>1. CASE Trail!Confirm
  <2>1. PICK v \in DOMAIN Trail!Aim :
          Trail!Offered(sel, v) /\ pending = Trail!Choice(sel, v)
    BY <1>1 DEF Trail!Confirm, Trail!IInv
  <2>2. Trail!Request(pending) =
          [agent |-> Facts[sel].host, verb |-> v, target |-> Facts[sel][Trail!Aim[v]]]
    BY <2>1 DEF Trail!Choice, Trail!Request
  <2>3. /\ at = "events" /\ sel # None /\ ~palette
        /\ posts' = posts \cup {Trail!Request(pending)}
    BY <1>1 DEF Trail!Confirm, Trail!IInv, Trail!Act
  <2>4. CASE Trail!Request(pending) \in posts
    BY <2>3, <2>4 DEF Trail!ActsOnShown
  <2>5. CASE Trail!Request(pending) \notin posts
    <3>1. posts' \ posts = {Trail!Request(pending)}
      BY <2>3, <2>5
    <3>2. QED
      BY <2>1, <2>2, <2>3, <3>1 DEF Trail!ActsOnShown, Trail!Offered
  <2>6. QED
    BY <2>4, <2>5
<1>2. CASE posts' \subseteq posts
  BY <1>2 DEF Trail!ActsOnShown
<1>3. ASSUME NEW p, NEW ask, Trail!Go(p, ask) \/ Trail!Load(p, ask)
      PROVE  posts' \subseteq posts
  BY <1>3 DEF Trail!Go, Trail!Load
<1>4. QED
  BY <1>1, <1>2, <1>3
     DEF Trail!Next, Trail!vars, Trail!TogglePalette, Trail!OpenPalette, Trail!Navigate,
         Trail!go, Trail!PivotAway, Trail!PivotHere, Trail!Settle, Trail!Close,
         Trail!Cancel, Trail!OpenDetection, Trail!Open, Trail!OpenConnection,
         Trail!OpenIncident, Trail!OpenCategory, Trail!SetCategory,
         Trail!OpenDestination, Trail!Type, Trail!Clear, Trail!Edit, Trail!Choose,
         Trail!Answered

-----------------------------------------------------------------------------
(* The story *)

\* What is under way is of the host of the drawer's finding: another host throws away
\* what there was.
LEMMA TaleAnswers ==
  ASSUME Tale!AnswersOfHost, [Tale!Next]_(Tale!vars)
  PROVE  Tale!AnswersOfHost'
<1> USE DEF Tale!AnswersOfHost
<1>1. ASSUME NEW f \in DOMAIN Facts, Tale!Open(f) PROVE Tale!AnswersOfHost'
  BY <1>1 DEF Tale!Open
<1>2. ASSUME NEW f \in DOMAIN Facts, Tale!Become(f) PROVE Tale!AnswersOfHost'
  <2>1. sel # None /\ sel' = f
    BY <1>2 DEF Tale!Become, Tale!Show
  <2>2. CASE Tale!Host(f) = Tale!Host(sel)
    BY <1>2, <2>1, <2>2 DEF Tale!Become, Tale!Host, Tale!reads
  <2>3. CASE Tale!Host(f) # Tale!Host(sel)
    BY <1>2, <2>3 DEF Tale!Become, Tale!List!Restart
  <2>4. QED
    BY <2>2, <2>3
<1>3. CASE Tale!Close
  BY <1>3 DEF Tale!Close
<1>4. CASE Tale!Reply
  <2>1. sel # None => \A e \in Tale!Query : Facts[e].host = Tale!Host(sel)
    BY DEF Tale!Query, Tale!Of
  <2>2. replies' = replies \cup {Tale!Query} /\ sel' = sel
    BY <1>4 DEF Tale!Reply, Tale!Reading, Tale!List!Reply
  <2>3. QED
    BY <2>1, <2>2 DEF Tale!Host
<1>5. CASE replies' \subseteq replies /\ UNCHANGED sel
  BY <1>5 DEF Tale!Host
<1>6. QED
  BY <1>1, <1>2, <1>3, <1>4, <1>5
     DEF Tale!Next, Tale!vars, Tale!reads, Tale!DeepLink, Tale!Replaced,
         Tale!EventStored, Tale!PickRow, Tale!PickLineage, Tale!Tick, Tale!Fails,
         Tale!Receive, Tale!Reading, Tale!List!Tick, Tale!List!Fail, Tale!List!Receive,
         Tale!Unpick, Tale!Confirm, Tale!Cancel, Tale!Recommend, Tale!Answered

\* What waits for its confirmation is what its finding recommends.
LEMMA TaleAsks ==
  ASSUME Tale!AsksForFinding, [Tale!Next]_(Tale!vars)
  PROVE  Tale!AsksForFinding'
<1> USE DEF Tale!AsksForFinding
<1>1. ASSUME NEW r \in {"isolate", "disable_account", "escalate"}, Tale!Recommend(r)
      PROVE  Tale!AsksForFinding'
  <2>1. CASE r = "escalate"
    BY <1>1, <2>1 DEF Tale!Recommend, Tale!Host
  <2>2. CASE r # "escalate"
    <3>1. pending' = Tale!Ask(sel, r)
      BY <1>1, <2>2 DEF Tale!Recommend
    <3>2. r = "disable_account" => Subject[sel].user # Root
      BY <1>1 DEF Tale!Recommend, Tale!Recommended
    <3>3. QED
      BY <3>1, <3>2 DEF Tale!Ask, Tale!Host
  <2>3. QED
    BY <2>1, <2>2
<1>2. CASE pending' \in {pending, None}
  BY <1>2 DEF Tale!Host
<1>3. QED
  BY <1>1, <1>2
     DEF Tale!Next, Tale!vars, Tale!acts, Tale!Open, Tale!Show, Tale!DeepLink,
         Tale!Replaced, Tale!Become, Tale!EventStored, Tale!PickRow, Tale!PickLineage,
         Tale!Close, Tale!Tick, Tale!Reply, Tale!Fails, Tale!Receive, Tale!Reading,
         Tale!Unpick, Tale!Confirm, Tale!Cancel, Tale!Answered

\* An answer taken is of the host of the drawer's finding.
LEMMA TaleShown ==
  ASSUME Tale!AnswersOfHost, [Tale!Next]_(Tale!vars)
  PROVE  Tale!StoryOfSubject
<1> USE DEF Tale!AnswersOfHost, Tale!StoryOfSubject
<1>1. ASSUME NEW r \in replies, Tale!Receive(r) PROVE Tale!StoryOfSubject
  BY <1>1 DEF Tale!Receive, Tale!Reading, Tale!List!Receive
<1>2. CASE data' \in {data, None}
  BY <1>2
<1>3. QED
  BY <1>1, <1>2
     DEF Tale!Next, Tale!vars, Tale!reads, Tale!Open, Tale!DeepLink, Tale!Replaced,
         Tale!Become, Tale!EventStored, Tale!PickRow, Tale!PickLineage, Tale!Close,
         Tale!Tick, Tale!List!Tick, Tale!Reply, Tale!List!Reply, Tale!Fails,
         Tale!List!Fail, Tale!Reading, Tale!Unpick, Tale!Recommend, Tale!Confirm,
         Tale!Cancel, Tale!Answered

\* Only a confirmation sends what contains, as it waited.
LEMMA TaleConfirmed ==
  ASSUME Tale!AsksForFinding, [Tale!Next]_(Tale!vars)
  PROVE  [Tale!RecommendedFor]_vars
<1>1. SUFFICES ASSUME NEW p \in posts' \ posts, p.verb # "escalate"
               PROVE  /\ p = pending /\ p.agent = Tale!Host(p.about)
                      /\ p.verb = "disable_account" =>
                           p.user = Subject[p.about].user /\ p.user # Root
  BY DEF Tale!RecommendedFor
<1>2. CASE Tale!Confirm
  BY <1>1, <1>2 DEF Tale!Confirm, Tale!AsksForFinding
<1>3. ASSUME NEW r \in {"isolate", "disable_account", "escalate"}, Tale!Recommend(r)
      PROVE  FALSE
  BY <1>1, <1>3 DEF Tale!Recommend, Tale!Ask
<1>4. CASE posts' \subseteq posts
  BY <1>1, <1>4
<1>5. QED
  BY <1>2, <1>3, <1>4
     DEF Tale!Next, Tale!vars, Tale!acts, Tale!Open, Tale!Show, Tale!DeepLink,
         Tale!Replaced, Tale!Become, Tale!EventStored, Tale!PickRow, Tale!PickLineage,
         Tale!Close, Tale!Tick, Tale!Reply, Tale!Fails, Tale!Receive, Tale!Reading,
         Tale!Unpick, Tale!Cancel, Tale!Answered

-----------------------------------------------------------------------------
(* The push channel *)

\* Its initial states satisfy the inductive invariant.
LEMMA ChannelInit ==
  ASSUME "channel" \in DOMAIN Moves, Push!Init
  PROVE  Push!IInv
<1>1. Push!Counted
  BY FS_EmptySet, SameFinite, SameCardinality DEF Push!Init, Push!Counted
<1>2. connected \in BOOLEAN
  BY Zenon DEF Push!Init
<1>3. QED
  BY <1>1, <1>2, ChannelFacts DEF Push!Init, Push!IInv, Push!TypeOK, Push!OneChannel

\* The count follows the components.
LEMMA CountedKept == ASSUME Push!Counted, [Push!Next]_(Push!vars) PROVE Push!Counted'
<1>1. CASE \E c \in Components : Push!Mount(c)
  <2>1. PICK c \in Components : Push!Mount(c)
    BY <1>1
  <2>2. QED
    BY <2>1, FS_AddElement, SameFinite, SameCardinality DEF Push!Counted, Push!Mount
<1>2. CASE \E c \in Components : Push!Unmount(c)
  <2>1. PICK c \in Components : Push!Unmount(c)
    BY <1>2
  <2>2. QED
    BY <2>1, FS_RemoveElement, SameFinite, SameCardinality DEF Push!Counted, Push!Unmount
<1>3. CASE UNCHANGED <<mounted, refs>>
  BY <1>3 DEF Push!Counted
<1>4. QED
  BY <1>1, <1>2, <1>3
     DEF Push!Next, Push!vars, Push!teardown, Push!Opened, Push!Refused, Push!WsOpened,
         Push!Dropped

\* Every step of it preserves the invariant.
LEMMA ChannelNext ==
  ASSUME "channel" \in DOMAIN Moves, Push!IInv, [Push!Next]_(Push!vars)
  PROVE  Push!IInv'
<1>1. Push!Counted' /\ Push!Counted
  BY CountedKept DEF Push!IInv
<1>2. (refs = 0 <=> mounted = {}) /\ refs \in Nat
  BY <1>1, FS_EmptySet, FS_CardinalityType, SameFinite, SameCardinality DEF Push!Counted
<1>3. refs' \in Nat
  BY <1>1, FS_CardinalityType, SameFinite, SameCardinality DEF Push!Counted
<1> USE <1>1, <1>2, <1>3, ChannelFacts DEF Push!IInv, Push!TypeOK, Push!OneChannel
<1>4. CASE Push!teardown
  <2>1. connected' \in BOOLEAN
    BY <1>4, Zenon DEF Push!teardown
  <2>2. QED
    BY <1>4, <2>1 DEF Push!teardown
<1>5. CASE Push!Opened
  BY <1>5 DEF Push!Opened
<1>6. CASE Push!Refused
  <2>1. connected' \in BOOLEAN
    BY <1>6, Zenon DEF Push!Refused
  <2>2. QED
    BY <1>6, <2>1 DEF Push!Refused, Push!Move
<1>7. CASE Push!WsOpened
  BY <1>7 DEF Push!WsOpened
<1>8. CASE Push!Dropped
  <2>1. connected' \in BOOLEAN
    BY <1>8, Zenon DEF Push!Dropped
  <2>2. QED
    BY <1>8, <2>1 DEF Push!Dropped, Push!Move
<1>9. ASSUME NEW c \in Components, Push!Mount(c) PROVE Push!IInv'
  BY <1>9 DEF Push!Mount, Push!ensure
<1>10. ASSUME NEW c \in Components, Push!Unmount(c) PROVE Push!IInv'
  BY <1>10 DEF Push!Unmount
<1>11. CASE UNCHANGED Push!vars
  BY <1>11 DEF Push!vars
<1>12. QED
  BY <1>4, <1>5, <1>6, <1>7, <1>8, <1>9, <1>10, <1>11 DEF Push!Next

-----------------------------------------------------------------------------
(* Figures *)

\* A set of numbers with 0 and with the successor of each of its members has them all.
LEMMA Induction ==
  ASSUME NEW T, 0 \in T, \A n \in Nat : n \in T => n + 1 \in T
  PROVE  Nat \subseteq T
<1> SUFFICES ASSUME Nat \ T # {} PROVE FALSE
  OBVIOUS
<1>1. IsWellFoundedOn(OpToRel(<, Nat), Nat)
  BY NatLessThanWellFounded
<1>2. PICK n \in Nat \ T : \A m \in Nat \ T : <<m, n>> \notin OpToRel(<, Nat)
  BY <1>1, WFMin
<1>3. n # 0 /\ n \in Nat
  BY <1>2
<1>4. n - 1 \in Nat /\ n - 1 < n /\ (n - 1) + 1 = n
  BY <1>3
<1>5. <<n - 1, n>> \in OpToRel(<, Nat)
  BY <1>3, <1>4 DEF OpToRel
<1>6. n - 1 \in T
  BY <1>2, <1>4, <1>5
<1>7. QED
  BY <1>2, <1>4, <1>6

\* g has the sums of the first numbers of s, up to m of them.
Adds(g, s, m) ==
  /\ g \in [0..m -> Nat] /\ g[0] = 0
  /\ \A n \in 1..m : g[n] = g[n - 1] + s[n]

\* Sums has those of the whole of s.
LEMMA SumsAdds ==
  ASSUME NEW L \in Nat, NEW s \in [1..L -> Nat]
  PROVE  Len(s) = L /\ Adds(Count!Sums(s), s, L) /\ Count!Sum(s) = Count!Sums(s)[L]
<1> DEFINE T == {m \in Nat : m <= L => \E g : Adds(g, s, m)}
<1>1. s \in Seq(Nat) /\ Len(s) = L
  BY IsASeq, LenProperties
<1>2. \A n \in 1..L : s[n] \in Nat
  OBVIOUS
<1>3. 0 \in T
  <2> DEFINE g == [n \in 0..0 |-> 0]
  <2>1. Adds(g, s, 0)
    BY DEF Adds
  <2>2. QED
    BY <2>1
<1>4. ASSUME NEW m \in Nat, m \in T PROVE m + 1 \in T
  <2> SUFFICES ASSUME m + 1 <= L PROVE \E h : Adds(h, s, m + 1)
    OBVIOUS
  <2>1. m <= L /\ m + 1 \in 1..L
    OBVIOUS
  <2>2. PICK g : Adds(g, s, m)
    BY <1>4, <2>1
  <2> DEFINE h == [n \in 0..(m + 1) |-> IF n = m + 1 THEN g[m] + s[m + 1] ELSE g[n]]
  <2>3. \A n \in 0..m : g[n] \in Nat
    BY <2>2 DEF Adds
  <2>4. h \in [0..(m + 1) -> Nat] /\ h[0] = 0
    <3>1. g[0] = 0 /\ 0 \in 0..(m + 1) /\ 0 # m + 1 /\ m \in 0..m
      BY <2>2 DEF Adds
    <3>2. g[m] + s[m + 1] \in Nat
      BY <1>2, <2>1, <2>3, <3>1
    <3>3. \A n \in 0..(m + 1) : n # m + 1 => n \in 0..m
      OBVIOUS
    <3>4. QED
      BY <2>3, <3>1, <3>2, <3>3
  <2>5. ASSUME NEW n \in 1..(m + 1) PROVE h[n] = h[n - 1] + s[n]
    <3>1. CASE n = m + 1
      BY <3>1
    <3>2. CASE n # m + 1
      <4>1. n \in 1..m /\ n - 1 \in 0..m /\ n - 1 # m + 1
        BY <3>2
      <4>2. QED
        BY <2>2, <4>1 DEF Adds
    <3>3. QED
      BY <3>1, <3>2
  <2>6. QED
    BY <2>4, <2>5 DEF Adds
<1>5. PICK g : Adds(g, s, L)
  <2>1. L \in T
    BY <1>3, <1>4, Induction
  <2>2. QED
    BY <2>1
<1> DEFINE Is(f) == f = [n \in 0..L |-> IF n = 0 THEN 0 ELSE f[n - 1] + s[n]]
<1>6. \E f : Is(f)
  <2>1. \A n \in 0..L : n = 0 \/ n \in 1..L
    OBVIOUS
  <2>2. Is(g)
    BY <1>5, <2>1 DEF Adds
  <2>3. QED
    BY <2>2
<1>7. Count!Sums(s) = CHOOSE f : Is(f)
  BY <1>1 DEF Count!Sums
<1> HIDE DEF Is
<1>8. Is(Count!Sums(s))
  BY <1>6, <1>7
<1> DEFINE u == Count!Sums(s)
<1>9. DOMAIN u = 0..L /\ u[0] = 0 /\ \A n \in 1..L : u[n] = u[n - 1] + s[n]
  <2>1. u = [n \in 0..L |-> IF n = 0 THEN 0 ELSE u[n - 1] + s[n]]
    BY <1>8 DEF Is
  <2>2. 0 \in 0..L /\ \A n \in 1..L : n \in 0..L /\ n # 0
    OBVIOUS
  <2> HIDE DEF u
  <2>3. QED
    BY <2>1, <2>2
<1>10. u = [n \in 0..L |-> u[n]]
  <2>1. u = [n \in 0..L |-> IF n = 0 THEN 0 ELSE u[n - 1] + s[n]]
    BY <1>8 DEF Is
  <2> HIDE DEF u
  <2>2. QED
    BY <2>1
<1> HIDE DEF u
<1>11. \A n \in 0..L : u[n] \in Nat
  <2> DEFINE U == {m \in Nat : m <= L => u[m] \in Nat}
  <2>1. 0 \in U
    BY <1>9
  <2>2. ASSUME NEW m \in Nat, m \in U PROVE m + 1 \in U
    <3> SUFFICES ASSUME m + 1 <= L PROVE u[m + 1] \in Nat
      OBVIOUS
    <3>1. m + 1 \in 1..L /\ m <= L /\ (m + 1) - 1 = m
      OBVIOUS
    <3>2. u[m + 1] = u[m] + s[m + 1]
      BY <1>9, <3>1
    <3>3. QED
      BY <1>2, <2>2, <3>1, <3>2
  <2>3. Nat \subseteq U
    BY <2>1, <2>2, Induction
  <2>4. QED
    BY <2>3
<1>12. Adds(u, s, L)
  BY <1>9, <1>10, <1>11 DEF Adds
<1>13. Count!Sum(s) = Count!Sums(s)[L]
  BY <1>1, Zenon DEF Count!Sum
<1>14. QED
  BY <1>1, <1>12, <1>13, Zenon DEF u

\* A sum is a number.
LEMMA SumType ==
  ASSUME NEW L \in Nat, NEW s \in [1..L -> Nat]
  PROVE  Count!Sum(s) \in Nat
<1> DEFINE u == Count!Sums(s)
<1>1. Adds(u, s, L) /\ Count!Sum(s) = u[L]
  BY SumsAdds
<1> HIDE DEF u
<1>2. QED
  BY <1>1 DEF Adds

\* The numbers t are the numbers s but for the j-th, which is x more.
Bumped(s, t, j, x, L) ==
  /\ s \in [1..L -> Nat] /\ t \in [1..L -> Nat] /\ j \in 1..L /\ x \in Nat
  /\ \A n \in 1..L : t[n] = IF n = j THEN s[n] + x ELSE s[n]

\* So is their sum: the second is larger by x once the j-th is reached, by nothing before.
LEMMA SumMore ==
  ASSUME NEW L \in Nat, NEW s, NEW t, NEW j, NEW x, Bumped(s, t, j, x, L)
  PROVE  Count!Sum(t) = Count!Sum(s) + x
<1>0. /\ s \in [1..L -> Nat] /\ t \in [1..L -> Nat] /\ j \in 1..L /\ x \in Nat
      /\ \A n \in 1..L : t[n] = IF n = j THEN s[n] + x ELSE s[n]
  BY DEF Bumped
<1> DEFINE u == Count!Sums(s)
           v == Count!Sums(t)
           more(n) == IF n < j THEN 0 ELSE x
           U == {n \in Nat : n <= L => v[n] = u[n] + more(n)}
<1>1. /\ Adds(u, s, L) /\ Count!Sum(s) = u[L]
      /\ Adds(v, t, L) /\ Count!Sum(t) = v[L]
  BY <1>0, SumsAdds
<1> HIDE DEF u, v
<1>2. 0 \in U
  <2>1. u[0] = 0 /\ v[0] = 0 /\ 0 < j
    BY <1>0, <1>1 DEF Adds
  <2>2. QED
    BY <2>1
<1>3. ASSUME NEW n \in Nat, n \in U PROVE n + 1 \in U
  <2> SUFFICES ASSUME n + 1 <= L PROVE v[n + 1] = u[n + 1] + more(n + 1)
    OBVIOUS
  <2>1. n + 1 \in 1..L /\ n \in 0..L /\ (n + 1) - 1 = n /\ n <= L
    OBVIOUS
  <2>2. u[n + 1] = u[n] + s[n + 1] /\ v[n + 1] = v[n] + t[n + 1]
    BY <1>1, <2>1 DEF Adds
  <2>3. u[n] \in Nat /\ v[n] \in Nat /\ s[n + 1] \in Nat /\ v[n] = u[n] + more(n)
    BY <1>0, <1>1, <1>3, <2>1 DEF Adds
  <2> HIDE DEF more
  <2>4. v[n + 1] = u[n] + more(n) + t[n + 1]
    BY <2>2, <2>3
  <2>5. more(n) + t[n + 1] = s[n + 1] + more(n + 1)
    <3>1. t[n + 1] = IF n + 1 = j THEN s[n + 1] + x ELSE s[n + 1]
      BY <1>0, <2>1
    <3>2. j \in Nat /\ x \in Nat /\ s[n + 1] \in Nat
      BY <1>0, <2>3
    <3>3. QED
      BY <3>1, <3>2 DEF more
  <2>6. more(n) \in Nat /\ more(n + 1) \in Nat /\ t[n + 1] \in Nat
    BY <1>0, <2>1 DEF more
  <2>7. QED
    BY <2>2, <2>3, <2>4, <2>5, <2>6
<1>4. L \in U
  BY <1>2, <1>3, Induction
<1>5. QED
  BY <1>0, <1>1, <1>4

\* Larger numbers have a larger sum.
LEMMA SumLess ==
  ASSUME NEW L \in Nat, NEW s \in [1..L -> Nat], NEW t \in [1..L -> Nat],
         \A n \in 1..L : s[n] <= t[n]
  PROVE  Count!Sum(s) <= Count!Sum(t)
<1> DEFINE u == Count!Sums(s)
           v == Count!Sums(t)
           U == {n \in Nat : n <= L => u[n] <= v[n]}
<1>1. /\ Adds(u, s, L) /\ Count!Sum(s) = u[L]
      /\ Adds(v, t, L) /\ Count!Sum(t) = v[L]
  BY SumsAdds
<1> HIDE DEF u, v
<1>2. 0 \in U
  BY <1>1 DEF Adds
<1>3. ASSUME NEW n \in Nat, n \in U PROVE n + 1 \in U
  <2> SUFFICES ASSUME n + 1 <= L PROVE u[n + 1] <= v[n + 1]
    OBVIOUS
  <2>1. n + 1 \in 1..L /\ n \in 0..L /\ (n + 1) - 1 = n /\ n <= L
    OBVIOUS
  <2>2. u[n + 1] = u[n] + s[n + 1] /\ v[n + 1] = v[n] + t[n + 1]
    BY <1>1, <2>1 DEF Adds
  <2>3. /\ u[n] \in Nat /\ v[n] \in Nat /\ u[n] <= v[n]
        /\ s[n + 1] \in Nat /\ t[n + 1] \in Nat /\ s[n + 1] <= t[n + 1]
    BY <1>1, <1>3, <2>1 DEF Adds
  <2>4. QED
    BY <2>2, <2>3
<1>4. L \in U
  BY <1>2, <1>3, Induction
<1>5. QED
  BY <1>1, <1>4

\* Nothing sums up to nothing.
LEMMA SumNone ==
  ASSUME NEW L \in Nat, NEW s \in [1..L -> Nat], \A n \in 1..L : s[n] = 0
  PROVE  Count!Sum(s) = 0
<1> DEFINE u == Count!Sums(s)
           U == {n \in Nat : n <= L => u[n] = 0}
<1>1. Adds(u, s, L) /\ Count!Sum(s) = u[L]
  BY SumsAdds
<1> HIDE DEF u
<1>2. 0 \in U
  BY <1>1 DEF Adds
<1>3. ASSUME NEW n \in Nat, n \in U PROVE n + 1 \in U
  <2> SUFFICES ASSUME n + 1 <= L PROVE u[n + 1] = 0
    OBVIOUS
  <2>1. n + 1 \in 1..L /\ (n + 1) - 1 = n /\ n <= L
    OBVIOUS
  <2>2. u[n + 1] = u[n] + s[n + 1]
    BY <1>1, <2>1 DEF Adds
  <2>3. QED
    BY <1>3, <2>1, <2>2
<1>4. L \in U
  BY <1>2, <1>3, Induction
<1>5. QED
  BY <1>1, <1>4

\* The sums of the numbers w, class by class.
OfClass(w, c, k) == [i \in DOMAIN w |-> IF c[i] = k THEN w[i] ELSE 0]
ByClass(w, c, m) == [k \in 1..m |-> Count!Sum(OfClass(w, c, k))]

\* They add up to the sum.
LEMMA SumByClass ==
  ASSUME NEW L \in Nat, NEW m \in Nat, NEW w \in [1..L -> Nat], NEW c \in [1..L -> 1..m]
  PROVE  Count!Sum(ByClass(w, c, m)) = Count!Sum(w)
<1> DEFINE of(k) == [i \in 1..L |-> IF c[i] = k THEN w[i] ELSE 0]
           u == Count!Sums(w)
           p == [k \in 1..m |-> Count!Sums(of(k))]
           b(n) == [k \in 1..m |-> p[k][n]]
           U == {n \in Nat : n <= L => Count!Sum(b(n)) = u[n]}
<1>1. Adds(u, w, L) /\ Count!Sum(w) = u[L]
  BY SumsAdds
<1>2. ASSUME NEW k \in 1..m
      PROVE  /\ Adds(p[k], of(k), L) /\ Count!Sum(of(k)) = p[k][L]
             /\ \A n \in 0..L : p[k][n] \in Nat
  <2>1. of(k) \in [1..L -> Nat]
    OBVIOUS
  <2> HIDE DEF of
  <2>2. p[k] = Count!Sums(of(k))
    OBVIOUS
  <2>3. Adds(p[k], of(k), L) /\ Count!Sum(of(k)) = p[k][L]
    BY <2>1, <2>2, SumsAdds
  <2> HIDE DEF p
  <2>4. QED
    BY <2>3 DEF Adds
<1>3. ASSUME NEW n \in 0..L PROVE b(n) \in [1..m -> Nat]
  <2> HIDE DEF p
  <2>1. QED
    BY <1>2
<1> HIDE DEF p, u
<1>4. 0 \in U
  <2>1. \A k \in 1..m : b(0)[k] = 0
    BY <1>2 DEF Adds
  <2>2. b(0) \in [1..m -> Nat]
    BY <1>3
  <2> HIDE DEF b
  <2>3. Count!Sum(b(0)) = 0
    BY <2>1, <2>2, SumNone
  <2>4. QED
    BY <1>1, <2>3 DEF Adds
<1>5. ASSUME NEW n \in Nat, n \in U PROVE n + 1 \in U
  <2> SUFFICES ASSUME n + 1 <= L PROVE Count!Sum(b(n + 1)) = u[n + 1]
    OBVIOUS
  <2>1. n + 1 \in 1..L /\ n \in 0..L /\ n + 1 \in 0..L /\ (n + 1) - 1 = n /\ n <= L
    OBVIOUS
  <2>2. c[n + 1] \in 1..m /\ w[n + 1] \in Nat
    BY <2>1
  <2>3. ASSUME NEW k \in 1..m
        PROVE  b(n + 1)[k] = IF k = c[n + 1] THEN b(n)[k] + w[n + 1] ELSE b(n)[k]
    <3>1. p[k][n + 1] = p[k][n] + of(k)[n + 1]
      <4> HIDE DEF of
      <4>1. QED
        BY <1>2, <2>1 DEF Adds
    <3>2. of(k)[n + 1] = IF c[n + 1] = k THEN w[n + 1] ELSE 0
      BY <2>1
    <3>3. p[k][n] \in Nat
      BY <1>2, <2>1
    <3>4. QED
      BY <3>1, <3>2, <3>3
  <2>4. b(n) \in [1..m -> Nat] /\ b(n + 1) \in [1..m -> Nat]
    BY <1>3, <2>1
  <2>5. Count!Sum(b(n)) = u[n]
    BY <1>5, <2>1
  <2> HIDE DEF b
  <2>6. Count!Sum(b(n + 1)) = Count!Sum(b(n)) + w[n + 1]
    <3> DEFINE s == b(n)
               t == b(n + 1)
               j == c[n + 1]
               x == w[n + 1]
    <3>1. Bumped(s, t, j, x, m)
      BY <2>2, <2>3, <2>4 DEF Bumped
    <3> HIDE DEF s, t, j, x
    <3>2. Count!Sum(t) = Count!Sum(s) + x
      BY <3>1, SumMore
    <3>3. QED
      BY <3>2 DEF s, t, x
  <2>7. u[n + 1] = u[n] + w[n + 1]
    BY <1>1, <2>1 DEF Adds
  <2>8. QED
    BY <2>5, <2>6, <2>7
<1>6. Count!Sum(b(L)) = u[L]
  <2>1. L \in U
    BY <1>4, <1>5, Induction
  <2>2. QED
    BY <2>1
<1>7. b(L) = [k \in 1..m |-> Count!Sum(of(k))]
  <2> HIDE DEF of
  <2>1. QED
    BY <1>2
<1>8. ByClass(w, c, m) = [k \in 1..m |-> Count!Sum(of(k))]
  BY DEF ByClass, OfClass
<1> HIDE DEF of, b
<1>9. QED
  BY <1>1, <1>6, <1>7, <1>8

\* The sum of ones is a number of elements.
LEMMA SumOfOnes ==
  ASSUME NEW L \in Nat, NEW S \in SUBSET (1..L)
  PROVE  Count!Sum([i \in 1..L |-> IF i \in S THEN 1 ELSE 0]) = Cardinality(S)
<1> DEFINE s == [i \in 1..L |-> IF i \in S THEN 1 ELSE 0]
           u == Count!Sums(s)
           U == {n \in Nat : n <= L => u[n] = Cardinality(S \cap (1..n))}
<1>1. s \in [1..L -> Nat] /\ \A n \in 1..L : s[n] = IF n \in S THEN 1 ELSE 0
  OBVIOUS
<1> HIDE DEF s
<1>2. Adds(u, s, L) /\ Count!Sum(s) = u[L]
  BY <1>1, SumsAdds
<1> HIDE DEF u
<1>3. \A n \in Nat : IsFiniteSet(1..n)
  BY FS_Interval
<1>4. 0 \in U
  <2>1. S \cap (1..0) = {}
    OBVIOUS
  <2>2. u[0] = 0
    BY <1>2 DEF Adds
  <2>3. QED
    BY <2>1, <2>2, FS_EmptySet
<1>5. ASSUME NEW n \in Nat, n \in U PROVE n + 1 \in U
  <2> SUFFICES ASSUME n + 1 <= L PROVE u[n + 1] = Cardinality(S \cap (1..(n + 1)))
    OBVIOUS
  <2>1. n + 1 \in 1..L /\ (n + 1) - 1 = n /\ n <= L
    OBVIOUS
  <2>2. u[n + 1] = u[n] + s[n + 1]
    BY <1>2, <2>1 DEF Adds
  <2> DEFINE A == S \cap (1..n)
             B == S \cap (1..(n + 1))
  <2>3. IsFiniteSet(A) /\ Cardinality(A) \in Nat
    <3>1. IsFiniteSet(1..n) /\ A \subseteq 1..n
      BY <1>3
    <3>2. QED
      BY <3>1, FS_Subset, FS_CardinalityType
  <2>4. u[n] = Cardinality(A)
    BY <1>5, <2>1
  <2>5. CASE n + 1 \in S
    <3>1. B = A \cup {n + 1} /\ n + 1 \notin A
      BY <2>5
    <3> HIDE DEF A, B
    <3>2. Cardinality(B) = Cardinality(A) + 1
      BY <2>3, <3>1, FS_AddElement
    <3>3. u[n + 1] = Cardinality(B)
      BY <1>1, <2>1, <2>2, <2>3, <2>4, <2>5, <3>2
    <3>4. QED
      BY <3>3 DEF B
  <2>6. CASE n + 1 \notin S
    <3>1. B = A
      BY <2>6
    <3>2. u[n + 1] = u[n]
      <4> HIDE DEF A, B
      <4>1. QED
        BY <1>1, <2>1, <2>2, <2>3, <2>4, <2>6
    <3>3. QED
      BY <2>4, <3>1, <3>2
  <2>7. QED
    BY <2>5, <2>6
<1>6. L \in U /\ S \cap (1..L) = S
  BY <1>4, <1>5, Induction
<1>7. QED
  BY <1>2, <1>6 DEF s

\* Division of natural numbers.
LEMMA DivIs ==
  ASSUME NEW a \in Nat, NEW b \in Nat \ {0}
  PROVE  /\ a \div b \in Nat
         /\ b * (a \div b) <= a /\ a < b * (a \div b) + b
  OBVIOUS


\* A product grows with its factor.
LEMMA Grows ==
  ASSUME NEW c \in Nat, NEW a \in Int, NEW b \in Int, a <= b
  PROVE  c * a <= c * b
<1>1. c * (b - a) >= 0
  <2> DEFINE d == b - a
  <2>1. d \in Nat
    OBVIOUS
  <2> HIDE DEF d
  <2>2. c * d >= 0
    BY <2>1
  <2>3. QED
    BY <2>2 DEF d
<1>2. c * (b - a) = c * b - c * a
  OBVIOUS
<1>3. QED
  BY <1>1, <1>2

\* What the assumption says of figures.
LEMMA FigureFacts ==
  /\ Buckets \in Nat \ {0, 1} /\ Window \in Nat \ {0, 1} /\ \A f \in Flows : f.out \in Nat
  /\ Stages \in Nat \ {0} /\ Ranks \in Nat \ {0} /\ Top \in Nat \ {0} /\ Around \in Nat \ {0}
  /\ Tactic \in [DOMAIN Tactic -> 1..Stages] /\ None \notin Nat
BY ConsoleAssumption

\* With q rows to a point n rows have p points: a point for each row, no more points than
\* there is room for, and more than one if there are more rows than one.
Fit(n, q, p) ==
  /\ q \in Nat \ {0} /\ p \in Nat /\ p <= Buckets /\ (n > 1 => p > 1)
  /\ \A i \in 1..n : (n - i) \div q + 1 \in 1..p

\* The points of the curve do.
LEMMA PointsFit ==
  ASSUME NEW n \in Nat \ {0}, NEW q, q = Count!Size(n)
  PROVE  Fit(n, q, (n + q - 1) \div q)
<1> DEFINE p == (n + q - 1) \div q
<1> DEFINE b == Buckets
<1>1. b \in Nat /\ b > 1
  BY FigureFacts
<1> HIDE DEF b
<1>2. q = (n + b - 1) \div b /\ n + b - 1 \in Nat
  BY <1>1 DEF Count!Size, b
<1>3. q \in Nat /\ b * q <= n + b - 1 /\ n + b - 1 < b * q + b
  <2> DEFINE a == n + b - 1
  <2>1. a \in Nat /\ b \in Nat \ {0}
    BY <1>1
  <2> HIDE DEF a
  <2>2. a \div b \in Nat /\ b * (a \div b) <= a /\ a < b * (a \div b) + b
    BY <2>1, DivIs
  <2>3. QED
    BY <1>2, <2>2 DEF a
<1>4. b * q \in Nat /\ n <= b * q
  BY <1>1, <1>3
<1>5. q # 0
  BY <1>1, <1>4
<1>6. n > 1 => q < n
  <2> SUFFICES ASSUME n > 1, n <= q PROVE FALSE
    BY <1>3
  <2>1. b * n <= b * q
    BY <1>1, <1>3, Grows
  <2>2. (b - 1) * n <= b - 1
    <3>1. (b - 1) * n = b * n - n /\ b * n \in Nat
      BY <1>1
    <3>2. QED
      BY <1>1, <1>3, <1>4, <2>1, <3>1
  <2>3. (b - 1) * 2 <= (b - 1) * n
    BY <1>1, Grows
  <2>4. (b - 1) * n \in Nat /\ (b - 1) * 2 = 2 * b - 2
    BY <1>1
  <2>5. QED
    BY <1>1, <2>2, <2>3, <2>4
<1>7. p \in Nat /\ q * p <= n + q - 1 /\ n + q - 1 < q * p + q
  <2> DEFINE a == n + q - 1
  <2>1. a \in Nat /\ q \in Nat \ {0}
    BY <1>3, <1>5
  <2>2. p = a \div q
    OBVIOUS
  <2> HIDE DEF a, p
  <2>3. a \div q \in Nat /\ q * (a \div q) <= a /\ a < q * (a \div q) + q
    BY <2>1, DivIs
  <2>4. QED
    BY <2>2, <2>3 DEF a
<1> HIDE DEF p
<1>8. q * p \in Nat /\ n <= q * p
  BY <1>3, <1>7
<1>9. p <= b
  <2> SUFFICES ASSUME b + 1 <= p PROVE FALSE
    BY <1>1, <1>7
  <2>1. q * (b + 1) <= q * p
    BY <1>1, <1>3, <1>7, Grows
  <2>2. q * (b + 1) = b * q + q
    BY <1>1, <1>3
  <2>3. QED
    BY <1>3, <1>4, <1>7, <1>8, <2>1, <2>2
<1>10. n > 1 => p > 1
  <2> SUFFICES ASSUME n > 1, p <= 1 PROVE FALSE
    BY <1>7
  <2>1. q * p <= q * 1 /\ q * 1 = q
    BY <1>3, <1>7, Grows
  <2>2. QED
    BY <1>3, <1>6, <1>8, <2>1
<1>11. ASSUME NEW i \in 1..n PROVE (n - i) \div q + 1 \in 1..p
  <2> DEFINE a == n - i
             d == a \div q
  <2>1. a \in Nat /\ a < n /\ q \in Nat \ {0}
    BY <1>3, <1>5
  <2> HIDE DEF a
  <2>2. d \in Nat /\ q * d <= a
    BY <2>1, DivIs
  <2> HIDE DEF d
  <2>3. d < p
    <3> SUFFICES ASSUME p <= d PROVE FALSE
      BY <1>7, <2>2
    <3>1. q * p <= q * d /\ q * d \in Nat
      BY <1>3, <1>7, <2>2, Grows
    <3>2. QED
      BY <1>8, <2>1, <2>2, <3>1
  <2>4. d + 1 \in 1..p
    BY <1>7, <2>2, <2>3
  <2>5. QED
    BY <2>4 DEF d, a
<1>12. QED
  BY <1>3, <1>5, <1>7, <1>9, <1>10, <1>11 DEF b, p, Fit

\* Rows of the network page are connections, and those that leave the host.
Networked == at = "network" /\ data \in Seq(Flows)

\* The number of rows, and the bytes up of each.
LEMMA RowsOut ==
  ASSUME Networked
  PROVE  /\ Len(data) \in Nat /\ DOMAIN data = 1..Len(data)
         /\ \A i \in 1..Len(data) : data[i] \in Flows /\ data[i].out \in Nat
<1>1. Len(data) \in Nat /\ DOMAIN data = 1..Len(data)
      /\ \A i \in 1..Len(data) : data[i] \in Flows
  BY LenProperties, ElementOfSeq DEF Networked
<1>2. QED
  BY <1>1, FigureFacts

\* The points of the curve are no more than there is room for, and add up to the total.
LEMMA CurveIs ==
  ASSUME Networked
  PROVE  /\ Len(Count!Curve) <= Buckets
         /\ Len(data) > 1 => Count!Sum(Count!Curve) = Count!TotalOut
<1> DEFINE n == Len(data)
           q == Count!Size(n)
           p == (n + q - 1) \div q
           of(k) == {i \in 1..n : (n - i) \div q = k - 1}
           points == [k \in 1..p |-> Count!Up(of(k))]
<1>1. Count!Curve = IF p > 1 THEN points ELSE <<0, 0>>
  BY DEF Count!Curve
<1>2. /\ n \in Nat /\ DOMAIN data = 1..n
      /\ \A i \in 1..n : data[i].out \in Nat
  BY RowsOut
<1>3. CASE n = 0
  <2>1. q = 1 /\ p = 0
    BY <1>3 DEF Count!Size
  <2>2. Count!Curve = <<0, 0>>
    BY <1>1, <2>1
  <2>3. QED
    BY <1>3, <2>2, FigureFacts
<1>4. CASE n # 0
  <2> HIDE DEF n
  <2>1. n \in Nat \ {0}
    BY <1>2, <1>4
  <2>2. Fit(n, q, p)
    BY <2>1, PointsFit
  <2> HIDE DEF q, p
  <2>3. /\ q \in Nat \ {0} /\ p \in Nat /\ p <= Buckets /\ (n > 1 => p > 1)
        /\ \A i \in 1..n : (n - i) \div q + 1 \in 1..p
    BY <2>2 DEF Fit
  <2>4. Len(Count!Curve) <= Buckets
    <3>1. CASE p > 1
      <4>1. Count!Curve = points
        BY <1>1, <3>1
      <4> HIDE DEF of
      <4>2. DOMAIN points = 1..p /\ Len(points) = p
        BY <2>3
      <4>3. QED
        BY <2>3, <4>1, <4>2
    <3>2. CASE ~(p > 1)
      <4>1. Count!Curve = <<0, 0>>
        BY <1>1, <3>2
      <4>2. QED
        BY <4>1, FigureFacts
    <3>3. QED
      BY <3>1, <3>2
  <2>5. ASSUME n > 1 PROVE Count!Sum(Count!Curve) = Count!TotalOut
    <3> DEFINE w == [i \in 1..n |-> data[i].out]
               c == [i \in 1..n |-> (n - i) \div q + 1]
    <3>1. w \in [1..n -> Nat] /\ c \in [1..n -> 1..p]
      BY <1>2, <2>3
    <3>2. Count!Curve = points
      BY <1>1, <2>3, <2>5
    <3>3. ASSUME NEW k \in 1..p PROVE Count!Up(of(k)) = Count!Sum(OfClass(w, c, k))
      <4> DEFINE f == [i \in DOMAIN data |-> IF i \in of(k) THEN data[i].out ELSE 0]
                 g == OfClass(w, c, k)
      <4>1. Count!Up(of(k)) = Count!Sum(f)
        BY DEF Count!Up
      <4>2. \A i \in 1..n : (n - i) \div q \in Int
        BY <2>1, <2>3, DivIs
      <4>3. \A i \in 1..n : i \in of(k) <=> c[i] = k
        BY <4>2
      <4>4. f = g
        BY <1>2, <4>3 DEF OfClass
      <4> HIDE DEF f, g, of
      <4>5. QED
        BY <4>1, <4>4 DEF g
    <3>4. Count!TotalOut = Count!Sum(w)
      <4>1. [i \in DOMAIN data |-> IF i \in DOMAIN data THEN data[i].out ELSE 0] = w
        BY <1>2
      <4>2. QED
        BY <4>1, Zenon DEF Count!TotalOut, Count!Up
    <3> HIDE DEF w, c
    <3>5. Count!Sum(ByClass(w, c, p)) = Count!Sum(w)
      BY <1>2, <2>3, <3>1, SumByClass
    <3> HIDE DEF of
    <3>6. points = ByClass(w, c, p)
      BY <3>3 DEF ByClass
    <3>7. QED
      BY <3>2, <3>4, <3>5, <3>6
  <2>6. QED
    BY <2>4, <2>5 DEF n
<1>5. QED
  BY <1>3, <1>4

\* The numbers of some rows.
Only(v, S) == [i \in DOMAIN v |-> IF i \in S THEN v[i] ELSE 0]

\* Each outward connection is of the peer first listed at one of them.
LEMMA HeadOf ==
  ASSUME Networked, NEW i \in Count!Outward
  PROVE  \E k \in Count!Heads : Count!Named(data[k]) = Count!Named(data[i])
<1> DEFINE name(j) == Count!Named(data[j])
           T == {j \in Count!Outward : name(j) = name(i)}
           R == OpToRel(<, Nat)
<1>1. Count!Outward \subseteq Nat
  BY RowsOut DEF Count!Outward
<1>2. Count!Heads =
        {k \in Count!Outward : \A j \in Count!Outward : name(j) = name(k) => k <= j}
  BY DEF Count!Heads
<1> HIDE DEF name
<1>3. T \subseteq Nat /\ T # {}
  BY <1>1
<1> HIDE DEF T
<1>4. PICK k \in T : \A j \in T : <<j, k>> \notin R
  <2>1. IsWellFoundedOn(R, Nat)
    BY NatLessThanWellFounded
  <2> HIDE DEF R
  <2>2. QED
    BY <1>3, <2>1, WFMin
<1>5. \A j \in T : k <= j
  <2> SUFFICES ASSUME NEW j \in T, j < k PROVE FALSE
    BY <1>3
  <2>1. <<j, k>> \in R
    BY <1>3 DEF OpToRel
  <2>2. QED
    BY <1>4, <2>1
<1>6. k \in Count!Heads
  <2>1. k \in Count!Outward /\ name(k) = name(i)
    BY <1>4 DEF T
  <2>2. \A j \in Count!Outward : name(j) = name(k) => j \in T
    BY <2>1 DEF T
  <2>3. QED
    BY <1>2, <1>5, <2>1, <2>2
<1>7. name(k) = name(i)
  BY <1>4 DEF T
<1>8. QED
  BY <1>6, <1>7 DEF name

\* Two peers are not of one name.
LEMMA HeadsDiffer ==
  ASSUME Networked, NEW k \in Count!Heads, NEW l \in Count!Heads,
         Count!Named(data[k]) = Count!Named(data[l])
  PROVE  k = l
<1>1. k \in Nat /\ l \in Nat
  BY RowsOut DEF Count!Heads, Count!Outward
<1>2. k <= l /\ l <= k
  BY DEF Count!Heads
<1>3. QED
  BY <1>1, <1>2

\* What the peers have of it is what outward connections have.
LEMMA OverPeers ==
  ASSUME Networked, NEW v \in [1..Len(data) -> Nat], NEW f,
         \A k \in Count!Heads :
           f[k] = Count!Sum(Only(v, Count!To(Count!Named(data[k]))))
  PROVE  Count!Overall(f) = Count!Sum(Only(v, Count!Outward))
<1> DEFINE n == Len(data)
           name(i) == Count!Named(data[i])
           head(i) == CHOOSE k \in Count!Heads : name(k) = name(i)
           w == Only(v, Count!Outward)
           c == [i \in 1..n |-> IF i \in Count!Outward THEN head(i) ELSE 1]
<1>1. n \in Nat /\ DOMAIN data = 1..n /\ Count!Outward \subseteq 1..n
  BY RowsOut DEF Count!Outward
<1>2. ASSUME NEW i \in Count!Outward PROVE head(i) \in Count!Heads /\ name(head(i)) = name(i)
  <2>1. \E k \in Count!Heads : name(k) = name(i)
    BY HeadOf
  <2> HIDE DEF name
  <2>2. QED
    BY <2>1
<1>3. Count!Heads \subseteq Count!Outward
  BY DEF Count!Heads
<1> HIDE DEF head
<1>4. w \in [1..n -> Nat] /\ \A i \in 1..n : w[i] = IF i \in Count!Outward THEN v[i] ELSE 0
  BY DEF Only
<1>5. c \in [1..n -> 1..n]
  <2>1. \A i \in Count!Outward : head(i) \in 1..n
    BY <1>1, <1>2, <1>3
  <2>2. \A i \in 1..n : 1 \in 1..n
    BY <1>1
  <2>3. QED
    BY <2>1, <2>2
<1>6. Count!Sum(ByClass(w, c, n)) = Count!Sum(w)
  <2> HIDE DEF w, c, n
  <2>1. QED
    BY <1>1, <1>4, <1>5, SumByClass
<1>7. ASSUME NEW k \in 1..n
      PROVE  Count!Sum(OfClass(w, c, k)) = IF k \in Count!Heads THEN f[k] ELSE 0
  <2> DEFINE g == OfClass(w, c, k)
  <2>1. /\ g \in [1..n -> Nat]
        /\ \A i \in 1..n : g[i] = IF c[i] = k /\ i \in Count!Outward THEN v[i] ELSE 0
    <3> HIDE DEF w, c, n
    <3>1. \A i \in 1..n : v[i] \in Nat
      BY DEF n
    <3>2. QED
      BY <1>4, <3>1 DEF OfClass
  <2>2. \A i \in Count!Outward : c[i] = head(i)
    BY <1>1
  <2> HIDE DEF w, c, n, g
  <2>3. CASE k \in Count!Heads
    <3>1. ASSUME NEW i \in Count!Outward
          PROVE  head(i) = k <=> i \in Count!To(name(k))
      <4>1. head(i) = k => name(i) = name(k)
        BY <1>2
      <4>2. name(i) = name(k) => head(i) = k
        BY <1>2, <2>3, HeadsDiffer
      <4>3. QED
        BY <4>1, <4>2 DEF Count!To
    <3>2. Count!To(name(k)) \subseteq Count!Outward
      BY DEF Count!To
    <3>3. g = Only(v, Count!To(name(k)))
      <4>1. DOMAIN v = 1..n
        BY DEF n
      <4>2. QED
        BY <2>1, <2>2, <3>1, <3>2, <4>1 DEF Only
    <3>4. f[k] = Count!Sum(Only(v, Count!To(name(k))))
      BY <2>3
    <3>5. QED
      BY <2>3, <3>3, <3>4 DEF g
  <2>4. CASE k \notin Count!Heads
    <3>1. \A i \in 1..n : g[i] = 0
      BY <1>2, <2>1, <2>2, <2>4
    <3>2. Count!Sum(g) = 0
      BY <1>1, <2>1, <3>1, SumNone
    <3>3. QED
      BY <2>4, <3>2 DEF g
  <2>5. QED
    BY <2>3, <2>4
<1>8. ByClass(w, c, n) = [k \in DOMAIN data |-> IF k \in Count!Heads THEN f[k] ELSE 0]
  <2> HIDE DEF w, c, n
  <2>1. QED
    BY <1>1, <1>7 DEF ByClass
<1>9. QED
  <2> HIDE DEF c, n
  <2>1. QED
    BY <1>6, <1>8, Zenon DEF Count!Overall

\* The bytes of some rows are a sum of their bytes.
LEMMA UpOnly ==
  ASSUME Networked, NEW S
  PROVE  Count!Up(S) = Count!Sum(Only([i \in 1..Len(data) |-> data[i].out], S))
<1> DEFINE v == [i \in 1..Len(data) |-> data[i].out]
<1>1. [i \in DOMAIN data |-> IF i \in S THEN data[i].out ELSE 0] = Only(v, S)
  BY RowsOut DEF Only
<1>2. QED
  BY <1>1, Zenon DEF Count!Up

\* Each outward connection counts for one peer, with its bytes, and these are no more than
\* the bytes of all.
LEMMA PeersAre ==
  ASSUME Networked
  PROVE  /\ Count!Overall([i \in Count!Heads |-> Count!HitCount(Count!Named(data[i]))])
              = Count!Cardinality(Count!Outward)
         /\ Count!Overall([i \in Count!Heads |-> Count!Out(Count!Named(data[i]))])
              = Count!Up(Count!Outward)
         /\ Count!Up(Count!Outward) <= Count!TotalOut
<1> DEFINE n == Len(data)
           v == [i \in 1..n |-> data[i].out]
           one == [i \in 1..n |-> 1]
           hits == [i \in Count!Heads |-> Count!HitCount(Count!Named(data[i]))]
           outs == [i \in Count!Heads |-> Count!Out(Count!Named(data[i]))]
<1>1. /\ n \in Nat /\ DOMAIN data = 1..n /\ Count!Outward \subseteq 1..n
      /\ \A p : Count!To(p) \subseteq Count!Outward
  BY RowsOut DEF Count!Outward, Count!To
<1>2. one \in [1..n -> Nat] /\ v \in [1..n -> Nat]
  BY RowsOut
<1>3. \A S : Count!Cardinality(S) = Cardinality(S)
  BY SameCardinality
<1>4. ASSUME NEW S \in SUBSET (1..n) PROVE Count!Sum(Only(one, S)) = Cardinality(S)
  <2>1. Only(one, S) = [i \in 1..n |-> IF i \in S THEN 1 ELSE 0]
    BY DEF Only
  <2>2. QED
    BY <1>1, <2>1, SumOfOnes
<1>5. Count!Overall(hits) = Count!Cardinality(Count!Outward)
  <2>1. ASSUME NEW k \in Count!Heads
        PROVE  hits[k] = Count!Sum(Only(one, Count!To(Count!Named(data[k]))))
    <3> DEFINE S == Count!To(Count!Named(data[k]))
    <3>1. S \in SUBSET (1..n)
      BY <1>1
    <3>2. Count!Sum(Only(one, S)) = Cardinality(S)
      BY <1>4, <3>1
    <3>3. hits[k] = Count!Cardinality(S)
      BY Zenon DEF Count!HitCount
    <3>4. QED
      BY <1>3, <3>2, <3>3
  <2> HIDE DEF hits, one
  <2>2. Count!Overall(hits) = Count!Sum(Only(one, Count!Outward))
    BY <1>2, <2>1, OverPeers
  <2>3. QED
    BY <1>1, <1>3, <1>4, <2>2
<1>6. Count!Overall(outs) = Count!Up(Count!Outward)
  <2>1. ASSUME NEW k \in Count!Heads
        PROVE  outs[k] = Count!Sum(Only(v, Count!To(Count!Named(data[k]))))
    <3>1. outs[k] = Count!Up(Count!To(Count!Named(data[k])))
      BY Zenon DEF Count!Out
    <3>2. QED
      BY <3>1, UpOnly
  <2>2. Count!Up(Count!Outward) = Count!Sum(Only(v, Count!Outward))
    BY UpOnly
  <2> HIDE DEF outs, v
  <2>3. QED
    BY <1>2, <2>1, <2>2, OverPeers
<1>7. Count!Up(Count!Outward) <= Count!TotalOut
  <2>1. /\ Count!Up(Count!Outward) = Count!Sum(Only(v, Count!Outward))
        /\ Count!TotalOut = Count!Sum(Only(v, DOMAIN data))
    BY UpOnly DEF Count!TotalOut
  <2> DEFINE s == Only(v, Count!Outward)
             t == Only(v, DOMAIN data)
  <2>2. /\ s \in [1..n -> Nat] /\ t \in [1..n -> Nat]
        /\ \A i \in 1..n : s[i] <= t[i]
    <3> HIDE DEF v
    <3>1. DOMAIN v = 1..n /\ \A i \in 1..n : v[i] \in Nat
      BY <1>2
    <3>2. QED
      BY <1>1, <3>1 DEF Only
  <2> HIDE DEF s, t
  <2>3. Count!Sum(s) <= Count!Sum(t)
    BY <1>1, <2>2, SumLess
  <2>4. QED
    BY <2>1, <2>3 DEF s, t
<1>8. QED
  BY <1>5, <1>6, <1>7

\* A detection left out of the overview is no graver than one shown.
LEMMA OverviewIs ==
  ASSUME data \in Seq(1..Ranks),
         NEW i \in Count!Dets, NEW j \in DOMAIN data \ Count!Dets
  PROVE  data[i] >= data[j]
<1> SUFFICES ASSUME ~(data[i] >= data[j]) PROVE FALSE
  OBVIOUS
<1> DEFINE above(k) == {l \in DOMAIN data : Count!Above(l, k)}
<1>1. /\ DOMAIN data = 1..Len(data) /\ Len(data) \in Nat
      /\ \A k \in DOMAIN data : data[k] \in Nat
  BY LenProperties, ElementOfSeq, FigureFacts
<1>2. \A S : Count!Cardinality(S) = Cardinality(S)
  BY SameCardinality
<1>3. i \in DOMAIN data /\ Cardinality(above(i)) < Top
  BY <1>2 DEF Count!Dets
<1>4. ~(Cardinality(above(j)) < Top)
  BY <1>2 DEF Count!Dets
<1>5. above(j) \subseteq above(i) /\ IsFiniteSet(above(i))
  <2>1. ASSUME NEW l \in DOMAIN data, Count!Above(l, j) PROVE Count!Above(l, i)
    BY <1>1, <1>3, <2>1 DEF Count!Above
  <2>2. IsFiniteSet(DOMAIN data)
    BY <1>1, FS_Interval
  <2>3. above(i) \subseteq DOMAIN data
    OBVIOUS
  <2>4. IsFiniteSet(above(i))
    BY <2>2, <2>3, FS_Subset
  <2>5. QED
    BY <2>1, <2>4
<1> HIDE DEF above
<1>6. /\ Cardinality(above(j)) <= Cardinality(above(i))
      /\ Cardinality(above(i)) \in Nat /\ Cardinality(above(j)) \in Nat
  BY <1>5, FS_Subset, FS_CardinalityType
<1>7. QED
  BY <1>3, <1>4, <1>6, FigureFacts

\* Of some stages one is the first, and one the last.
LEMMA EndsOf ==
  ASSUME NEW S \in SUBSET (1..Stages), S # {}
  PROVE  /\ Count!Least(S) \in S /\ \A s \in S : Count!Least(S) <= s
         /\ Count!Most(S) \in S /\ \A s \in S : s <= Count!Most(S)
<1> DEFINE T == {Stages - s : s \in S}
           R == OpToRel(<, Nat)
<1>1. \A U \in SUBSET Nat : U # {} => \E x \in U : \A y \in U : x <= y
  <2> SUFFICES ASSUME NEW U \in SUBSET Nat, U # {} PROVE \E x \in U : \A y \in U : x <= y
    OBVIOUS
  <2>1. IsWellFoundedOn(R, Nat)
    BY NatLessThanWellFounded
  <2> HIDE DEF R
  <2>2. PICK x \in U : \A y \in U : <<y, x>> \notin R
    BY <2>1, WFMin
  <2>3. ASSUME NEW y \in U PROVE x <= y
    <3> SUFFICES ASSUME y < x PROVE FALSE
      OBVIOUS
    <3>1. <<y, x>> \in R
      BY DEF R, OpToRel
    <3>2. QED
      BY <2>2, <3>1
  <2>4. QED
    BY <2>3
<1>2. S \subseteq Nat /\ T \subseteq Nat /\ T # {} /\ \A s \in S : s <= Stages
  BY FigureFacts
<1>3. \E x \in S : \A y \in S : x <= y
  BY <1>1, <1>2
<1>4. \E x \in S : \A y \in S : x >= y
  <2>1. PICK x \in T : \A y \in T : x <= y
    BY <1>1, <1>2
  <2>2. PICK s \in S : x = Stages - s
    OBVIOUS
  <2>3. ASSUME NEW y \in S PROVE s >= y
    <3>1. Stages - s <= Stages - y
      BY <2>1, <2>2
    <3>2. QED
      BY <1>2, <3>1, FigureFacts
  <2>4. QED
    BY <2>3
<1>5. Count!Least(S) \in S /\ \A y \in S : Count!Least(S) <= y
  BY <1>3, Zenon DEF Count!Least
<1>6. Count!Most(S) \in S /\ \A y \in S : Count!Most(S) >= y
  BY <1>4, Zenon DEF Count!Most
<1>7. QED
  BY <1>2, <1>5, <1>6

\* The strip has every stage observed, and a little context.
LEMMA StripIs ==
  /\ Count!Observed \subseteq Count!Strip
  /\ \A s \in Count!Strip : \E o, p \in Count!Observed : o - Around <= s /\ s <= p + Around
<1> DEFINE O == Count!Observed
           a == Count!Least(O)
           z == Count!Most(O)
<1>1. O \subseteq 1..Stages
  <2>1. ASSUME NEW t PROVE Count!TechniqueTactic(t) \in 1..Stages \cup {None}
    BY FigureFacts DEF Count!TechniqueTactic
  <2>2. QED
    BY <2>1 DEF Count!Observed
<1>2. Count!Strip =
        IF O = {} THEN {} ELSE {s \in 1..Stages : s >= a - Around /\ s <= z + Around}
  BY DEF Count!Strip
<1>3. CASE O = {}
  BY <1>2, <1>3
<1>4. CASE O # {}
  <2>1. /\ a \in O /\ \A s \in O : a <= s
        /\ z \in O /\ \A s \in O : s <= z
    BY <1>1, <1>4, EndsOf
  <2> HIDE DEF O, a, z
  <2>2. Count!Strip = {s \in 1..Stages : s >= a - Around /\ s <= z + Around}
    BY <1>2, <1>4
  <2>3. ASSUME NEW s \in O PROVE s \in Count!Strip
    <3>1. s \in 1..Stages /\ a \in Nat /\ z \in Nat
      BY <1>1, <2>1
    <3>2. a <= s /\ s <= z
      BY <2>1
    <3>3. QED
      BY <2>2, <3>1, <3>2, FigureFacts
  <2>4. \A s \in Count!Strip : a - Around <= s /\ s <= z + Around
    <3>1. a \in Nat /\ z \in Nat
      BY <1>1, <2>1
    <3>2. QED
      BY <2>2, <3>1, FigureFacts
  <2>5. QED
    BY <2>1, <2>3, <2>4 DEF O
<1>5. QED
  BY <1>3, <1>4

\* A metric at rest shows its value after whatever rows come too.
LEMMA Rendered ==
  ASSUME Count!IInv, NEW batch, batch \in Seq(Count!Kinds[at]), Len(batch) <= Window,
         "figures" \in DOMAIN Moves, Count!Renders(batch)
  PROVE  Count!IInv'
<1>1. Len(batch) \in 0..Window /\ None \notin Nat /\ Window \in Nat
  BY LenProperties, FigureFacts
<1>2. data' = batch /\ at' = at /\ calm' = calm /\ Count!CountUp(Len(batch))
  BY DEF Count!Renders
<1>3. moves' \in 0..Moves["figures"]
  <2> DEFINE m == Moves["figures"]
  <2>1. m \in Nat
    BY ConsoleAssumption
  <2>2. moves < m /\ moves' = moves + 1 /\ moves \in 0..m
    BY DEF Count!Renders, Count!IInv, Count!TypeOK
  <2> HIDE DEF m
  <2>3. moves' \in 0..m
    BY <2>1, <2>2
  <2>4. QED
    BY <2>3 DEF m
<1>4. Count!Kinds' = Count!Kinds
  BY DEF Count!Kinds
<1>5. /\ {shown, from}' \subseteq 0..Window /\ frame' \in 0..Window \cup {None}
  BY <1>1, <1>2 DEF Count!CountUp, Count!IInv, Count!TypeOK
<1>6. Count!Rested'
  BY <1>1, <1>2 DEF Count!CountUp, Count!IInv, Count!Rested, Count!Value
<1>7. Count!TypeOK'
  BY <1>2, <1>3, <1>4, <1>5, Zenon DEF Count!IInv, Count!TypeOK
<1>8. QED
  BY <1>6, <1>7 DEF Count!IInv

\* With a row in front, cut to what a read returns, rows are rows.
LEMMA Arrived ==
  ASSUME NEW K, NEW s \in Seq(K), Len(s) <= Window, NEW x \in K
  PROVE  /\ Count!Cut(<<x>> \o s) \in Seq(K)
         /\ Len(Count!Cut(<<x>> \o s)) <= Window
<1> DEFINE t == <<x>> \o s
<1>1. t \in Seq(K) /\ Len(t) \in Nat
  BY LenProperties
<1> HIDE DEF t
<1>2. CASE Len(t) > Window
  <2> DEFINE u == SubSeq(t, 1, Window)
  <2>1. 1 \in 1..(Len(t) + 1) /\ Window \in 0..Len(t)
    BY <1>1, <1>2, FigureFacts
  <2>2. u \in Seq(K) /\ Len(u) = Window
    BY <1>1, <1>2, <2>1, FigureFacts, SubSeqProperties
  <2>3. Count!Cut(t) = u
    BY <1>2 DEF Count!Cut
  <2> HIDE DEF u
  <2>4. QED
    BY <2>2, <2>3, FigureFacts DEF t
<1>3. CASE ~(Len(t) > Window)
  BY <1>1, <1>3, FigureFacts DEF Count!Cut, t
<1>4. QED
  BY <1>2, <1>3

\* Without one of them, and another at the end, rows are rows.
LEMMA Left ==
  ASSUME NEW K, data \in Seq(K), NEW i \in 1..Len(data)
  PROVE  /\ Count!Without(i) \in Seq(K) /\ Len(Count!Without(i)) = Len(data) - 1
         /\ \A x \in K : /\ Append(Count!Without(i), x) \in Seq(K)
                         /\ Len(Append(Count!Without(i), x)) = Len(data)
<1> DEFINE a == SubSeq(data, 1, i - 1)
           b == SubSeq(data, i + 1, Len(data))
           t == Count!Without(i)
<1>1. Len(data) \in Nat
  BY LenProperties
<1>2. a \in Seq(K) /\ Len(a) = i - 1
  BY <1>1, SubSeqProperties
<1>3. b \in Seq(K) /\ Len(b) = Len(data) - i
  BY <1>1, SubSeqProperties
<1>4. t = a \o b
  BY DEF Count!Without
<1> HIDE DEF a, b, t
<1>5. t \in Seq(K) /\ Len(t) = Len(data) - 1
  <2>1. t \in Seq(K) /\ Len(t) = Len(a) + Len(b)
    BY <1>2, <1>3, <1>4, ConcatProperties
  <2>2. QED
    BY <1>1, <1>2, <1>3, <2>1
<1>6. \A x \in K : Append(t, x) \in Seq(K) /\ Len(Append(t, x)) = Len(data)
  BY <1>1, <1>5, AppendProperties
<1>7. QED
  BY <1>5, <1>6 DEF t

\* No step of the figures leaves a metric at rest at another value.
LEMMA FiguresInit ==
  ASSUME "figures" \in DOMAIN Moves, Count!Init
  PROVE  Count!IInv
<1>1. Moves["figures"] \in Nat /\ Window \in Nat
  BY ConsoleAssumption
<1>2. data \in Seq(Count!Kinds[at]) /\ Len(data) = 0
  BY DEF Count!Init
<1>3. /\ at \in Count!Pages /\ calm \in BOOLEAN
      /\ shown = 0 /\ from = 0 /\ frame = None /\ moves = 0
  BY DEF Count!Init
<1>4. Count!TypeOK
  BY <1>1, <1>2, <1>3 DEF Count!TypeOK
<1>5. QED
  BY <1>2, <1>3, <1>4 DEF Count!IInv, Count!Rested, Count!Value

\* Nor does any other.
LEMMA FiguresNext ==
  ASSUME Count!IInv, "figures" \in DOMAIN Moves, [Count!Next]_(Count!vars)
  PROVE  Count!IInv'
<1> DEFINE K == Count!Kinds[at]
<1>1. data \in Seq(K) /\ Len(data) <= Window /\ Len(data) \in Nat /\ DOMAIN data = 1..Len(data)
  BY LenProperties DEF Count!IInv, Count!TypeOK
<1>2. Window \in Nat /\ None \notin Nat
  BY FigureFacts
<1> HIDE DEF K
<1>3. ASSUME NEW x \in K, Count!Arrive(x) PROVE Count!IInv'
  <2> DEFINE batch == Count!Cut(<<x>> \o data)
  <2>1. Count!Renders(batch)
    BY <1>3 DEF Count!Arrive
  <2>2. batch \in Seq(K) /\ Len(batch) <= Window
    BY <1>1, Arrived
  <2> HIDE DEF batch
  <2>3. QED
    BY <2>1, <2>2, Rendered DEF K
<1>4. ASSUME NEW i, Count!Leave(i) PROVE Count!IInv'
  <2> DEFINE t == Count!Without(i)
  <2>1. i \in 1..Len(data)
    BY <1>1, <1>4 DEF Count!Leave
  <2>2. /\ t \in Seq(K) /\ Len(t) = Len(data) - 1
        /\ \A x \in K : Append(t, x) \in Seq(K) /\ Len(Append(t, x)) = Len(data)
    BY <1>1, <2>1, Left
  <2>3. Count!Renders(t) \/ \E x \in K : Count!Renders(Append(t, x))
    BY <1>4 DEF Count!Leave, K
  <2> HIDE DEF t
  <2>4. Len(t) <= Window
    <3>1. Len(t) = Len(data) - 1
      BY <2>2
    <3>2. QED
      BY <1>1, <1>2, <3>1
  <2>5. CASE Count!Renders(t)
    BY <2>2, <2>4, <2>5, Rendered DEF K
  <2>6. ASSUME NEW x \in K, Count!Renders(Append(t, x)) PROVE Count!IInv'
    <3> DEFINE u == Append(t, x)
    <3>1. u \in Seq(K) /\ Len(u) <= Window /\ Count!Renders(u)
      BY <1>1, <2>2, <2>6
    <3> HIDE DEF u
    <3>2. QED
      BY <3>1, Rendered DEF K
  <2>7. QED
    BY <2>3, <2>5, <2>6
<1>5. CASE Count!Frame
  <2>1. UNCHANGED <<at, data, calm, from, frame, moves>> /\ frame # None
    BY <1>5 DEF Count!Frame
  <2>2. shown' \in 0..Window
    BY <1>5 DEF Count!Frame, Count!Between
  <2>3. Count!TypeOK'
    BY <2>1, <2>2 DEF Count!IInv, Count!TypeOK, Count!Kinds, Count!Pages
  <2>4. QED
    BY <2>1, <2>3 DEF Count!IInv, Count!Rested, Count!Value
<1>6. CASE Count!LastFrame
  <2>1. /\ UNCHANGED <<at, data, calm, moves>> /\ frame # None
        /\ shown' = frame /\ from' = frame /\ frame' = None
    BY <1>6 DEF Count!LastFrame
  <2>2. frame \in 0..Window
    BY <2>1 DEF Count!IInv, Count!TypeOK
  <2>3. Count!TypeOK'
    BY <2>1, <2>2 DEF Count!IInv, Count!TypeOK, Count!Kinds, Count!Pages
  <2>4. QED
    BY <2>1, <2>3 DEF Count!IInv, Count!Rested, Count!Value
<1>7. CASE UNCHANGED Count!vars
  <2>1. UNCHANGED <<at, data, calm, shown, from, frame, moves>>
    BY <1>7 DEF Count!vars
  <2>2. Count!TypeOK'
    BY <2>1 DEF Count!IInv, Count!TypeOK, Count!Kinds, Count!Pages
  <2>3. QED
    BY <2>1, <2>2 DEF Count!IInv, Count!Rested, Count!Value
<1>8. QED
  BY <1>3, <1>4, <1>5, <1>6, <1>7 DEF Count!Next, K

\* The figures of a page agree.
LEMMA FiguresAre == Count!IInv => Count!FiguresAgree
<1> SUFFICES ASSUME Count!IInv PROVE Count!FiguresAgree
  OBVIOUS
<1>1. data \in Seq(Count!Kinds[at])
  BY DEF Count!IInv, Count!TypeOK
<1>2. at = "network" => Networked
  BY <1>1 DEF Networked, Count!Kinds
<1>3. at = "network" =>
        /\ Len(Count!Curve) <= Buckets
        /\ Len(data) > 1 => Count!Sum(Count!Curve) = Count!TotalOut
  BY <1>2, CurveIs
<1>4. at = "network" =>
        /\ Count!Overall([i \in Count!Heads |-> Count!HitCount(Count!Named(data[i]))])
             = Count!Cardinality(Count!Outward)
        /\ Count!Overall([i \in Count!Heads |-> Count!Out(Count!Named(data[i]))])
             = Count!Up(Count!Outward)
        /\ Count!Up(Count!Outward) <= Count!TotalOut
  BY <1>2, PeersAre, Zenon
<1>5. at = "overview" =>
        \A i \in Count!Dets, j \in DOMAIN data \ Count!Dets : data[i] >= data[j]
  <2>1. at = "overview" => data \in Seq(1..Ranks)
    BY <1>1 DEF Count!Kinds
  <2>2. QED
    BY <2>1, OverviewIs
<1>6. Count!Rested
  BY DEF Count!IInv
<1>7. QED
  BY <1>3, <1>4, <1>5, <1>6, StripIs, Zenon DEF Count!FiguresAgree

-----------------------------------------------------------------------------
(* Access *)

\* The initial states satisfy both halves of the invariant.
LEMMA AccessInit == Gate!Init => Gate!IInv
BY AccessFacts
   DEF Gate!Init, Gate!IInv, Gate!Rights, Gate!Tokens, Gate!CookieTold, Gate!TokenYoung,
       Gate!Times

\* Whatever a step does after Remember, the history bears out every cookie.
LEMMA Remembered ==
  ASSUME Gate!Rights, Gate!Remember
  PROVE  /\ last' \in [Browsers -> [Gate!Roles -> Gate!Times \cup {None}]]
         /\ \A b \in Browsers : cookie[b] # None =>
              /\ last'[b][cookie[b].role] # None
              /\ cookie[b].at <= last'[b][cookie[b].role]
<1>1. last' \in [Browsers -> [Gate!Roles -> Gate!Times \cup {None}]]
  BY DEF Gate!Rights, Gate!Remember
<1>2. ASSUME NEW b \in Browsers, cookie[b] # None
      PROVE  /\ last'[b][cookie[b].role] # None
             /\ cookie[b].at <= last'[b][cookie[b].role]
  <2>1. cookie[b].role \in Gate!Roles
    BY <1>2 DEF Gate!Rights
  <2>2. last'[b][cookie[b].role] = IF Gate!Has(b, cookie[b].role) THEN now
                                   ELSE last[b][cookie[b].role]
    BY <2>1 DEF Gate!Remember
  <2>3. /\ cookie[b].at <= now
        /\ \/ Gate!Has(b, cookie[b].role)
           \/ /\ last[b][cookie[b].role] # None
              /\ cookie[b].at <= last[b][cookie[b].role]
    BY <1>2 DEF Gate!Rights, Gate!CookieTold
  <2>4. now # None
    <3>1. now \in Nat
      BY AccessFacts DEF Gate!Rights, Gate!Times
    <3>2. None \notin Nat
      BY AccessFacts
    <3>3. QED
      BY <3>1, <3>2
  <2>5. QED
    BY <2>2, <2>3, <2>4
<1>3. QED
  BY <1>1, <1>2

\* A session that starts, or is looked up anew, is told to its browser as it is; the
\* other browsers are left alone.
LEMMA Renewed ==
  ASSUME Gate!Rights, NEW b \in Browsers, UNCHANGED <<now, role, last>>,
         cookie' = [cookie EXCEPT ![b] = [role |-> role, at |-> now]],
         sess' \in [Browsers -> Nat \cup {None}], Gate!Has(b, role)',
         \A x \in Browsers \ {b} : sess'[x] = sess[x]
  PROVE  Gate!Rights'
<1> USE DEF Gate!Rights
<1>1. cookie' \in [Browsers -> [role : Gate!Roles, at : Gate!Times] \cup {None}]
  OBVIOUS
<1>2. ASSUME NEW x \in Browsers, cookie'[x] # None
      PROVE  /\ cookie'[x].at <= now'
             /\ \/ Gate!Has(x, cookie[x].role)'
                \/ /\ last'[x][cookie'[x].role] # None
                   /\ cookie'[x].at <= last'[x][cookie'[x].role]
  <2>1. CASE x = b
    <3>1. cookie'[x].role = role' /\ cookie'[x].at = now'
      BY <2>1
    <3>2. Gate!Alive(x)'
      BY <2>1 DEF Gate!Has
    <3>3. Gate!Has(x, cookie[x].role)'
      BY <3>1, <3>2 DEF Gate!Has
    <3>4. now' <= now'
      BY AccessFacts DEF Gate!Times
    <3>5. QED
      BY <3>1, <3>3, <3>4
  <2>2. CASE x # b
    <3>1. cookie'[x] = cookie[x] /\ sess'[x] = sess[x]
      BY <2>2
    <3>2. /\ cookie[x].at <= now
          /\ \/ Gate!Has(x, cookie[x].role)
             \/ /\ last[x][cookie[x].role] # None
                /\ cookie[x].at <= last[x][cookie[x].role]
      BY <1>2, <3>1 DEF Gate!CookieTold
    <3>3. Gate!Has(x, cookie[x].role) => Gate!Has(x, cookie[x].role)'
      BY <3>1 DEF Gate!Has, Gate!Alive
    <3>4. QED
      BY <3>1, <3>2, <3>3
  <2>3. QED
    BY <2>1, <2>2
<1>3. Gate!CookieTold'
  BY <1>2 DEF Gate!CookieTold
<1>4. QED
  BY <1>1, <1>3

\* Entering starts a session that lives.
LEMMA Entered ==
  ASSUME Gate!Rights, NEW b \in Browsers, Gate!Enter(b), UNCHANGED <<now, role, last>>
  PROVE  Gate!Rights'
<1>1. sess' = [sess EXCEPT ![b] = now + SessionTTL]
  BY DEF Gate!Enter
<1>2. now \in Nat /\ now + SessionTTL \in Nat /\ now < now + SessionTTL
  BY AccessFacts DEF Gate!Rights, Gate!Times
<1>3. sess' \in [Browsers -> Nat \cup {None}]
  BY <1>1, <1>2 DEF Gate!Rights
<1>4. sess'[b] = now + SessionTTL
  BY <1>1 DEF Gate!Rights
<1>5. Gate!Has(b, role)'
  BY <1>2, <1>4, AccessFacts DEF Gate!Has, Gate!Alive
<1>6. QED
  BY <1>1, <1>3, <1>5, Renewed DEF Gate!Enter, Gate!Rights

\* Every step keeps the rights half.
LEMMA NextRights == Gate!Rights /\ [Gate!Next]_(Gate!vars) => Gate!Rights'
<1> SUFFICES ASSUME Gate!Rights, [Gate!Next]_(Gate!vars) PROVE Gate!Rights'
  OBVIOUS
<1>1. CASE Gate!Advance
  <2>1. now' \in Gate!Times /\ now <= now'
    BY <1>1, AccessFacts DEF Gate!Advance, Gate!Rights, Gate!Times
  <2>2. QED
    BY <1>1, <2>1, Remembered, AccessFacts
       DEF Gate!Advance, Gate!Rights, Gate!CookieTold, Gate!Times
<1>2. ASSUME NEW r \in Gate!Roles, Gate!SetRole(r) PROVE Gate!Rights'
  BY <1>2, Remembered DEF Gate!SetRole, Gate!Rights, Gate!CookieTold
<1>3. ASSUME NEW b \in Browsers, Gate!SignIn(b) PROVE Gate!Rights'
  <2>1. CASE tfa
    BY <1>3, <2>1 DEF Gate!SignIn, Gate!Rights, Gate!CookieTold, Gate!Has, Gate!Alive
  <2>2. CASE ~tfa
    BY <1>3, <2>2, Entered DEF Gate!SignIn
  <2>3. QED
    BY <2>1, <2>2
<1>4. ASSUME NEW b \in Browsers, Gate!verify2fa(b) PROVE Gate!Rights'
  BY <1>4, Entered DEF Gate!verify2fa
<1>5. ASSUME NEW b \in Browsers, Gate!signOut(b) PROVE Gate!Rights'
  BY <1>5, Remembered DEF Gate!signOut, Gate!Rights, Gate!CookieTold
<1>6. ASSUME NEW b \in Browsers, Gate!ChangePassword(b) PROVE Gate!Rights'
  BY <1>6, Remembered DEF Gate!ChangePassword, Gate!Rights, Gate!CookieTold
<1>7. ASSUME NEW b \in Browsers, Gate!Refetch(b) PROVE Gate!Rights'
  <2>1. CASE Gate!Alive(b)
    <3>1. Gate!Has(b, role)'
      BY <1>7, <2>1 DEF Gate!Refetch, Gate!Has, Gate!Alive, Gate!who
    <3>2. QED
      BY <1>7, <2>1, <3>1, Renewed DEF Gate!Refetch, Gate!Rights, Gate!who
  <2>2. CASE ~Gate!Alive(b)
    BY <1>7, <2>2
       DEF Gate!Refetch, Gate!Rights, Gate!CookieTold, Gate!Has, Gate!Alive, Gate!who
  <2>3. QED
    BY <2>1, <2>2
<1>8. CASE UNCHANGED <<now, role, sess, cookie, last>>
  BY <1>8 DEF Gate!Rights, Gate!CookieTold, Gate!Has, Gate!Alive
<1>9. QED
  BY <1>1, <1>2, <1>3, <1>4, <1>5, <1>6, <1>7, <1>8
     DEF Gate!Next, Gate!vars, Gate!who, Gate!Back, Gate!Card, Gate!SwitchTfa,
         Gate!Redirect, Gate!Call, Gate!UseKept, Gate!Login, Gate!LoginAnswered,
         Gate!LoginArrives

\* Every step keeps the other half.
LEMMA NextTokens == Gate!Tokens /\ [Gate!Next]_(Gate!vars) => Gate!Tokens'
<1> SUFFICES ASSUME Gate!Tokens, [Gate!Next]_(Gate!vars) PROVE Gate!Tokens'
  OBVIOUS
<1> USE AccessFacts DEF Gate!Tokens, Gate!TokenYoung, Gate!Times
<1>1. CASE Gate!Advance
  BY <1>1 DEF Gate!Advance
<1>2. ASSUME NEW b \in Browsers, NEW op \in Gate!Ops, NEW c \in Calls, Gate!Call(b, op, c)
      PROVE  Gate!Tokens'
  BY <1>2 DEF Gate!Call
<1>3. ASSUME NEW c \in Calls, Gate!UseKept(c) PROVE Gate!Tokens'
  BY <1>3 DEF Gate!UseKept
<1>4. ASSUME NEW c \in Calls, Gate!Login(c) PROVE Gate!Tokens'
  BY <1>4 DEF Gate!Login
<1>5. ASSUME NEW c \in Calls, Gate!LoginAnswered(c) PROVE Gate!Tokens'
  BY <1>5 DEF Gate!LoginAnswered
<1>6. ASSUME NEW c \in Calls, Gate!LoginArrives(c) PROVE Gate!Tokens'
  BY <1>6 DEF Gate!LoginArrives, Gate!Keeping
<1>7. CASE UNCHANGED <<now, token, calls>>
  BY <1>7
<1>8. QED
  BY <1>1, <1>2, <1>3, <1>4, <1>5, <1>6, <1>7
     DEF Gate!Next, Gate!vars, Gate!who, Gate!SetRole, Gate!SignIn, Gate!verify2fa,
         Gate!Back, Gate!signOut, Gate!ChangePassword, Gate!Card, Gate!SwitchTfa,
         Gate!Refetch, Gate!Redirect

\* The role the proxy asks for a call is no lower than the one the server's routes do.
LEMMA MinRoleSuffices ==
  \A op \in Gate!Ops :
    /\ Gate!RANK[Gate!MinRole(op)] >= Gate!RANK[Gate!Required[op]]
    /\ Gate!MinRole(op) \in Gate!Roles
BY
   DEF Gate!Ops, Gate!Verb, Gate!Required, Gate!MinRole, Gate!getMinRole,
       Gate!writeMinRole, Gate!RANK, Gate!Roles

\* What the proxy lets through is what the session has or had within a cookie's life.
LEMMA CallEntitled ==
  ASSUME Gate!Rights, NEW b \in Browsers, NEW op \in Gate!Ops, NEW c \in Calls,
         Gate!Call(b, op, c)
  PROVE  Gate!Entitled(b, op)
<1>1. Gate!Look(b) # None /\ Gate!RANK[Gate!Look(b)] >= Gate!RANK[Gate!MinRole(op)]
  BY DEF Gate!Call, Gate!allowed
<1>2. Gate!Look(b) \in Gate!Roles
  BY <1>1 DEF Gate!Look, Gate!Rights
<1>3. Gate!RANK[Gate!Look(b)] >= Gate!RANK[Gate!Required[op]]
  BY <1>1, <1>2, MinRoleSuffices
     DEF Gate!RANK, Gate!Roles, Gate!Required, Gate!Ops, Gate!Verb
<1>4. cookie[b] # None
  BY <1>1 DEF Gate!Look
<1>5. CASE now - cookie[b].at < CacheAge
  <2>1. Gate!Look(b) = cookie[b].role
    BY <1>4, <1>5 DEF Gate!Look
  <2>2. \/ Gate!Has(b, Gate!Look(b))
        \/ last[b][Gate!Look(b)] # None /\ cookie[b].at <= last[b][Gate!Look(b)]
    BY <1>4, <2>1 DEF Gate!Rights, Gate!CookieTold
  <2>3. cookie[b].at \in Int /\ now \in Int /\ last[b][Gate!Look(b)] \in Int \cup {None}
    BY <1>2, <1>4, AccessFacts DEF Gate!Rights, Gate!Times
  <2>4. \/ Gate!Has(b, Gate!Look(b))
        \/ last[b][Gate!Look(b)] # None /\ now - last[b][Gate!Look(b)] < CacheAge
    BY <1>5, <2>2, <2>3, AccessFacts
  <2>5. QED
    BY <1>2, <1>3, <2>4 DEF Gate!Entitled
<1>6. CASE ~(now - cookie[b].at < CacheAge)
  <2>1. Gate!Alive(b) /\ Gate!Look(b) = role
    BY <1>1, <1>4, <1>6 DEF Gate!Look
  <2>2. QED
    BY <1>2, <1>3, <2>1 DEF Gate!Entitled, Gate!Has
<1>7. QED
  BY <1>5, <1>6

-----------------------------------------------------------------------------
(* The console *)

\* The initial states of every part satisfy its invariant.
LEMMA InitIInv == Init => IInv
<1> SUFFICES ASSUME Init PROVE IInv
  OBVIOUS
<1>1. part \in DOMAIN Moves
  BY DEF Init
<1>2. CASE part = "detections" /\ Dets!Init
  BY <1>1, <1>2
     DEF IInv, Dets!Init, Dets!Opened, Dets!IInv, Dets!T!TicksKept, Dets!AnswersToStatus
<1>3. CASE part = "cases" /\ Cases!Init
  BY <1>1, <1>3 DEF IInv, Cases!Init, Cases!IInv
<1>4. CASE part = "endpoints" /\ Hosts!Init
  BY <1>1, <1>4 DEF IInv, Hosts!Init, Hosts!IInv, Hosts!T!TicksKept, Hosts!FailedPlain
<1>5. CASE part = "rules" /\ Rules!Init
  BY <1>1, <1>5 DEF IInv, Rules!Init, Rules!IInv, Rules!T!TicksKept, Rules!ReadSinceTold
<1>6. CASE part = "channel" /\ Push!Init
  BY <1>1, <1>6, ChannelInit DEF IInv
<1>7. CASE part = "hunt" /\ Trail!Init
  BY <1>1, <1>7 DEF IInv, Trail!Init, Trail!IInv
<1>8. CASE part = "story" /\ Tale!Init
  BY <1>1, <1>8 DEF IInv, Tale!Init, Tale!IInv, Tale!AnswersOfHost, Tale!AsksForFinding
<1>9. CASE part = "access" /\ Gate!Init
  BY <1>1, <1>9, AccessInit DEF IInv
<1>10. CASE part = "events" /\ Feed!Init
  BY <1>1, <1>10, FeedInit DEF IInv
<1>11. CASE part = "figures" /\ Count!Init
  BY <1>1, <1>11, FiguresInit DEF IInv
<1>12. QED
  BY <1>2, <1>3, <1>4, <1>5, <1>6, <1>7, <1>8, <1>9, <1>10, <1>11 DEF Init

\* Every step preserves the invariant of its part.
LEMMA NextIInv == IInv /\ [Next]_vars => IInv'
<1> SUFFICES ASSUME IInv, [Next]_vars PROVE IInv'
  OBVIOUS
<1>1. part' = part /\ part \in DOMAIN Moves
  BY StepOfPart DEF IInv
<1>2. part = "detections" => Dets!IInv'
  BY StepOfPart, DetsTicks, DetsAnswers DEF IInv, Dets!IInv
<1>3. part = "cases" => Cases!IInv'
  BY StepOfPart, CasesLoad DEF IInv
<1>4. part = "endpoints" => Hosts!IInv'
  BY StepOfPart, HostsTicks, HostsFailed DEF IInv, Hosts!IInv
<1>5. part = "rules" => Rules!IInv'
  BY StepOfPart, RulesTicks, RulesReads DEF IInv, Rules!IInv
<1>6. part = "channel" => Push!IInv'
  BY <1>1, StepOfPart, ChannelNext DEF IInv
<1>7. part = "hunt" => Trail!IInv'
  BY StepOfPart, TrailPending DEF IInv
<1>8. part = "story" => Tale!IInv'
  BY StepOfPart, TaleAnswers, TaleAsks DEF IInv, Tale!IInv
<1>9. part = "access" => Gate!IInv'
  BY StepOfPart, NextRights, NextTokens DEF IInv, Gate!IInv
<1>10. part = "events" => Feed!IInv'
  BY StepOfPart, FeedStored, FeedListed, FeedAsking DEF IInv, Feed!IInv, Added
<1>11. part = "figures" => Count!IInv'
  BY <1>1, StepOfPart, FiguresNext DEF IInv
<1>12. QED
  BY <1>1, <1>2, <1>3, <1>4, <1>5, <1>6, <1>7, <1>8, <1>9, <1>10, <1>11 DEF IInv

\* The invariant of every part of the dashboard: a list of events has no row twice,
\* every row of it is marked as seen, and answers to come match what was asked; the keys
\* a table holds are those of the rows ticked; what a page still has under way answers
\* to what it asks for now, and an action that waits for its confirmation is one offered
\* for what it names; refs in lib/use-stream.ts counts the components; a metric at rest
\* shows its value or had rested there; what a cookie says is so or was when the session
\* or role ended, and a kept token is no older than the time a login may take and the
\* time it is kept.
THEOREM Invariance == Spec => []IInv
<1>1. QED
  BY InitIInv, NextIInv, PTL DEF Spec

\* Rows come, go and move under the ticks, and a bulk action still reaches only the
\* detections, endpoints or rules the operator ticked.
THEOREM BulkHitsTickedHolds == Spec => []BulkHitsTicked
<1>1. IInv => BulkHitsTicked
  BY DEF IInv, BulkHitsTicked, Dets!IInv, Hosts!IInv, Rules!IInv, Dets!BulkHitsTicked,
     Hosts!BulkHitsTicked, Rules!BulkHitsTicked, Dets!T!TicksKept, Hosts!T!TicksKept,
     Rules!T!TicksKept, Dets!T!Selected, Hosts!T!Selected, Rules!T!Selected,
     Dets!T!Key, Hosts!T!Key, Rules!T!Key
<1>2. QED
  BY <1>1, Invariance, PTL

\* Whatever answers cross, no page takes in one to a question it no longer asks: not of
\* another filter, another case, another host, nor from before a write it was told of.
THEOREM DropsStaleHolds == Spec => DropsStale
<1>1. IInv /\ [Next]_vars =>
        [/\ part = "detections" => Dets!NoStaleRows
         /\ part = "cases"      => Cases!LoadsShowSelection
         /\ part = "story"      => Tale!StoryOfSubject
         /\ part = "rules"      => Rules!ReadYourWrites]_vars
  BY StepOfPart, DetsShown, CasesShown, TaleShown, RulesShown
     DEF IInv, Dets!IInv, Tale!IInv, Rules!IInv
<1>2. QED
  BY <1>1, Invariance, PTL DEF Spec, DropsStale

\* Whatever the order of pages, polls and broadcasts, no event is listed twice, and one
\* that does not match the filters comes from an older page asked for before.
THEOREM RowsOnceAndMatchingHolds == Spec => RowsOnceAndMatching
<1>1. IInv /\ [Next]_vars =>
        [part = "events" => Feed!NoDuplicates' /\ Feed!OnlyOlderPageStrays]_vars
  BY StepOfPart, FeedRows DEF IInv
<1>2. QED
  BY <1>1, Invariance, PTL DEF Spec, RowsOnceAndMatching

\* Containment goes out as confirmed, in bulk for what is ticked, or as a retry, and
\* from an event or a recommendation against just what that names, never root's.
THEOREM ContainmentHasCauseHolds == Spec => ContainmentHasCause
<1>1. IInv /\ [Next]_vars =>
        [/\ part = "detections" => Dets!ContainmentConfirmed
         /\ part = "endpoints"  => Hosts!ContainmentHasCause
         /\ part = "hunt"       => Trail!ActsOnShown
         /\ part = "story"      => Tale!RecommendedFor]_vars
  BY StepOfPart, DetsConfirmed, HostsCaused, TrailActs, TaleConfirmed DEF IInv, Tale!IInv
<1>2. QED
  BY <1>1, Invariance, PTL DEF Spec, ContainmentHasCause

\* There is an EventSource whenever a component wants one, and once the timeouts of
\* teardown have fired none that nobody wants; the relay's WebSocket is never without.
THEOREM OneChannelHolds == Spec => []OneChannel
<1>1. IInv => OneChannel
  BY DEF IInv, OneChannel, Push!IInv
<1>2. QED
  BY <1>1, Invariance, PTL

\* The proxy lets through only what the operator's session entitles to, or did a
\* cookie's life ago, and calls go out under a token the server still accepts.
THEOREM CallsEntitledHolds == Spec => CallsEntitled
<1>1. IInv => [part = "access" => Gate!CallsEntitled]_vars
  <2> SUFFICES ASSUME IInv, part = "access" PROVE Gate!CallsEntitled
    OBVIOUS
  <2>1. ASSUME NEW c \in Calls, Gate!UseKept(c) PROVE now < token.minted + TokenTTL
    BY <2>1, AccessFacts
       DEF Gate!UseKept, Gate!Kept, IInv, Gate!IInv, Gate!Tokens, Gate!TokenYoung,
           Gate!Times
  <2>2. QED
    BY <2>1, CallEntitled DEF IInv, Gate!IInv, Gate!CallsEntitled
<1>2. QED
  BY <1>1, Invariance, PTL DEF CallsEntitled

\* Whatever rows come and go: the upload curve has no more points than there is room for
\* and adds up to the total beside it, every outward connection counts for one peer, a
\* detection left out is no graver than one shown, the strip has every stage observed
\* and no more than the context around, and a metric at rest is where it should be.
THEOREM FiguresAgreeHolds == Spec => []FiguresAgree
<1>1. IInv => FiguresAgree
  BY FiguresAre DEF IInv, FiguresAgree
<1>2. QED
  BY <1>1, Invariance, PTL
-----------------------------------------------------------------------------
(* The older console: lists in order *)

\* R orders S.
Orders(S, R) ==
  /\ \A a \in S : <<a, a>> \notin R
  /\ \A a, b, c \in S : <<a, b>> \in R /\ <<b, c>> \in R => <<a, c>> \in R
  /\ \A a, b \in S : a = b \/ <<a, b>> \in R \/ <<b, a>> \in R

\* arr has the members of S in that order, each once.
InOrder(arr, S, R) ==
  /\ arr \in [1..Cardinality(S) -> S]
  /\ \A e \in S : \E k \in 1..Cardinality(S) : arr[k] = e
  /\ \A k, l \in 1..Cardinality(S) : k < l => arr[k] # arr[l] /\ <<arr[k], arr[l]>> \in R

\* How many are before e, and a list of those that have one less than their place.
Rank(e, S, R) == Cardinality({j \in S : <<j, e>> \in R})
ByRank(arr, S, R) ==
  /\ arr = [k \in 1..Cardinality(S) |-> arr[k]]
  /\ \A k \in 1..Cardinality(S) :
       (\E e \in S : Rank(e, S, R) = k - 1) => arr[k] \in S /\ Rank(arr[k], S, R) = k - 1

\* Of a finite set in order the number of members before each says its place.
LEMMA ArrangedIs ==
  ASSUME NEW S, IsFiniteSet(S), NEW R, Orders(S, R), NEW arr, ByRank(arr, S, R)
  PROVE  InOrder(arr, S, R)
<1> DEFINE Below(e) == {j \in S : <<j, e>> \in R}
           n == Cardinality(S)
           f == [e \in S |-> Cardinality(Below(e))]
<1>1. n \in Nat
  BY FS_CardinalityType
<1>2. ASSUME NEW e \in S
      PROVE  IsFiniteSet(Below(e)) /\ Cardinality(Below(e)) \in 0..(n - 1)
  <2>1. IsFiniteSet(S \ {e}) /\ Cardinality(S \ {e}) = n - 1
    BY FS_RemoveElement
  <2>2. Below(e) \in SUBSET (S \ {e})
    BY DEF Orders
  <2>3. IsFiniteSet(Below(e)) /\ Cardinality(Below(e)) <= n - 1
    BY <2>1, <2>2, FS_Subset
  <2>4. QED
    BY <1>1, <2>3, FS_CardinalityType
<1>0. /\ f = [e \in S |-> f[e]]
      /\ \A e \in S : f[e] = Cardinality(Below(e)) /\ f[e] \in Nat /\ f[e] \in 0..(n - 1)
  <2>1. \A e \in S : Cardinality(Below(e)) \in 0..(n - 1)
    BY <1>2
  <2>2. \A e \in S : Cardinality(Below(e)) \in Nat
    BY <1>1, <2>1
  <2> HIDE DEF Below, n
  <2>3. QED
    BY <2>1, <2>2
<1> HIDE DEF f
<1>3. ASSUME NEW a \in S, NEW b \in S, <<a, b>> \in R PROVE f[a] < f[b]
  <2>1. Below(a) \in SUBSET Below(b) /\ a \in Below(b) /\ a \notin Below(a)
    BY <1>3 DEF Orders
  <2>2. /\ Cardinality(Below(a)) <= Cardinality(Below(b))
        /\ Cardinality(Below(a)) = Cardinality(Below(b)) => Below(a) = Below(b)
    BY <1>2, <2>1, FS_Subset
  <2>3. Cardinality(Below(a)) # Cardinality(Below(b))
    BY <2>1, <2>2
  <2> HIDE DEF Below
  <2>4. QED
    BY <1>0, <2>2, <2>3
<1>4. f \in [S -> 0..(n - 1)] /\ \A a, b \in S : f[a] = f[b] => a = b
  <2>1. f \in [S -> 0..(n - 1)]
    BY <1>0
  <2>2. ASSUME NEW a \in S, NEW b \in S, f[a] = f[b] PROVE a = b
    <3>0. \A x \in Nat : ~(x < x)
      OBVIOUS
    <3>1. ~(f[a] < f[b]) /\ ~(f[b] < f[a])
      BY <1>0, <2>2, <3>0
    <3>2. <<a, b>> \notin R
      BY <1>3, <3>1
    <3>3. <<b, a>> \notin R
      BY <1>3, <3>1
    <3>4. QED
      BY <3>2, <3>3 DEF Orders
  <2>3. QED
    BY <2>1, <2>2
<1>5. IsFiniteSet(0..(n - 1)) /\ Cardinality(0..(n - 1)) = n
  <2>1. 0 \in Int /\ n - 1 \in Int /\ (IF 0 > n - 1 THEN 0 ELSE n - 1 - 0 + 1) = n
    BY <1>1
  <2>2. QED
    BY <2>1, FS_Interval
<1>6. f \in Surjection(S, 0..(n - 1))
  <2>1. f \in Injection(S, 0..(n - 1))
    BY <1>4, Fun_IsInj
  <2> HIDE DEF n
  <2>2. QED
    BY <1>5, <2>1, FS_Injection DEF n
<1>7. ASSUME NEW k \in 1..n PROVE arr[k] \in S /\ f[arr[k]] = k - 1
  <2>1. k - 1 \in 0..(n - 1)
    BY <1>1
  <2>2. PICK e \in S : f[e] = k - 1
    BY <1>6, <2>1 DEF Surjection
  <2>3. Rank(e, S, R) = k - 1
    BY <1>0, <2>2 DEF Rank
  <2>4. arr[k] \in S /\ Rank(arr[k], S, R) = k - 1
    BY <2>3 DEF ByRank
  <2>5. QED
    BY <1>0, <2>4 DEF Rank
<1>9. arr \in [1..n -> S]
  BY <1>7 DEF ByRank
<1> HIDE DEF n
<1>10. ASSUME NEW e \in S PROVE \E k \in 1..n : arr[k] = e
  <2>1. f[e] \in 0..(n - 1)
    BY <1>4
  <2>2. f[e] + 1 \in 1..n /\ (f[e] + 1) - 1 = f[e]
    BY <1>1, <2>1
  <2>3. arr[f[e] + 1] \in S /\ f[arr[f[e] + 1]] = f[e]
    BY <1>7, <2>2
  <2>4. QED
    BY <1>4, <2>2, <2>3
<1>11. ASSUME NEW k \in 1..n, NEW l \in 1..n, k < l
       PROVE  arr[k] # arr[l] /\ <<arr[k], arr[l]>> \in R
  <2>1. arr[k] \in S /\ arr[l] \in S /\ f[arr[k]] < f[arr[l]]
    BY <1>1, <1>7, <1>11
  <2>2. f[arr[k]] \in Nat /\ f[arr[l]] \in Nat
    BY <1>1, <1>7
  <2>3. <<arr[l], arr[k]>> \notin R
    BY <1>3, <2>1, <2>2
  <2>5. arr[k] # arr[l]
    BY <2>1, <2>2
  <2>4. QED
    BY <2>1, <2>3, <2>5 DEF Orders
<1>12. QED
  BY <1>9, <1>10, <1>11 DEF n, InOrder

\* The smaller before the larger, and the larger before the smaller.
Less(S) == {p \in S \X S : p[1] < p[2]}
More(S) == {p \in S \X S : p[1] > p[2]}

LEMMA LessOrders ==
  ASSUME NEW S, S \subseteq Int
  PROVE  Orders(S, Less(S)) /\ Orders(S, More(S))
<1>1. \A a, b \in S : a < b \/ a = b \/ b < a
  OBVIOUS
<1>2. \A a, b \in S : (<<a, b>> \in Less(S) <=> a < b) /\ (<<a, b>> \in More(S) <=> a > b)
  BY DEF Less, More
<1>3. Orders(S, Less(S))
  BY <1>1, <1>2 DEF Orders
<1>4. Orders(S, More(S))
  BY <1>1, <1>2 DEF Orders
<1>5. QED
  BY <1>3, <1>4

\* What the older console does with lists is what the module of lists says.
LEMMA SameInStore ==
  \A s, I : /\ Store!Pick(s, I) = Pick(s, I) /\ Store!Cardinality(I) = Cardinality(I)
BY Zenon DEF Store!Pick, Pick, Store!Arranged, Arranged, Store!Cardinality, Cardinality

LEMMA SameInTree ==
  \A s, I, n : /\ Tree!Pick(s, I) = Pick(s, I) /\ Tree!Cardinality(I) = Cardinality(I)
               /\ Tree!Prefix(s, n) = Prefix(s, n) /\ Tree!Least(I) = Least(I)
BY Zenon DEF Tree!Pick, Pick, Tree!Arranged, Arranged, Tree!Cardinality, Cardinality,
   Tree!Prefix, Prefix, Tree!Least, Least

LEMMA SameInTable ==
  \A s, I, n : /\ Table!Pick(s, I) = Pick(s, I) /\ Table!Cardinality(I) = Cardinality(I)
               /\ Table!Prefix(s, n) = Prefix(s, n)
BY Zenon DEF Table!Pick, Pick, Table!Arranged, Arranged, Table!Cardinality, Cardinality,
   Table!Prefix, Prefix

\* p has what s has at the places I, in that order.
Chosen(p, s, I) ==
  /\ Len(p) = Cardinality(I) /\ DOMAIN p = 1..Cardinality(I)
  /\ \A k \in DOMAIN p : \E i \in I : p[k] = s[i]
  /\ \A i \in I : \E k \in DOMAIN p : p[k] = s[i]
  /\ \A k, l \in DOMAIN p : k < l => \E i, j \in I : i < j /\ p[k] = s[i] /\ p[l] = s[j]

\* What a list has that was taken from s by a list of places in order.
Taken(p, s, I, ord, T) ==
  /\ IsFiniteSet(I) /\ Cardinality(I) \in Nat /\ p \in Seq(T) /\ Len(p) = Cardinality(I)
  /\ DOMAIN p = 1..Cardinality(I)
  /\ \A k \in DOMAIN p : ord[k] \in I /\ p[k] = s[ord[k]]
  /\ \A i \in I : \E k \in DOMAIN p : p[k] = s[i]

LEMMA TakenIs ==
  ASSUME NEW T, NEW s \in Seq(T), NEW I \in SUBSET (DOMAIN s),
         NEW R, R \subseteq I \X I,
         NEW ord, InOrder(ord, I, R), NEW p, p = [k \in DOMAIN ord |-> s[ord[k]]]
  PROVE  Taken(p, s, I, ord, T)
<1> DEFINE n == Cardinality(I)
<1>1. IsFiniteSet(DOMAIN s)
  <2>1. DOMAIN s = 1..Len(s) /\ Len(s) \in Nat
    BY LenProperties
  <2>2. QED
    BY <2>1, FS_Interval
<1>2. IsFiniteSet(I) /\ n \in Nat
  BY <1>1, FS_Subset, FS_CardinalityType
<1>3. /\ ord \in [1..n -> I]
      /\ \A i \in I : \E k \in 1..n : ord[k] = i
  BY DEF InOrder
<1> HIDE DEF n
<1>4. \A i \in I : s[i] \in T
  BY ElementOfSeq, LenProperties
<1>5. p \in [1..n -> T] /\ DOMAIN p = 1..n /\ \A k \in 1..n : p[k] = s[ord[k]]
  BY <1>3, <1>4
<1>6. p \in Seq(T) /\ Len(p) = n
  BY <1>2, <1>5, IsASeq, LenProperties
<1>7. QED
  BY <1>2, <1>3, <1>5, <1>6 DEF n, Taken

LEMMA PickIs ==
  ASSUME NEW T, NEW s \in Seq(T), NEW I \in SUBSET (DOMAIN s)
  PROVE  Pick(s, I) \in Seq(T) /\ Chosen(Pick(s, I), s, I)
<1> DEFINE ord == Arranged(I, LAMBDA i, j : i < j)
           p == Pick(s, I)
           n == Cardinality(I)
<1>1. DOMAIN s = 1..Len(s) /\ Len(s) \in Nat
  BY LenProperties
<1>2. IsFiniteSet(I) /\ n \in Nat /\ I \subseteq Int
  <2>1. IsFiniteSet(DOMAIN s)
    BY <1>1, FS_Interval
  <2>2. QED
    BY <1>1, <2>1, FS_Subset, FS_CardinalityType
<1>3. ByRank(ord, I, Less(I))
  <2>1. \A e \in I : {j \in I : j < e} = {j \in I : <<j, e>> \in Less(I)}
    BY DEF Less
  <2>2. /\ DOMAIN ord = 1..n
        /\ \A k \in 1..n : ord[k] = CHOOSE i \in I : Cardinality({j \in I : j < i}) = k - 1
    BY DEF Arranged
  <2>3. ASSUME NEW k \in 1..n, \E e \in I : Rank(e, I, Less(I)) = k - 1
        PROVE  ord[k] \in I /\ Rank(ord[k], I, Less(I)) = k - 1
    <3>1. \E e \in I : Cardinality({j \in I : j < e}) = k - 1
      BY <2>1, <2>3 DEF Rank
    <3>2. ord[k] \in I /\ Cardinality({j \in I : j < ord[k]}) = k - 1
      <4> HIDE DEF ord
      <4>1. QED
        BY <2>2, <3>1, Zenon
    <3>3. QED
      BY <2>1, <3>2 DEF Rank
  <2>4. ord = [k \in 1..n |-> ord[k]]
    <3> DEFINE place(k) == CHOOSE i \in I : Cardinality({j \in I : j < i}) = k - 1
    <3>1. ord = [k \in 1..n |-> place(k)]
      BY DEF Arranged
    <3> HIDE DEF ord, place
    <3>2. QED
      BY <3>1
  <2> HIDE DEF ord
  <2>5. QED
    BY <2>3, <2>4 DEF ByRank
<1>4. InOrder(ord, I, Less(I))
  BY <1>2, <1>3, ArrangedIs, LessOrders
<1>5. p = [k \in DOMAIN ord |-> s[ord[k]]]
  BY DEF Pick
<1> HIDE DEF ord, p
<1>6. Less(I) \subseteq I \X I
  BY DEF Less
<1>7. /\ p \in Seq(T) /\ Len(p) = n /\ DOMAIN p = 1..n
      /\ \A k \in DOMAIN p : ord[k] \in I /\ p[k] = s[ord[k]]
      /\ \A i \in I : \E k \in DOMAIN p : p[k] = s[i]
  <2>1. Taken(p, s, I, ord, T)
    BY <1>4, <1>5, <1>6, TakenIs, Zenon
  <2>2. QED
    BY <2>1 DEF Taken
<1>8. ASSUME NEW k \in DOMAIN p, NEW l \in DOMAIN p, k < l
      PROVE  \E i, j \in I : i < j /\ p[k] = s[i] /\ p[l] = s[j]
  <2>1. <<ord[k], ord[l]>> \in Less(I)
    BY <1>4, <1>7, <1>8 DEF InOrder
  <2>2. ord[k] < ord[l]
    BY <2>1 DEF Less
  <2>3. QED
    BY <1>7, <2>2
<1>9. QED
  BY <1>7, <1>8 DEF Chosen, p

\* A prefix of a list: none of it is new.
LEMMA PrefixIs ==
  ASSUME NEW T, NEW s \in Seq(T), NEW n \in Nat
  PROVE  /\ Prefix(s, n) \in Seq(T) /\ DOMAIN Prefix(s, n) \subseteq DOMAIN s
         /\ \A k \in DOMAIN Prefix(s, n) : Prefix(s, n)[k] = s[k]
<1> DEFINE m == IF Len(s) < n THEN Len(s) ELSE n
           p == SubSeq(s, 1, m)
<1>1. Len(s) \in Nat /\ DOMAIN s = 1..Len(s)
  BY LenProperties
<1>2. m \in Nat /\ m <= Len(s)
  BY <1>1
<1>3. \A i \in 1..m : s[i] \in T
  BY <1>1, <1>2, ElementOfSeq
<1> HIDE DEF m
<1>4. p \in Seq(T) /\ DOMAIN p = 1..m /\ \A k \in 1..m : p[k] = s[k]
  <2>1. p = [k \in 1..m |-> s[k]]
    BY <1>1, <1>2
  <2>2. p \in [1..m -> T] /\ DOMAIN p = 1..m /\ \A k \in 1..m : p[k] = s[k]
    <3> HIDE DEF p
    <3>1. QED
      BY <1>3, <2>1
  <2>3. QED
    BY <1>2, <2>2, IsASeq
<1>5. Prefix(s, n) = p
  BY DEF Prefix, m
<1> HIDE DEF p
<1>6. QED
  BY <1>1, <1>2, <1>4, <1>5
-----------------------------------------------------------------------------
(* The older console: containment *)

LEMMA HandsInit == Hands!Init => Hands!IInv
BY DEF Hands!Init, Hands!IInv, Hands!Disarmed

\* A button that stays armed keeps its timeout, and one newly armed gets one.
LEMMA ArmedKept ==
  ASSUME Hands!IInv, Hands!Next
  PROVE  Hands!IInv'
<1>1. /\ armed \in [Hands!Buttons -> Nat] /\ moves \in Nat
      /\ \A k \in Hands!Buttons : armed[k] # 0 => <<k, armed[k]>> \in timers
  BY DEF Hands!IInv
<1>2. CASE UNCHANGED <<armed, timers>> /\ moves' \in Nat
  BY <1>1, <1>2 DEF Hands!IInv
<1>3. ASSUME NEW K, Hands!Keep(K), moves' \in Nat
      PROVE  Hands!IInv'
  <2>1. armed' \in [Hands!Buttons -> Nat]
    BY <1>1, <1>3 DEF Hands!Keep
  <2>2. ASSUME NEW k \in Hands!Buttons, armed'[k] # 0
        PROVE  <<k, armed'[k]>> \in timers'
    <3>1. k \in K /\ armed'[k] = armed[k]
      BY <1>3, <2>2 DEF Hands!Keep
    <3>2. <<k, armed[k]>> \in timers
      BY <1>1, <2>2, <3>1
    <3>3. QED
      BY <1>3, <3>1, <3>2 DEF Hands!Keep
  <2>3. QED
    BY <1>3, <2>1, <2>2 DEF Hands!IInv
<1>4. ASSUME NEW k \in Hands!Buttons, Hands!Arm(k)
      PROVE  Hands!IInv'
  <2>1. /\ armed' = [armed EXCEPT ![k] = moves + 1]
        /\ timers' = timers \cup {<<k, moves + 1>>} /\ moves' = moves + 1
    BY <1>4 DEF Hands!Arm, Hands!Move
  <2>2. armed' \in [Hands!Buttons -> Nat] /\ moves' \in Nat
    BY <1>1, <2>1
  <2>3. \A j \in Hands!Buttons : armed'[j] = IF j = k THEN moves + 1 ELSE armed[j]
    BY <1>1, <2>1
  <2>4. QED
    BY <1>1, <2>1, <2>2, <2>3 DEF Hands!IInv
<1>5. ASSUME NEW k \in Hands!Buttons, Hands!Disarm(k), moves' \in Nat
      PROVE  Hands!IInv'
  <2>1. armed' = [armed EXCEPT ![k] = 0] /\ timers' = timers \ {<<k, armed[k]>>}
    BY <1>5 DEF Hands!Disarm
  <2>2. armed' \in [Hands!Buttons -> Nat]
    BY <1>1, <2>1
  <2>3. \A j \in Hands!Buttons : armed'[j] = IF j = k THEN 0 ELSE armed[j]
    BY <1>1, <2>1
  <2>4. QED
    BY <1>1, <1>5, <2>1, <2>2, <2>3 DEF Hands!IInv
<1>6. ASSUME NEW t \in timers, Hands!Lapse(t)
      PROVE  Hands!IInv'
  <2>1. armed' = [armed EXCEPT ![t[1]] = 0] /\ timers' = timers \ {t} /\ moves' = moves
    BY <1>6 DEF Hands!Lapse
  <2>2. armed' \in [Hands!Buttons -> Nat]
    BY <1>1, <2>1
  <2>3. \A j \in Hands!Buttons : armed'[j] = IF j = t[1] THEN 0 ELSE armed[j]
    BY <1>1, <2>1
  <2>4. \A j \in Hands!Buttons : <<j, armed[j]>> = t => j = t[1]
    OBVIOUS
  <2>5. QED
    BY <1>1, <2>1, <2>2, <2>3, <2>4 DEF Hands!IInv
<1>7. moves' = moves \/ moves' = moves + 1 => moves' \in Nat
  BY <1>1
<1>8. ASSUME NEW i \in Ids, Hands!Learn(i) \/ Hands!Open(i) \/ Hands!Untrace(i) \/ Hands!Triaged(i)
      PROVE  Hands!IInv'
  <2>1. moves' \in Nat
    BY <1>1, <1>7, <1>8 DEF Hands!Learn, Hands!Open, Hands!Untrace, Hands!Triaged, Hands!Move
  <2>2. UNCHANGED <<armed, timers>> \/ \E K : Hands!Keep(K)
    BY <1>8 DEF Hands!Learn, Hands!Open, Hands!Untrace, Hands!Triaged, Hands!Turn, Hands!drawer
  <2>3. QED
    BY <1>2, <1>3, <2>1, <2>2
<1>9. CASE Hands!Lift \/ Hands!Close \/ Hands!RunTriage
  <2>1. moves' \in Nat
    BY <1>1, <1>7, <1>9 DEF Hands!Lift, Hands!Close, Hands!RunTriage, Hands!Move
  <2>2. UNCHANGED <<armed, timers>> \/ \E K : Hands!Keep(K)
    BY <1>9 DEF Hands!Lift, Hands!Close, Hands!RunTriage, Hands!Turn, Hands!drawer
  <2>3. QED
    BY <1>2, <1>3, <2>1, <2>2
<1>10. ASSUME NEW k \in Hands!Buttons, Hands!Cancel(k) \/ Hands!Confirm(k)
       PROVE  Hands!IInv'
  <2>1. moves' \in Nat /\ Hands!Disarm(k)
    BY <1>1, <1>7, <1>10 DEF Hands!Cancel, Hands!Confirm, Hands!Move
  <2>2. QED
    BY <1>5, <2>1
<1>11. ASSUME NEW s, Hands!SetStat(s)
       PROVE  Hands!IInv'
  BY <1>1, <1>2, <1>7, <1>11 DEF Hands!SetStat, Hands!Move, Hands!drawer
<1>12. ASSUME NEW p \in posts, Hands!Answered(p)
       PROVE  Hands!IInv'
  BY <1>1, <1>2, <1>7, <1>12 DEF Hands!Answered, Hands!Move
<1>13. QED
  BY <1>4, <1>6, <1>8, <1>9, <1>10, <1>11, <1>12 DEF Hands!Next

LEMMA HandsNext == Hands!IInv /\ [Hands!Next]_(Hands!vars) => Hands!IInv'
<1>1. Hands!IInv /\ UNCHANGED Hands!vars => Hands!IInv'
  BY DEF Hands!vars, Hands!drawer, Hands!IInv
<1>2. QED
  BY <1>1, ArmedKept

\* A request that needs two clicks goes out by the second, while the timeout is there.
LEMMA ClickedTwice ==
  ASSUME Hands!IInv, [Hands!Next]_(Hands!vars)
  PROVE  Hands!SecondClick
<1> USE DEF Hands!SecondClick
<1>1. CASE posts' \subseteq posts
  BY <1>1
<1>2. ASSUME NEW what, Hands!Post(what), what \notin Hands!Buttons
      PROVE  Hands!SecondClick
  BY <1>2 DEF Hands!Post
<1>3. ASSUME NEW k \in Hands!Buttons, Hands!Confirm(k)
      PROVE  Hands!SecondClick
  <2>1. armed[k] # 0 /\ posts' = posts \cup {[id |-> sel.id, what |-> k]}
    BY <1>3 DEF Hands!Confirm, Hands!Disarm, Hands!Post
  <2>2. <<k, armed[k]>> \in timers
    BY <2>1 DEF Hands!IInv
  <2>3. QED
    BY <2>1, <2>2
<1>4. CASE Hands!Lift
  <2>1. Hands!Post("unisolate") /\ "unisolate" \notin Hands!Buttons
    BY <1>4 DEF Hands!Lift, Hands!Buttons
  <2>2. QED
    BY <1>2, <2>1
<1>5. ASSUME NEW s \in {"acknowledged", "closed"}, Hands!SetStat(s)
      PROVE  Hands!SecondClick
  <2>1. Hands!Post(s) /\ s \notin Hands!Buttons
    BY <1>5 DEF Hands!SetStat, Hands!Buttons
  <2>2. QED
    BY <1>2, <2>1
<1>6. CASE UNCHANGED posts
  BY <1>6
<1>7. ASSUME NEW p \in posts, Hands!Answered(p)
      PROVE  Hands!SecondClick
  BY <1>1, <1>7 DEF Hands!Answered
<1>8. CASE \/ UNCHANGED Hands!vars \/ Hands!Close \/ Hands!RunTriage
           \/ \E i \in Ids : Hands!Learn(i) \/ Hands!Open(i) \/ Hands!Untrace(i) \/ Hands!Triaged(i)
           \/ \E k \in Hands!Buttons : Hands!Arm(k) \/ Hands!Cancel(k)
           \/ \E t \in timers : Hands!Lapse(t)
  BY <1>6, <1>8 DEF Hands!vars, Hands!Close, Hands!RunTriage, Hands!Learn, Hands!Open,
     Hands!Untrace, Hands!Triaged, Hands!Arm, Hands!Cancel, Hands!Lapse
<1>9. QED
  BY <1>3, <1>4, <1>5, <1>7, <1>8 DEF Hands!Next
-----------------------------------------------------------------------------
(* The older console: notes of cases *)

LEMMA DeskInit == Desk!Init => Desk!IInv
BY DEF Desk!Init, Desk!IInv, Desk!NoteInField, Desk!Case, Desk!New, Desk!Statuses

\* What a change makes of a case is a case, with the note if it is one.
LEMMA Written ==
  ASSUME NEW c \in Desk!Case, NEW b \in Desk!Bodies
  PROVE  /\ Desk!Write(c, b) \in Desk!Case
         /\ b.status = None /\ b.text # None => b.text \in Desk!Write(c, b).notes
<1> DEFINE T == Desk!Texts
           S == Desk!Statuses
<1>1. b.status \in S \cup {None} /\ b.text \in T \cup {None}
  BY DEF Desk!Bodies
<1>2. c \in [status : S, mine : BOOLEAN, notes : SUBSET T]
  BY DEF Desk!Case
<1> HIDE DEF T, S
<1>3. /\ b.status # None => [c EXCEPT !.status = b.status] \in [status : S, mine : BOOLEAN, notes : SUBSET T]
      /\ [c EXCEPT !.mine = TRUE] \in [status : S, mine : BOOLEAN, notes : SUBSET T]
      /\ b.text # None =>
           /\ [c EXCEPT !.notes = @ \cup {b.text}] \in [status : S, mine : BOOLEAN, notes : SUBSET T]
           /\ b.text \in [c EXCEPT !.notes = @ \cup {b.text}].notes
  BY <1>1, <1>2
<1>4. QED
  BY <1>3 DEF Desk!Write, Desk!Case, T, S

\* So the server's cases stay cases.
LEMMA SrvWritten ==
  ASSUME srv \in [Ids -> Desk!Case], NEW k \in Ids, NEW b \in Desk!Bodies
  PROVE  /\ [srv EXCEPT ![k] = Desk!Write(@, b)] \in [Ids -> Desk!Case]
         /\ [srv EXCEPT ![k] = Desk!Write(@, b)][k] = Desk!Write(srv[k], b)
BY Written

\* A note under way is in the field and stays there.
LEMMA FieldKept ==
  ASSUME Desk!IInv, Desk!Next
  PROVE  Desk!IInv'
<1>1. /\ srv \in [Ids -> Desk!Case] /\ sel \in Ids \cup {None}
      /\ note \in Desk!Texts \cup {None}
      /\ sel = None => detail = None /\ loads = {} /\ task = None
      /\ Desk!NoteInField
  BY DEF Desk!IInv
<1>2. CASE Desk!Close
  <2>1. /\ sel' = None /\ detail' = None /\ note' = None /\ task' = None /\ loads' = {}
        /\ \/ srv' = srv
           \/ task # None /\ srv' = [srv EXCEPT ![task.id] = Desk!Write(@, task.body)]
    BY <1>2 DEF Desk!Close
  <2>2. srv' \in [Ids -> Desk!Case]
    <3>1. CASE task # None /\ srv' = [srv EXCEPT ![task.id] = Desk!Write(@, task.body)]
      <4>1. task.id \in Ids /\ task.body \in Desk!Bodies
        BY <1>1, <3>1 DEF Desk!NoteInField
      <4>2. QED
        BY <1>1, <3>1, <4>1, SrvWritten
    <3>2. QED
      BY <1>1, <2>1, <3>1
  <2>3. QED
    BY <2>1, <2>2 DEF Desk!IInv, Desk!NoteInField
<1>3. CASE Desk!Sent
  <2>1. /\ task # None /\ ~task.done /\ task' = [task EXCEPT !.done = TRUE]
        /\ srv' = [srv EXCEPT ![task.id] = Desk!Write(@, task.body)]
        /\ note' = (IF task.body.text # None THEN None ELSE note)
        /\ sel' = sel /\ busy' = busy
    BY <1>3 DEF Desk!Sent
  <2>2. /\ task \in [id : Ids, body : Desk!Bodies, done : BOOLEAN]
        /\ busy /\ (task.body.text # None => task.body.status = None)
    BY <1>1, <2>1 DEF Desk!NoteInField
  <2>3. /\ task' \in [id : Ids, body : Desk!Bodies, done : BOOLEAN]
        /\ task'.body = task.body /\ task'.done
    BY <2>1, <2>2
  <2>4. srv' \in [Ids -> Desk!Case]
    BY <1>1, <2>1, <2>2, SrvWritten
  <2>5. sel' # None
    BY <1>1, <2>1
  <2>6. Desk!NoteInField'
    BY <2>1, <2>2, <2>3 DEF Desk!NoteInField
  <2>7. QED
    BY <1>1, <2>1, <2>4, <2>5, <2>6 DEF Desk!IInv
<1>4. ASSUME detail # None, NEW b \in Desk!Offered, Desk!Send(b)
      PROVE  Desk!IInv'
  <2>1. /\ busy' /\ task' = [id |-> sel, body |-> b, done |-> FALSE]
        /\ srv' = srv /\ sel' = sel /\ note' = note
    BY <1>4 DEF Desk!Send
  <2>2. sel \in Ids /\ sel # None
    BY <1>1, <1>4
  <2>3. /\ b \in Desk!Bodies
        /\ b.text # None => b.status = None /\ b.text = note
    <3>1. CASE b \in [status : {None}, text : {note} \ {None}]
      BY <1>1, <3>1 DEF Desk!Bodies
    <3>2. CASE b \in [status : {None} \cup (Desk!Statuses \ {detail.of.status, "open"})
                        \cup (IF detail.of.status = "closed" THEN {"open"} ELSE {}),
                      text : {None}]
      <4>1. "open" \in Desk!Statuses
        BY DEF Desk!Statuses
      <4> HIDE DEF Desk!Statuses
      <4>2. b.text = None /\ b.status \in Desk!Statuses \cup {None}
            /\ b = [status |-> b.status, text |-> b.text]
        BY <3>2, <4>1
      <4>3. QED
        BY <4>2 DEF Desk!Bodies
    <3>3. QED
      BY <1>4, <3>1, <3>2 DEF Desk!Offered
  <2>4. task' \in [id : Ids, body : Desk!Bodies, done : BOOLEAN] /\ task'.body = b
    BY <2>1, <2>2, <2>3
  <2>5. Desk!NoteInField'
    BY <2>1, <2>3, <2>4 DEF Desk!NoteInField
  <2>6. QED
    BY <1>1, <2>1, <2>2, <2>5 DEF Desk!IInv
<1>5. ASSUME NEW t \in Desk!Texts \cup {None}, Desk!Type(t)
      PROVE  Desk!IInv'
  <2>1. detail # None /\ ~busy /\ note' = t /\ UNCHANGED <<srv, sel, detail, busy, task, loads>>
    BY <1>5 DEF Desk!Type
  <2>2. task = None
    BY <1>1, <2>1 DEF Desk!NoteInField
  <2>3. QED
    BY <1>1, <2>1, <2>2 DEF Desk!IInv, Desk!NoteInField
<1>6. ASSUME NEW k \in Ids, Desk!Open(k) \/ Desk!Colleague(k)
      PROVE  Desk!IInv'
  <2>1. CASE Desk!Open(k)
    <3>1. k \in Ids \ {None} \/ k = None
      OBVIOUS
    <3>2. k # None
      BY WebConsoleAssumption
    <3>3. QED
      BY <1>1, <2>1, <3>2 DEF Desk!Open, Desk!IInv, Desk!NoteInField
  <2>2. CASE Desk!Colleague(k)
    <3>1. PICK s \in Desk!Statuses : srv' = [srv EXCEPT ![k].status = s]
      BY <2>2 DEF Desk!Colleague
    <3>2. UNCHANGED <<sel, note, detail, busy, loads, task>>
      BY <2>2 DEF Desk!Colleague, Desk!drawer
    <3>3. srv' \in [Ids -> Desk!Case]
      BY <1>1, <3>1 DEF Desk!Case
    <3>4. QED
      BY <1>1, <3>2, <3>3 DEF Desk!IInv, Desk!NoteInField
  <2>3. QED
    BY <1>6, <2>1, <2>2
<1>7. CASE Desk!SendFails \/ \E f \in {"all", "closed"} : Desk!SetFilter(f)
  BY <1>1, <1>7 DEF Desk!SendFails, Desk!SetFilter, Desk!drawer, Desk!IInv, Desk!NoteInField
<1>8. ASSUME NEW l \in loads, Desk!LoadAnswered(l) \/ Desk!Loaded(l)
      PROVE  Desk!IInv'
  <2>1. sel # None /\ UNCHANGED <<srv, sel, note>>
    BY <1>1, <1>8 DEF Desk!LoadAnswered, Desk!Loaded, Desk!drawer
  <2>2. UNCHANGED <<task, busy>> \/ task' = None
    BY <1>8 DEF Desk!LoadAnswered, Desk!Loaded, Desk!Finish, Desk!drawer
  <2>3. QED
    BY <1>1, <2>1, <2>2 DEF Desk!IInv, Desk!NoteInField
<1>9. QED
  BY <1>2, <1>3, <1>4, <1>5, <1>6, <1>7, <1>8 DEF Desk!Next

LEMMA DeskNext == Desk!IInv /\ [Desk!Next]_(Desk!vars) => Desk!IInv'
<1>1. Desk!IInv /\ UNCHANGED Desk!vars => Desk!IInv'
  BY DEF Desk!vars, Desk!drawer, Desk!IInv, Desk!NoteInField
<1>2. QED
  BY <1>1, FieldKept

\* The field is emptied of a note that the server has.
LEMMA FieldCleared ==
  ASSUME Desk!IInv, [Desk!Next]_(Desk!vars)
  PROVE  Desk!NoteKept
<1>1. CASE UNCHANGED note
  BY <1>1 DEF Desk!NoteKept
<1>2. CASE Desk!Close
  BY <1>2 DEF Desk!Close, Desk!NoteKept
<1>3. CASE Desk!Sent
  <2>1. CASE task.body.text = None
    BY <1>1, <1>3, <2>1 DEF Desk!Sent
  <2>2. CASE task.body.text # None
    <3>1. /\ task \in [id : Ids, body : Desk!Bodies, done : BOOLEAN]
          /\ task.body.status = None /\ note = task.body.text
          /\ srv \in [Ids -> Desk!Case]
      BY <1>3, <2>2 DEF Desk!Sent, Desk!IInv, Desk!NoteInField
    <3>2. srv' = [srv EXCEPT ![task.id] = Desk!Write(@, task.body)]
      BY <1>3 DEF Desk!Sent
    <3>3. srv'[task.id] = Desk!Write(srv[task.id], task.body)
      BY <3>1, <3>2
    <3>4. note \in srv'[task.id].notes
      BY <2>2, <3>1, <3>3, Written
    <3>5. QED
      BY <3>1, <3>4 DEF Desk!NoteKept
  <2>3. QED
    BY <2>1, <2>2
<1>4. CASE \E t \in Desk!Texts \cup {None} : Desk!Type(t)
  BY <1>4 DEF Desk!NoteKept
<1>5. CASE \/ UNCHANGED Desk!vars \/ Desk!SendFails
           \/ \E f \in {"all", "closed"} : Desk!SetFilter(f)
           \/ \E k \in Ids : Desk!Open(k) \/ Desk!Colleague(k)
           \/ \E l \in loads : Desk!LoadAnswered(l) \/ Desk!Loaded(l)
           \/ \E b \in Desk!Offered : Desk!Send(b)
  BY <1>1, <1>5 DEF Desk!vars, Desk!drawer, Desk!SendFails, Desk!SetFilter, Desk!Open,
     Desk!Colleague, Desk!LoadAnswered, Desk!Loaded, Desk!Send
<1>6. QED
  BY <1>2, <1>3, <1>4, <1>5 DEF Desk!Next
-----------------------------------------------------------------------------
(* The older console: its store *)

\* What it takes to be a list without repetition.
LEMMA ListingBy ==
  ASSUME NEW T, NEW s \in Seq(T), \A k, l \in DOMAIN s : k < l => s[k] # s[l]
  PROVE  Store!Listing(s)
<1>1. DOMAIN s = 1..Len(s) /\ Len(s) \in Nat
  BY LenProperties
<1>2. s = [k \in 1..Len(s) |-> s[k]]
  BY <1>1, LenProperties
<1>3. s \in [1..Len(s) -> Store!Range(s)]
  BY <1>1, <1>2 DEF Store!Range
<1>4. s \in Seq(Store!Range(s))
  BY <1>1, <1>3
<1>5. \A k, l \in 1..Len(s) : k = l \/ k < l \/ l < k
  BY <1>1
<1>6. QED
  BY <1>1, <1>4, <1>5 DEF Store!Listing, Store!IsInjective

\* A part of it has none either.
LEMMA PickListed ==
  ASSUME NEW s, Store!Listing(s), NEW I \in SUBSET (DOMAIN s)
  PROVE  /\ Pick(s, I) \in Seq(Store!Range(s)) /\ Store!Listing(Pick(s, I))
         /\ \A k \in DOMAIN Pick(s, I) : \E i \in I : Pick(s, I)[k] = s[i]
<1> DEFINE p == Pick(s, I)
           T == Store!Range(s)
<1>1. /\ s \in Seq(T)
      /\ \A i, j \in DOMAIN s : s[i] = s[j] => i = j
  BY DEF Store!Listing, Store!IsInjective
<1>2. DOMAIN s = 1..Len(s) /\ Len(s) \in Nat
  BY <1>1, LenProperties
<1>3. p \in Seq(T) /\ Chosen(p, s, I)
  BY <1>1, PickIs
<1> HIDE DEF p, T
<1>4. ASSUME NEW k \in DOMAIN p, NEW l \in DOMAIN p, k < l
      PROVE  p[k] # p[l]
  <2>1. PICK i \in I, j \in I : i < j /\ p[k] = s[i] /\ p[l] = s[j]
    BY <1>3, <1>4 DEF Chosen
  <2>2. i # j
    BY <1>2, <2>1
  <2>3. QED
    BY <1>1, <2>1, <2>2
<1>5. Store!Listing(p)
  BY <1>3, <1>4, ListingBy
<1>6. QED
  BY <1>3, <1>5 DEF Chosen, p, T

\* Nor has one that a new row is put in front of.
LEMMA FrontListed ==
  ASSUME NEW T, NEW s \in Seq(T), Store!Listing(s), NEW d, \A i \in DOMAIN s : s[i] # d
  PROVE  Store!Listing(<<d>> \o s)
<1> DEFINE t == <<d>> \o s
           n == Len(s)
<1>1. DOMAIN s = 1..n /\ n \in Nat
  BY LenProperties
<1>2. <<d>> \in Seq(T \cup {d}) /\ s \in Seq(T \cup {d}) /\ Len(<<d>>) = 1
  BY LenProperties
<1>3. /\ t \in Seq(T \cup {d}) /\ DOMAIN t = 1..(n + 1)
      /\ \A k \in 1..(n + 1) : t[k] = IF k = 1 THEN d ELSE s[k - 1]
  BY <1>1, <1>2, ConcatProperties
<1> HIDE DEF t
<1>4. \A i, j \in DOMAIN s : s[i] = s[j] => i = j
  BY DEF Store!Listing, Store!IsInjective
<1> HIDE DEF n
<1>5. ASSUME NEW k \in DOMAIN t, NEW l \in DOMAIN t, k < l
      PROVE  t[k] # t[l]
  <2>1. l # 1 /\ l - 1 \in 1..n /\ t[l] = s[l - 1]
    BY <1>1, <1>3, <1>5
  <2>2. CASE k = 1
    BY <1>1, <1>3, <2>1, <2>2
  <2>3. CASE k # 1
    <3>1. k - 1 \in 1..n /\ t[k] = s[k - 1] /\ k - 1 # l - 1
      BY <1>1, <1>3, <1>5, <2>3
    <3>2. QED
      BY <1>1, <1>4, <2>1, <3>1
  <2>4. QED
    BY <2>2, <2>3
<1>6. QED
  BY <1>3, <1>5, ListingBy DEF t

\* A row that is pushed is in front and nowhere else.
LEMMA ToFrontIs ==
  ASSUME Store!Listing(detections), NEW d
  PROVE  Store!Listing(Store!ToFront(d))
<1> DEFINE I == {i \in DOMAIN detections : detections[i] # d}
           T == Store!Range(detections)
<1>1. /\ Pick(detections, I) \in Seq(T) /\ Store!Listing(Pick(detections, I))
      /\ \A k \in DOMAIN Pick(detections, I) : \E i \in I : Pick(detections, I)[k] = detections[i]
  <2>1. I \in SUBSET (DOMAIN detections)
    OBVIOUS
  <2> HIDE DEF I
  <2>2. QED
    BY <2>1, PickListed, Zenon DEF T
<1>2. \A k \in DOMAIN Pick(detections, I) : Pick(detections, I)[k] # d
  BY <1>1
<1>3. Store!ToFront(d) = <<d>> \o Pick(detections, I)
  BY SameInStore, Zenon DEF Store!ToFront
<1> HIDE DEF I, T
<1>4. QED
  BY <1>1, <1>2, <1>3, FrontListed

LEMMA NothingListed == Store!Listing(<<>>)
<1>1. <<>> \in Seq({}) /\ DOMAIN <<>> = {}
  OBVIOUS
<1>2. QED
  BY <1>1, ListingBy

LEMMA StoreInit == Store!Init => Store!IInv
BY NothingListed DEF Store!Init, Store!IInv, Store!AnswersListed

\* What an open or a closed console begins with.
LEMMA EmptyListed ==
  ASSUME Store!IInv, Store!Listing(srvDets'), Store!Unmount \/ \E c : Store!Mount(c)
  PROVE  Store!IInv'
<1>1. Store!Listing(detections') /\ toasts' = [d \in Ids |-> 0]
  BY NothingListed DEF Store!Unmount, Store!Mount, Store!Empty
<1>2. \A l, c : LET r == Store!Read(l, c) IN
        DOMAIN r = {"of", "cred", "got"} /\ r.got = None
  BY DEF Store!Read
<1>3. Store!AnswersListed'
  <2>1. CASE Store!Unmount
    BY <2>1 DEF Store!Unmount, Store!AnswersListed
  <2>2. ASSUME NEW c, Store!Mount(c)
        PROVE  Store!AnswersListed'
    <3>1. /\ reads' = [x \in Places |-> reads'[x]]
          /\ \A x \in Places : reads'[x] = None \/ \E l : reads'[x] = Store!Read(l, c)
      <4> DEFINE p == CHOOSE x \in Places : TRUE
                 q == CHOOSE x \in Places \ {p} : TRUE
      <4>1. reads' = [x \in Places |-> CASE x = p -> Store!Read("agents", c)
                                         [] x = q -> Store!Read("detections", c)
                                         [] OTHER -> None]
        BY <2>2 DEF Store!Mount
      <4> HIDE DEF p, q
      <4>2. \A x \in Places : \/ reads'[x] = None
                              \/ reads'[x] = Store!Read("agents", c)
                              \/ reads'[x] = Store!Read("detections", c)
        BY <4>1
      <4>3. QED
        BY <4>1, <4>2
    <3>2. QED
      BY <1>2, <3>1 DEF Store!AnswersListed
  <2>3. QED
    BY <2>1, <2>2
<1>4. QED
  BY <1>1, <1>3 DEF Store!IInv

\* Where the store is kept.
LEMMA StoreKept ==
  ASSUME Store!IInv, UNCHANGED <<srvDets, reads, detections, seenDet, toasts>>
  PROVE  Store!IInv'
BY DEF Store!IInv, Store!AnswersListed

\* A read that is set off, answered or forgotten.
LEMMA ReadsListed ==
  ASSUME Store!IInv, UNCHANGED <<srvDets, detections, seenDet, toasts>>,
         NEW p \in Places,
         \/ \E l, c : reads' = [reads EXCEPT ![p] = Store!Read(l, c)]
         \/ reads' = [reads EXCEPT ![p] = None]
         \/ reads[p] # None /\ reads[p].got = None
            /\ \/ reads' = [reads EXCEPT ![p].got = Refused]
               \/ reads' = [reads EXCEPT ![p].got = Store!Value(reads[p].of)]
  PROVE  Store!IInv'
<1>1. Store!Listing(srvDets) /\ Store!AnswersListed
  BY DEF Store!IInv
<1>2. /\ reads = [q \in Places |-> reads[q]]
      /\ \A q \in Places : reads[q] # None =>
           /\ DOMAIN reads[q] = {"of", "cred", "got"}
           /\ reads[q].of = "detections" /\ reads[q].got \notin {None, Refused}
                => Store!Listing(reads[q].got)
  BY <1>1 DEF Store!AnswersListed
<1>3. ASSUME NEW r, reads' = [reads EXCEPT ![p] = r],
             r = None \/ /\ DOMAIN r = {"of", "cred", "got"}
                         /\ r.of = "detections" /\ r.got \notin {None, Refused}
                              => Store!Listing(r.got)
      PROVE  Store!IInv'
  <2>1. /\ reads' = [q \in Places |-> reads'[q]]
        /\ \A q \in Places : reads'[q] = IF q = p THEN r ELSE reads[q]
    BY <1>2, <1>3
  <2>2. Store!AnswersListed'
    BY <1>2, <1>3, <2>1 DEF Store!AnswersListed
  <2>3. QED
    BY <2>2 DEF Store!IInv
<1>4. ASSUME NEW l, NEW c, reads' = [reads EXCEPT ![p] = Store!Read(l, c)]
      PROVE  Store!IInv'
  <2>1. DOMAIN Store!Read(l, c) = {"of", "cred", "got"} /\ Store!Read(l, c).got = None
    BY DEF Store!Read
  <2>2. QED
    BY <1>3, <1>4, <2>1
<1>5. ASSUME reads[p] # None, NEW g, reads' = [reads EXCEPT ![p].got = g],
             g = Refused \/ g = Store!Value(reads[p].of)
      PROVE  Store!IInv'
  <2> DEFINE r == [reads[p] EXCEPT !.got = g]
  <2>1. /\ DOMAIN r = {"of", "cred", "got"} /\ r.of = reads[p].of /\ r.got = g
        /\ reads' = [reads EXCEPT ![p] = r]
    BY <1>2, <1>5
  <2> HIDE DEF r
  <2>2. r.of = "detections" /\ r.got \notin {None, Refused} => Store!Listing(r.got)
    BY <1>1, <1>5, <2>1 DEF Store!Value
  <2>3. QED
    BY <1>3, <2>1, <2>2
<1>6. QED
  BY <1>3, <1>4, <1>5

\* A refusal, whenever it comes, leaves an empty store.
LEMMA StoreArrives ==
  ASSUME Store!IInv, NEW p \in Places, Store!Arrives(p)
  PROVE  Store!IInv'
<1>1. reads[p] # None /\ reads[p].got # None /\ UNCHANGED srvDets
  BY DEF Store!Arrives, Store!server
<1>2. CASE reads[p].got = Refused
  <2>1. Store!Unmount \/ \E c : Store!Mount(c)
    BY <1>2 DEF Store!Arrives, Store!Unauthorized, Store!Opens
  <2>2. QED
    BY <1>1, <2>1, EmptyListed DEF Store!IInv
<1>3. CASE reads[p].got # Refused
  <2>1. /\ reads' = [reads EXCEPT ![p] = None]
        /\ detections' = IF reads[p].of = "detections" THEN reads[p].got ELSE detections
        /\ UNCHANGED <<seenDet, toasts>>
    BY <1>3 DEF Store!Arrives
  <2>2. Store!Listing(detections')
    <3>1. CASE reads[p].of = "detections"
      <4>1. Store!Listing(reads[p].got)
        BY <1>1, <1>3, <3>1 DEF Store!IInv, Store!AnswersListed
      <4>2. QED
        BY <2>1, <3>1, <4>1
    <3>2. CASE reads[p].of # "detections"
      BY <2>1, <3>2 DEF Store!IInv
    <3>3. QED
      BY <3>1, <3>2
  <2>3. Store!AnswersListed'
    BY <2>1 DEF Store!IInv, Store!AnswersListed
  <2>4. QED
    BY <1>1, <2>1, <2>2, <2>3 DEF Store!IInv
<1>4. QED
  BY <1>2, <1>3

\* What is toasted is remembered.
LEMMA StorePush ==
  ASSUME Store!IInv, Store!Push
  PROVE  Store!IInv'
<1> DEFINE m == Head(pushes)
<1>1. UNCHANGED <<srvDets, reads>>
  BY DEF Store!Push, Store!server
<1>2. CASE m.what = "agent"
  BY <1>1, <1>2, StoreKept DEF Store!Push
<1>3. CASE m.what # "agent"
  <2>1. /\ detections' = Store!ToFront(m.v)
        /\ \/ m.v \notin seenDet /\ seenDet' = seenDet \cup {m.v}
              /\ toasts' = [toasts EXCEPT ![m.v] = @ + 1]
           \/ UNCHANGED <<seenDet, toasts>>
    BY <1>3 DEF Store!Push
  <2> HIDE DEF m
  <2>2. Store!Listing(detections')
    BY <2>1, ToFrontIs DEF Store!IInv
  <2>3. /\ toasts \in [Ids -> Nat]
        /\ \A d \in Ids : toasts[d] <= IF d \in seenDet THEN 1 ELSE 0
    BY DEF Store!IInv
  <2>4. /\ toasts' \in [Ids -> Nat]
        /\ \A d \in Ids : toasts'[d] <= IF d \in seenDet' THEN 1 ELSE 0
    <3>1. CASE UNCHANGED <<seenDet, toasts>>
      BY <2>3, <3>1
    <3>2. CASE m.v \notin seenDet /\ seenDet' = seenDet \cup {m.v}
               /\ toasts' = [toasts EXCEPT ![m.v] = @ + 1]
      <4> DEFINE x == m.v
      <4>1. /\ x \notin seenDet /\ seenDet' = seenDet \cup {x}
            /\ toasts' = [toasts EXCEPT ![x] = toasts[x] + 1]
        BY <3>2
      <4> HIDE DEF x
      <4>2. toasts' \in [Ids -> Nat]
        <5>1. \A d \in Ids : toasts[d] \in Nat
          BY <2>3
        <5>2. x \in Ids => toasts[x] + 1 \in Nat
          BY <5>1
        <5>3. toasts' = [d \in Ids |-> IF d = x THEN toasts[x] + 1 ELSE toasts[d]]
          BY <2>3, <4>1
        <5>4. QED
          BY <5>1, <5>2, <5>3
      <4>3. ASSUME NEW d \in Ids
            PROVE  toasts'[d] <= IF d \in seenDet' THEN 1 ELSE 0
        <5>1. toasts[d] \in Nat /\ toasts[d] <= IF d \in seenDet THEN 1 ELSE 0
          BY <2>3
        <5>2. CASE d = x
          <6>1. toasts'[d] = toasts[d] + 1 /\ d \notin seenDet /\ d \in seenDet'
            BY <2>3, <4>1, <5>2
          <6>2. toasts[d] <= 0
            BY <5>1, <6>1
          <6>3. QED
            BY <5>1, <6>1, <6>2
        <5>3. CASE d # x
          <6>1. toasts'[d] = toasts[d] /\ (d \in seenDet <=> d \in seenDet')
            BY <2>3, <4>1, <5>3
          <6>2. QED
            BY <5>1, <6>1
        <5>4. QED
          BY <5>2, <5>3
      <4>4. QED
        BY <4>2, <4>3
    <3>3. QED
      BY <2>1, <3>1, <3>2
  <2>5. QED
    BY <1>1, <2>2, <2>4 DEF Store!IInv, Store!AnswersListed
<1>4. QED
  BY <1>2, <1>3

LEMMA StoreChanges ==
  ASSUME Store!IInv, NEW d, Store!DetectionChanges(d)
  PROVE  Store!IInv'
<1>1. /\ srvDets' = IF d \in Store!Range(srvDets) THEN srvDets ELSE <<d>> \o srvDets
      /\ UNCHANGED <<reads, detections, seenDet, toasts>>
  BY DEF Store!DetectionChanges, Store!store
<1>2. Store!Listing(srvDets)
  BY DEF Store!IInv
<1>3. Store!Listing(srvDets')
  <2>1. CASE d \notin Store!Range(srvDets)
    <3>1. \A i \in DOMAIN srvDets : srvDets[i] # d
      BY <2>1 DEF Store!Range
    <3>2. srvDets \in Seq(Store!Range(srvDets))
      BY <1>2 DEF Store!Listing
    <3>3. QED
      BY <1>1, <1>2, <2>1, <3>1, <3>2, FrontListed
  <2>2. QED
    BY <1>1, <1>2, <2>1
<1>4. QED
  BY <1>1, <1>3 DEF Store!IInv, Store!AnswersListed

LEMMA StoreNext == Store!IInv /\ [Store!Next]_(Store!vars) => Store!IInv'
<1> SUFFICES ASSUME Store!IInv, [Store!Next]_(Store!vars) PROVE Store!IInv'
  OBVIOUS
<1> USE DEF Store!server, Store!session, Store!store, Store!socket, Store!under
<1>1. CASE \/ UNCHANGED Store!vars \/ Store!submit \/ Store!LoginFails \/ Store!LoggedOut
           \/ Store!OtherTab \/ Store!Expire \/ Store!WsOpens \/ Store!WsDrops
           \/ Store!AgentChanges
  BY <1>1, StoreKept DEF Store!vars, Store!submit, Store!LoginFails, Store!LoggedOut,
     Store!OtherTab, Store!Expire, Store!WsOpens, Store!WsDrops, Store!AgentChanges
<1>2. ASSUME UNCHANGED srvDets, Store!Unmount \/ \E c : Store!Mount(c)
      PROVE  Store!IInv'
  BY <1>2, EmptyListed DEF Store!IInv
<1>3. CASE Store!SignedIn \/ Store!Exit \/ Store!Reload
  BY <1>2, <1>3 DEF Store!SignedIn, Store!Exit, Store!Reload, Store!Opens
<1>4. CASE Store!Interval \/ Store!refreshDetections
  <2>1. PICK l : Store!Ask(l)
    BY <1>4 DEF Store!Interval, Store!refreshDetections
  <2>2. PICK p \in Places : reads' = [reads EXCEPT ![p] = Store!Read(l, Store!Cred)]
    BY <2>1 DEF Store!Ask
  <2>3. UNCHANGED <<srvDets, detections, seenDet, toasts>>
    BY <2>1 DEF Store!Ask
  <2>4. QED
    BY <2>2, <2>3, ReadsListed
<1>5. ASSUME NEW p \in Places, Store!Answer(p)
      PROVE  Store!IInv'
  <2>1. UNCHANGED <<srvDets, detections, seenDet, toasts>>
    BY <1>5 DEF Store!Answer
  <2>2. /\ reads[p] # None /\ reads[p].got = None
        /\ \/ reads' = [reads EXCEPT ![p].got = Refused]
           \/ reads' = [reads EXCEPT ![p].got = Store!Value(reads[p].of)]
    BY <1>5 DEF Store!Answer
  <2>3. QED
    BY <2>1, <2>2, ReadsListed
<1>6. ASSUME NEW p \in Places, Store!ReadFails(p)
      PROVE  Store!IInv'
  BY <1>6, ReadsListed DEF Store!ReadFails
<1>7. ASSUME NEW c, Store!StrayArrives(c)
      PROVE  Store!IInv'
  <2>1. CASE Store!Unauthorized
    BY <1>2, <1>7, <2>1 DEF Store!Unauthorized, Store!Opens, Store!StrayArrives
  <2>2. CASE ~Store!Unauthorized
    BY <1>7, <2>2, StoreKept DEF Store!StrayArrives
  <2>3. QED
    BY <2>1, <2>2
<1>8. QED
  BY <1>1, <1>3, <1>4, <1>5, <1>6, <1>7, StoreArrives, StorePush, StoreChanges DEF Store!Next

LEMMA StoreListed == Store!IInv => Store!ListedOnce
<1> SUFFICES ASSUME Store!IInv PROVE Store!ListedOnce
  OBVIOUS
<1>1. /\ toasts \in [Ids -> Nat] /\ Store!IsInjective(detections)
      /\ \A d \in Ids : toasts[d] <= IF d \in seenDet THEN 1 ELSE 0
  BY DEF Store!IInv, Store!Listing
<1>2. ASSUME NEW d \in Ids PROVE toasts[d] <= 1
  <2>1. toasts[d] \in Nat /\ toasts[d] <= IF d \in seenDet THEN 1 ELSE 0
    BY <1>1
  <2>2. QED
    BY <2>1
<1>3. QED
  BY <1>1, <1>2 DEF Store!ListedOnce
-----------------------------------------------------------------------------
(* The older console: the process tree *)

\* Of numbers one is least.
LEMMA LeastIs ==
  ASSUME NEW S \in SUBSET Nat, S # {}
  PROVE  Least(S) \in S
<1>1. IsWellFoundedOn(OpToRel(<, Nat), Nat)
  BY NatLessThanWellFounded
<1>2. PICK n \in S : \A m \in S : <<m, n>> \notin OpToRel(<, Nat)
  BY <1>1, WFMin
<1>3. \A m \in S : ~(m < n)
  BY <1>2 DEF OpToRel
<1>4. \A m \in S : n <= m
  BY <1>3
<1>5. QED
  BY <1>4 DEF Least

\* What the assumption says of it.
LEMMA TreeFacts ==
  /\ Events \subseteq Nat /\ IsFiniteSet(Events) /\ None \notin Events
  /\ Cited \in [DOMAIN Cited -> Seq(Events)]
  /\ Cap \in Nat /\ FirstRead \in Nat /\ Listed \in Nat
BY WebConsoleAssumption

\* The event a drawer is about is an event of a process: the row itself, or one held.
LEMMA EventOfIs ==
  ASSUME NEW x \in {None} \cup (IF at = "events" THEN Events ELSE DOMAIN Cited),
         NEW seq \in Seq(Events), at \in {"events", "detections"},
         Tree!EventOf(x, seq) # None
  PROVE  Tree!EventOf(x, seq) \in Events /\ Marks[Tree!EventOf(x, seq)].pid # None
<1>1. x # None
  BY DEF Tree!EventOf
<1>2. CASE at = "detections"
  <2> DEFINE found == {i \in DOMAIN Cited[x] : Cited[x][i] \in Tree!Range(seq)
                                                 /\ Marks[Cited[x][i]].pid # None}
  <2>1. Tree!EventOf(x, seq) = Tree!RelatedEvent(x, seq)
    BY <1>1, <1>2 DEF Tree!EventOf
  <2>2. found # {} /\ Tree!RelatedEvent(x, seq) = Cited[x][Least(found)]
    <3>1. Tree!Least(found) = Least(found)
      BY SameInTree
    <3>2. Tree!RelatedEvent(x, seq) = IF found = {} THEN None ELSE Cited[x][Tree!Least(found)]
      BY DEF Tree!RelatedEvent
    <3> HIDE DEF found
    <3>3. QED
      BY <2>1, <3>1, <3>2
  <2>3. Cited[x] \in Seq(Events)
    BY <1>1, <1>2, TreeFacts
  <2>4. found \in SUBSET Nat
    BY <2>3, LenProperties
  <2>5. Least(found) \in found
    BY <2>2, <2>4, LeastIs
  <2>6. Least(found) \in 1..Len(Cited[x])
    BY <2>3, <2>5, LenProperties
  <2>7. Cited[x][Least(found)] \in Events
    <3> HIDE DEF found
    <3>1. QED
      BY <2>3, <2>6, ElementOfSeq
  <2>8. QED
    BY <2>1, <2>2, <2>5, <2>7
<1>3. CASE at = "events"
  BY <1>1, <1>3 DEF Tree!EventOf
<1>4. QED
  BY <1>2, <1>3

\* What may be a node: the focus, or an event of a process that is held or the drawer's,
\* and on the drawer's host.
Nodes ==
  {e \in Events :
     /\ Marks[e].pid \in Tree!Pids
     /\ \/ e = focus
        \/ /\ e \in Tree!Range(events) \cup {Tree!event}
           /\ Marks[Tree!event].host \in {None, Marks[e].host}}

Focused ==
  /\ focus \in Nodes /\ events \in Seq(Events)
  /\ Tree!event \in Events /\ Marks[Tree!event].pid # None

LEMMA InFocus == ASSUME Tree!IInv, focus # None PROVE Focused
<1>1. /\ focus \in Events /\ Marks[focus].pid # None /\ Tree!event # None
      /\ events \in Seq(Events) /\ at \in {"events", "detections"}
      /\ sel \in {None} \cup (IF at = "events" THEN Events ELSE DOMAIN Cited)
  BY DEF Tree!IInv
<1>2. Tree!event \in Events /\ Marks[Tree!event].pid # None
  BY <1>1, EventOfIs DEF Tree!event
<1>3. focus \in Nodes
  BY <1>1 DEF Nodes, Tree!Pids
<1>4. QED
  BY <1>1, <1>2, <1>3 DEF Focused

\* What stands for a process is a node of that process.
LEMMA StandsFor ==
  ASSUME Focused, NEW p \in Tree!Pids
  PROVE  \/ Tree!byPid[p] = None
         \/ Tree!byPid[p] \in Nodes /\ Marks[Tree!byPid[p]].pid = p
<1> DEFINE full == {i \in Tree!Claims(p) : Marks[events[i]].cmdline}
<1>1. ASSUME NEW i \in Tree!Claims(p)
      PROVE  events[i] \in Nodes /\ Marks[events[i]].pid = p
  <2>1. /\ i \in DOMAIN events /\ Marks[events[i]].pid = p
        /\ Marks[Tree!event].host \in {None, Marks[events[i]].host}
    BY DEF Tree!Claims
  <2>2. events[i] \in Events
    BY <2>1, LenProperties, ElementOfSeq DEF Focused
  <2>3. events[i] \in Tree!Range(events)
    BY <2>1 DEF Tree!Range
  <2>4. QED
    BY <2>1, <2>2, <2>3 DEF Nodes
<1>2. Tree!Claims(p) \in SUBSET Nat
  BY LenProperties DEF Tree!Claims, Focused
<1>3. Tree!Best(p) = IF full # {} THEN events[Tree!Least(full)]
                     ELSE IF Tree!Claims(p) # {} THEN events[Tree!Least(Tree!Claims(p))]
                     ELSE IF p = Marks[Tree!event].pid THEN Tree!event ELSE None
  BY DEF Tree!Best
<1>4. full \in SUBSET Nat /\ full \subseteq Tree!Claims(p)
  BY <1>2
<1> HIDE DEF full
<1>5. \/ Tree!Best(p) = None
      \/ Tree!Best(p) \in Nodes /\ Marks[Tree!Best(p)].pid = p
  <2>1. CASE full # {}
    <3>1. Least(full) \in Tree!Claims(p)
      BY <1>4, <2>1, LeastIs
    <3>2. Tree!Best(p) = events[Least(full)]
      BY <1>3, <2>1, SameInTree
    <3>3. QED
      BY <1>1, <3>1, <3>2
  <2>2. CASE full = {} /\ Tree!Claims(p) # {}
    <3>1. Least(Tree!Claims(p)) \in Tree!Claims(p)
      BY <1>2, <2>2, LeastIs
    <3>2. Tree!Best(p) = events[Least(Tree!Claims(p))]
      BY <1>3, <2>2, SameInTree
    <3>3. QED
      BY <1>1, <3>1, <3>2
  <2>3. CASE full = {} /\ Tree!Claims(p) = {}
    <3>1. p = Marks[Tree!event].pid => Tree!event \in Nodes
      BY DEF Focused, Nodes
    <3>2. QED
      BY <1>3, <2>3, <3>1
  <2>4. QED
    BY <2>1, <2>2, <2>3
<1>6. Tree!byPid[p] = IF p = Marks[focus].pid THEN focus ELSE Tree!Best(p)
  BY DEF Tree!byPid
<1>7. QED
  BY <1>5, <1>6 DEF Focused

\* A chain of parents up from the focus, each process once.
IsChain(c) ==
  /\ c \in Seq(Nodes) /\ c # <<>> /\ c[Len(c)] = focus
  /\ \A i \in 1..(Len(c) - 1) : Marks[c[i]].pid = Marks[c[i + 1]].ppid
  /\ \A i, j \in DOMAIN c : i # j => Marks[c[i]].pid # Marks[c[j]].pid

LEMMA ChainStarts ==
  ASSUME Focused PROVE IsChain(Tree!Extended(<<>>)) /\ Len(Tree!Extended(<<>>)) = 1
<1>1. Marks[focus].pid \in Tree!Pids /\ focus \in Nodes /\ focus # None
  BY TreeFacts DEF Focused, Nodes
<1>2. Tree!Above(<<>>) = focus
  BY <1>1 DEF Tree!Above, Tree!byPid
<1>3. Tree!Extended(<<>>) = <<focus>> \o <<>>
  BY <1>1, <1>2 DEF Tree!Extended
<1>4. <<focus>> \o <<>> = <<focus>>
  OBVIOUS
<1> DEFINE c == <<focus>>
<1>5. c \in Seq(Nodes) /\ Len(c) = 1 /\ DOMAIN c = {1} /\ c[1] = focus /\ c # <<>>
  BY <1>1
<1> HIDE DEF c
<1>6. 1..(Len(c) - 1) = {}
  BY <1>5
<1>7. IsChain(c)
  BY <1>5, <1>6 DEF IsChain
<1>8. QED
  BY <1>3, <1>4, <1>5, <1>7 DEF c

\* A step up adds a node, or there is none to add.
LEMMA ChainExtends ==
  ASSUME Focused, NEW c, IsChain(c)
  PROVE  /\ IsChain(Tree!Extended(c))
         /\ Tree!Extended(c) = c \/ Len(Tree!Extended(c)) = Len(c) + 1
<1> DEFINE a == Tree!Above(c)
           n == Len(c)
           t == <<a>> \o c
<1>1. /\ c \in Seq(Nodes) /\ c # <<>> /\ c[n] = focus
      /\ \A i \in 1..(n - 1) : Marks[c[i]].pid = Marks[c[i + 1]].ppid
      /\ \A i, j \in DOMAIN c : i # j => Marks[c[i]].pid # Marks[c[j]].pid
  BY DEF IsChain
<1>2. n \in Nat /\ DOMAIN c = 1..n /\ n # 0
  BY <1>1, LenProperties, EmptySeq
<1>3. CASE a = None \/ \E i \in DOMAIN c : Marks[c[i]].pid = Marks[a].pid
  BY <1>3 DEF Tree!Extended
<1>4. CASE a # None /\ \A i \in DOMAIN c : Marks[c[i]].pid # Marks[a].pid
  <2>1. Tree!Extended(c) = t
    BY <1>4 DEF Tree!Extended
  <2>2. Head(c) = c[1]
    BY <1>1, HeadTailProperties
  <2>3. /\ Marks[c[1]].ppid \in Tree!Pids
        /\ a = Tree!byPid[Marks[c[1]].ppid]
    BY <1>1, <1>4, <2>2 DEF Tree!Above
  <2> HIDE DEF a
  <2>4. a \in Nodes /\ Marks[a].pid = Marks[c[1]].ppid
    BY <1>4, <2>3, StandsFor
  <2>5. /\ t \in Seq(Nodes) /\ Len(t) = n + 1 /\ DOMAIN t = 1..(n + 1)
        /\ \A k \in 1..(n + 1) : t[k] = IF k = 1 THEN a ELSE c[k - 1]
    <3>1. <<a>> \in Seq(Nodes) /\ Len(<<a>>) = 1 /\ <<a>>[1] = a
      BY <2>4
    <3>2. t \in Seq(Nodes) /\ Len(t) = 1 + n
      BY <1>1, <3>1, ConcatProperties
    <3>3. \A i \in 1..(1 + n) : t[i] = IF i <= 1 THEN <<a>>[i] ELSE c[i - 1]
      BY <1>1, <3>1, ConcatProperties
    <3> HIDE DEF t, n
    <3>4. 1 + n = n + 1 /\ \A k \in 1..(n + 1) : k <= 1 <=> k = 1
      BY <1>2
    <3>5. QED
      BY <3>1, <3>2, <3>3, <3>4, LenProperties
  <2> HIDE DEF t, n
  <2>6. t # <<>> /\ t[n + 1] = focus
    <3>1. n + 1 \in 1..(n + 1) /\ n + 1 # 1 /\ (n + 1) - 1 = n
      BY <1>2
    <3>2. t[n + 1] = focus
      BY <1>1, <2>5, <3>1
    <3>3. Len(t) # 0
      BY <1>2, <2>5
    <3>4. QED
      BY <3>2, <3>3, EmptySeq
  <2>7. ASSUME NEW i \in 1..n PROVE Marks[t[i]].pid = Marks[t[i + 1]].ppid
    <3>1. t[i + 1] = c[i]
      BY <1>2, <2>5
    <3>2. CASE i = 1
      BY <1>2, <2>4, <2>5, <3>1, <3>2
    <3>3. CASE i # 1
      <4>1. i - 1 \in 1..(n - 1) /\ (i - 1) + 1 = i /\ t[i] = c[i - 1]
        BY <1>2, <2>5, <3>3
      <4>2. QED
        BY <1>1, <3>1, <4>1
    <3>4. QED
      BY <3>2, <3>3
  <2>8. ASSUME NEW i \in DOMAIN t, NEW j \in DOMAIN t, i # j
        PROVE  Marks[t[i]].pid # Marks[t[j]].pid
    <3>1. ASSUME NEW k \in DOMAIN t, k # 1
          PROVE  k - 1 \in DOMAIN c /\ t[k] = c[k - 1]
      BY <1>2, <2>5, <3>1
    <3>2. CASE i = 1
      BY <1>2, <1>4, <2>5, <2>8, <3>1, <3>2
    <3>3. CASE j = 1
      BY <1>2, <1>4, <2>5, <2>8, <3>1, <3>3
    <3>4. CASE i # 1 /\ j # 1
      <4>1. i - 1 # j - 1
        BY <2>5, <2>8
      <4>2. QED
        BY <1>1, <3>1, <3>4, <4>1
    <3>5. QED
      BY <3>2, <3>3, <3>4
  <2>9. Len(t) - 1 = n
    BY <1>2, <2>5
  <2>10. IsChain(t)
    BY <2>5, <2>6, <2>7, <2>8, <2>9 DEF IsChain
  <2>11. Len(t) = Len(c) + 1
    BY <2>5 DEF n
  <2>12. QED
    BY <2>1, <2>10, <2>11
<1>5. QED
  BY <1>3, <1>4

\* A chain has no more nodes than there are pids, so at as many there is none to add.
LEMMA ChainBounded ==
  ASSUME Focused, NEW c, IsChain(c), IsFiniteSet(Tree!Pids)
  PROVE  Len(c) \in Nat /\ Len(c) <= Cardinality(Tree!Pids)
<1> DEFINE n == Len(c)
           f == [i \in 1..n |-> Marks[c[i]].pid]
<1>1. c \in Seq(Nodes) /\ \A i, j \in DOMAIN c : i # j => Marks[c[i]].pid # Marks[c[j]].pid
  BY DEF IsChain
<1>2. n \in Nat /\ DOMAIN c = 1..n
  BY <1>1, LenProperties
<1> HIDE DEF n
<1>3. \A i \in 1..n : Marks[c[i]].pid \in Tree!Pids
  <2>1. ASSUME NEW i \in 1..n PROVE Marks[c[i]].pid \in Tree!Pids
    <3>1. c[i] \in Nodes
      BY <1>1, <2>1, ElementOfSeq DEF n
    <3>2. QED
      BY <3>1 DEF Nodes
  <2>2. QED
    BY <2>1
<1>4. f \in [1..n -> Tree!Pids] /\ \A i, j \in 1..n : f[i] = f[j] => i = j
  BY <1>1, <1>2, <1>3
<1> HIDE DEF f
<1>5. f \in Injection(1..n, Tree!Pids)
  BY <1>4 DEF Injection, IsInjective
<1>6. Cardinality(1..n) <= Cardinality(Tree!Pids)
  BY <1>5, FS_Injection
<1>7. Cardinality(1..n) = n
  BY <1>2, FS_Interval
<1>8. QED
  BY <1>2, <1>6, <1>7 DEF n

\* g has the chains after each number of steps up to m.
Climbs(g, m) ==
  /\ DOMAIN g = 0..m /\ g[0] = <<>>
  /\ \A n \in 1..m : g[n] = Tree!Extended(g[n - 1])

\* The ancestry is the last of those there are.
LEMMA AncestryIs ==
  ASSUME NEW K \in Nat, K = Tree!Cardinality(Tree!Pids)
  PROVE  \E u : Climbs(u, K) /\ Tree!ancestry = u[K]
<1> DEFINE T == {m \in Nat : m <= K => \E g : Climbs(g, m)}
           Is(f) == f = [n \in 0..K |-> IF n = 0 THEN <<>> ELSE Tree!Extended(f[n - 1])]
<1>1. 0 \in T
  <2> DEFINE g == [n \in 0..0 |-> <<>>]
  <2>1. Climbs(g, 0)
    BY DEF Climbs
  <2>2. QED
    BY <2>1
<1>2. ASSUME NEW m \in Nat, m \in T PROVE m + 1 \in T
  <2> SUFFICES ASSUME m + 1 <= K PROVE \E h : Climbs(h, m + 1)
    OBVIOUS
  <2>1. m <= K /\ m \in 0..m
    OBVIOUS
  <2>2. PICK g : Climbs(g, m)
    BY <1>2, <2>1
  <2> DEFINE h == [n \in 0..(m + 1) |-> IF n = m + 1 THEN Tree!Extended(g[m]) ELSE g[n]]
  <2>3. DOMAIN h = 0..(m + 1) /\ h[0] = <<>>
    <3>1. g[0] = <<>> /\ 0 \in 0..(m + 1) /\ 0 # m + 1
      BY <2>2 DEF Climbs
    <3>2. QED
      BY <3>1
  <2>4. ASSUME NEW n \in 1..(m + 1) PROVE h[n] = Tree!Extended(h[n - 1])
    <3>1. CASE n = m + 1
      <4>1. n - 1 = m /\ m \in 0..(m + 1) /\ m # m + 1
        BY <3>1
      <4>2. QED
        BY <3>1, <4>1
    <3>2. CASE n # m + 1
      <4>1. n \in 1..m /\ n \in 0..(m + 1) /\ n - 1 \in 0..(m + 1) /\ n - 1 # m + 1
        BY <3>2
      <4>2. QED
        BY <2>2, <3>2, <4>1 DEF Climbs
    <3>3. QED
      BY <3>1, <3>2
  <2>5. QED
    BY <2>3, <2>4 DEF Climbs
<1>3. PICK g : Climbs(g, K)
  <2>1. K \in T
    BY <1>1, <1>2, Induction
  <2>2. QED
    BY <2>1
<1>4. \E f : Is(f)
  <2> DEFINE f == [n \in 0..K |-> g[n]]
  <2>1. \A n \in 0..K : f[n] = g[n] /\ (n # 0 => n \in 1..K /\ n - 1 \in 0..K)
    OBVIOUS
  <2>2. \A n \in 0..K : f[n] = IF n = 0 THEN <<>> ELSE Tree!Extended(f[n - 1])
    <3> HIDE DEF f
    <3>1. QED
      BY <1>3, <2>1 DEF Climbs
  <2>3. f = [n \in 0..K |-> f[n]]
    OBVIOUS
  <2> HIDE DEF f
  <2>4. [n \in 0..K |-> f[n]] = [n \in 0..K |-> IF n = 0 THEN <<>> ELSE Tree!Extended(f[n - 1])]
    BY <2>2
  <2>5. QED
    BY <2>3, <2>4
<1> DEFINE u == CHOOSE f : Is(f)
<1>5. Is(u)
  <2> HIDE DEF Is
  <2>1. QED
    BY <1>4
<1>6. Tree!ancestry = u[K]
  BY Zenon DEF Tree!ancestry
<1> HIDE DEF u
<1>7. Climbs(u, K)
  <2>1. u = [n \in 0..K |-> IF n = 0 THEN <<>> ELSE Tree!Extended(u[n - 1])]
    BY <1>5
  <2>2. 0 \in 0..K /\ \A n \in 1..K : n \in 0..K /\ n # 0
    OBVIOUS
  <2>3. QED
    BY <2>1, <2>2 DEF Climbs
<1>8. QED
  BY <1>6, <1>7

\* So the ancestry is a chain that nothing can be added to.
LEMMA AncestryIsChain ==
  ASSUME Focused PROVE IsChain(Tree!ancestry) /\ Tree!Extended(Tree!ancestry) = Tree!ancestry
<1> DEFINE K == Tree!Cardinality(Tree!Pids)
<1>1. IsFiniteSet(Tree!Pids)
  <2> DEFINE P == {Marks[e].pid : e \in Events}
             f == [e \in Events |-> Marks[e].pid]
  <2>1. f \in Surjection(Events, P)
    BY DEF Surjection
  <2>2. Tree!Pids = P \ {None}
    BY DEF Tree!Pids
  <2> HIDE DEF f, P
  <2>3. IsFiniteSet(P)
    BY <2>1, TreeFacts, FS_Surjection
  <2>4. QED
    BY <2>2, <2>3, FS_Subset
<1>2. K \in Nat /\ K # 0 /\ K = Cardinality(Tree!Pids)
  <2>1. Tree!Pids # {}
    BY DEF Focused, Nodes
  <2>2. QED
    BY <1>1, <2>1, FS_CardinalityType, FS_EmptySet, SameInTree
<1>3. PICK u : Climbs(u, K) /\ Tree!ancestry = u[K]
  <2> HIDE DEF K
  <2>1. \E v : Climbs(v, K) /\ Tree!ancestry = v[K]
    BY <1>2, AncestryIs DEF K
  <2>2. QED
    BY <2>1
<1> HIDE DEF K
<1> DEFINE Done(c, n) == IsChain(c) /\ (Len(c) = n \/ Tree!Extended(c) = c)
           T == {n \in Nat : n + 1 <= K => Done(u[n + 1], n + 1)}
<1>4. 0 \in T
  <2>1. 1 \in 1..K
    BY <1>2
  <2>2. u[1] = Tree!Extended(u[0]) /\ u[0] = <<>>
    BY <1>3, <2>1 DEF Climbs
  <2>3. QED
    BY <2>2, ChainStarts
<1>5. ASSUME NEW n \in Nat, n \in T PROVE n + 1 \in T
  <2> SUFFICES ASSUME (n + 1) + 1 <= K PROVE Done(u[(n + 1) + 1], (n + 1) + 1)
    OBVIOUS
  <2>1. n + 1 <= K /\ (n + 1) + 1 \in 1..K /\ ((n + 1) + 1) - 1 = n + 1
    BY <1>2
  <2>2. u[(n + 1) + 1] = Tree!Extended(u[n + 1])
    BY <1>3, <2>1 DEF Climbs
  <2>3. IsChain(u[n + 1]) /\ (Len(u[n + 1]) = n + 1 \/ Tree!Extended(u[n + 1]) = u[n + 1])
    BY <1>5, <2>1
  <2>4. /\ IsChain(Tree!Extended(u[n + 1]))
        /\ \/ Tree!Extended(u[n + 1]) = u[n + 1]
           \/ Len(Tree!Extended(u[n + 1])) = Len(u[n + 1]) + 1
    BY <2>3, ChainExtends
  <2>5. QED
    BY <2>2, <2>3, <2>4
<1>6. Done(u[K], K)
  <2>1. Nat \subseteq T
    <3> HIDE DEF T
    <3>1. QED
      BY <1>4, <1>5, Induction
  <2>2. K - 1 \in Nat /\ (K - 1) + 1 = K /\ K <= K
    BY <1>2
  <2>3. QED
    BY <2>1, <2>2
<1>7. ASSUME NEW c, IsChain(c), Len(c) = K PROVE Tree!Extended(c) = c
  <2>1. IsChain(Tree!Extended(c)) /\ (Tree!Extended(c) = c \/ Len(Tree!Extended(c)) = K + 1)
    BY <1>7, ChainExtends
  <2>2. Len(Tree!Extended(c)) <= K
    BY <1>1, <1>2, <2>1, ChainBounded
  <2>3. QED
    BY <1>2, <2>1, <2>2
<1>8. QED
  BY <1>3, <1>6, <1>7

\* And the children are nodes, of the process in focus.
LEMMA ChildrenAre ==
  ASSUME Focused, NEW e \in Tree!children
  PROVE  e \in Nodes /\ Marks[e].ppid = Marks[focus].pid
<1>1. PICK p \in Tree!Pids : e = Tree!byPid[p] /\ e # None
  BY DEF Tree!children, Tree!Range, Tree!byPid
<1>2. QED
  BY <1>1, StandsFor DEF Tree!children

LEMMA AboutFocus == Tree!IInv => Tree!TreeAboutFocus
<1> SUFFICES ASSUME Tree!IInv, focus # None PROVE Tree!TreeAboutFocus
  BY DEF Tree!TreeAboutFocus
<1> DEFINE c == Tree!ancestry
<1>1. Focused
  BY InFocus
<1>2. IsChain(c) /\ Tree!Extended(c) = c
  BY <1>1, AncestryIsChain
<1>3. \A e \in Tree!children : e \in Nodes /\ Marks[e].ppid = Marks[focus].pid
  BY <1>1, ChildrenAre
<1> HIDE DEF c
<1>4. Tree!Range(c) \subseteq Nodes
  BY <1>2, LenProperties, ElementOfSeq DEF IsChain, Tree!Range
<1>5. ASSUME NEW e \in (Tree!Range(c) \cup Tree!children) \ {focus}
      PROVE  /\ e \in Tree!Range(events) \cup {Tree!event}
             /\ Marks[Tree!event].host \in {None, Marks[e].host}
  BY <1>3, <1>4 DEF Nodes
<1>6. QED
  BY <1>2, <1>3, <1>5 DEF Tree!TreeAboutFocus, IsChain, c

\* The answer to the one read is a list of events.
LEMMA Read ==
  ASSUME NEW S \in SUBSET Events
  PROVE  Tree!Prefix(Tree!Arranged(S, LAMBDA a, b : a > b), FirstRead) \in Seq(Events)
<1> DEFINE arr == Tree!Arranged(S, LAMBDA a, b : a > b)
           n == Cardinality(S)
<1>1. IsFiniteSet(S) /\ n \in Nat /\ S \subseteq Int
  BY TreeFacts, FS_Subset, FS_CardinalityType
<1>2. ByRank(arr, S, More(S))
  <2>1. \A e \in S : {j \in S : j > e} = {j \in S : <<j, e>> \in More(S)}
    BY DEF More
  <2> DEFINE place(k) == CHOOSE i \in S : Tree!Cardinality({j \in S : j > i}) = k - 1
  <2>2. arr = [k \in 1..n |-> place(k)]
    BY SameInTree DEF Tree!Arranged
  <2>3. ASSUME NEW k \in 1..n, \E e \in S : Rank(e, S, More(S)) = k - 1
        PROVE  arr[k] \in S /\ Rank(arr[k], S, More(S)) = k - 1
    <3>1. \E e \in S : Tree!Cardinality({j \in S : j > e}) = k - 1
      BY <2>1, <2>3, SameInTree DEF Rank
    <3>2. arr[k] = place(k)
      <4> HIDE DEF arr, place
      <4>1. QED
        BY <2>2
    <3>3. arr[k] \in S /\ Tree!Cardinality({j \in S : j > arr[k]}) = k - 1
      <4> HIDE DEF arr
      <4>1. QED
        BY <3>1, <3>2, Zenon
    <3>4. QED
      BY <2>1, <3>3, SameInTree DEF Rank
  <2>4. arr = [k \in 1..n |-> arr[k]]
    <3> HIDE DEF arr, place
    <3>1. QED
      BY <2>2
  <2> HIDE DEF arr
  <2>5. QED
    BY <2>3, <2>4 DEF ByRank
<1> HIDE DEF arr
<1>3. InOrder(arr, S, More(S))
  BY <1>1, <1>2, ArrangedIs, LessOrders
<1>4. arr \in [1..n -> Events]
  BY <1>3 DEF InOrder
<1>5. arr \in Seq(Events)
  <2> HIDE DEF n
  <2>1. QED
    BY <1>1, <1>4
<1>6. Tree!Prefix(arr, FirstRead) \in Seq(Events)
  BY <1>5, TreeFacts, PrefixIs, SameInTree
<1>7. QED
  BY <1>6 DEF arr

LEMMA TreeInit == Tree!Init => Tree!IInv
BY DEF Tree!Init, Tree!IInv

\* The drawer that is there now, or opens.
Sheet(x, seq) ==
  /\ at' = at /\ sel' = x /\ events' = seq
  /\ x \in {None} \cup (IF at = "events" THEN Events ELSE DOMAIN Cited) /\ seq \in Seq(Events)

LEMMA FocusKept ==
  ASSUME Tree!IInv, NEW x, NEW seq, Sheet(x, seq), Tree!Keep(x, seq)
  PROVE  focus' # None => focus' \in Events /\ Marks[focus'].pid # None /\ Tree!event' # None
<1>1. at \in {"events", "detections"}
  BY DEF Tree!IInv
<1>2. Tree!event' = Tree!EventOf(x, seq)
  BY DEF Sheet, Tree!event, Tree!EventOf, Tree!RelatedEvent
<1>3. ASSUME focus' # None
      PROVE  focus' \in Events /\ Marks[focus'].pid # None /\ Tree!EventOf(x, seq) # None
  <2>1. Tree!EventOf(x, seq) # None
    BY <1>3 DEF Tree!Keep
  <2>2. focus' = IF focus = None THEN Tree!EventOf(x, seq) ELSE focus
    BY <2>1 DEF Tree!Keep
  <2>3. Tree!EventOf(x, seq) \in Events /\ Marks[Tree!EventOf(x, seq)].pid # None
    BY <1>1, <2>1, EventOfIs DEF Sheet
  <2>4. QED
    BY <2>1, <2>2, <2>3 DEF Tree!IInv
<1>4. QED
  BY <1>2, <1>3

\* The store's lists are lists of events.
LEMMA TreeHolds ==
  ASSUME Tree!IInv, Tree!Arrives \/ Tree!Push
  PROVE  Tree!IInv'
<1>1. /\ stored \subseteq Events /\ frames \in Seq(Events) /\ events \in Seq(Events)
      /\ got = None \/ got \in [list : Seq(Events), due : BOOLEAN]
      /\ at \in {"events", "detections"}
      /\ sel \in {None} \cup (IF at = "events" THEN Events ELSE DOMAIN Cited)
  BY DEF Tree!IInv
<1>2. PICK seq : /\ events' = seq /\ Tree!Keep(sel, seq) /\ UNCHANGED <<stored, at, sel>>
                 /\ seq \in Seq(Events) /\ frames' \in Seq(Events)
                 /\ got' = None \/ got' \in [list : Seq(Events), due : BOOLEAN]
  <2>1. CASE Tree!Arrives
    <3>1. /\ got \in [list : Seq(Events), due : BOOLEAN]
          /\ got' = [got EXCEPT !.due = FALSE] /\ Tree!Holds(got.list) /\ frames' = frames
      BY <1>1, <2>1 DEF Tree!Arrives
    <3>2. got.list \in Seq(Events) /\ got' \in [list : Seq(Events), due : BOOLEAN]
      BY <3>1
    <3>3. QED
      BY <1>1, <3>1, <3>2 DEF Tree!Holds
  <2>2. CASE Tree!Push
    <3> DEFINE all == <<Head(frames)>> \o events
               new == Tree!Prefix(all, Cap)
    <3>1. frames # <<>> /\ frames' = Tail(frames) /\ Tree!Holds(new) /\ got' = got
      BY <2>2 DEF Tree!Push
    <3>2. Head(frames) \in Events /\ Tail(frames) \in Seq(Events)
      BY <1>1, <3>1, HeadTailProperties
    <3>3. all \in Seq(Events)
      BY <1>1, <3>2
    <3> HIDE DEF all
    <3>4. new \in Seq(Events)
      BY <3>3, TreeFacts, PrefixIs, SameInTree
    <3> HIDE DEF new
    <3>5. QED
      BY <1>1, <3>1, <3>2, <3>4 DEF Tree!Holds
  <2>3. QED
    BY <2>1, <2>2
<1>3. Sheet(sel, seq)
  BY <1>1, <1>2 DEF Sheet
<1>4. focus' # None => focus' \in Events /\ Marks[focus'].pid # None /\ Tree!event' # None
  BY <1>2, <1>3, FocusKept
<1>5. QED
  BY <1>1, <1>2, <1>4 DEF Tree!IInv

\* A row opens for what it is.
LEMMA TreeOpens ==
  ASSUME Tree!IInv, NEW x, Tree!Open(x)
  PROVE  Tree!IInv'
<1>1. events \in Seq(Events) /\ at \in {"events", "detections"}
  BY DEF Tree!IInv
<1>2. /\ x \in (IF at = "events" THEN Tree!Range(Tree!Rows) ELSE DOMAIN Cited)
      /\ sel' = x /\ Tree!Keep(x, events) /\ UNCHANGED <<stored, got, frames, events, at>>
  BY DEF Tree!Open, Tree!feed
<1>3. Tree!Range(Tree!Rows) \subseteq Events
  <2>1. Tree!Shown \in SUBSET (DOMAIN events)
    BY DEF Tree!Shown
  <2>2. Pick(events, Tree!Shown) \in Seq(Events)
    BY <1>1, <2>1, PickIs, Zenon
  <2>3. Tree!Rows \in Seq(Events)
    BY <2>2, TreeFacts, PrefixIs, SameInTree DEF Tree!Rows
  <2>4. QED
    BY <2>3, LenProperties, ElementOfSeq DEF Tree!Range
<1>4. Sheet(x, events)
  BY <1>1, <1>2, <1>3 DEF Sheet
<1>5. focus' # None => focus' \in Events /\ Marks[focus'].pid # None /\ Tree!event' # None
  BY <1>2, <1>4, FocusKept
<1>6. QED
  BY <1>2, <1>4, <1>5 DEF Tree!IInv, Sheet

\* A node put in focus, or the event of the drawer again, is an event of a process.
LEMMA Refocused ==
  ASSUME Tree!IInv, (\E e \in Events : Tree!SetFocus(e)) \/ Tree!ResetFocus
  PROVE  Tree!IInv'
<1>1. focus # None /\ UNCHANGED <<stored, got, frames, events, at, sel>>
  BY DEF Tree!SetFocus, Tree!ResetFocus, Tree!feed
<1>2. Focused
  BY <1>1, InFocus
<1>3. Tree!event' = Tree!event
  BY <1>1 DEF Tree!event, Tree!EventOf, Tree!RelatedEvent
<1>4. focus' \in Events /\ Marks[focus'].pid # None
  <2>1. ASSUME NEW e \in Events, Tree!SetFocus(e)
        PROVE  focus' \in Events /\ Marks[focus'].pid # None
    <3>1. focus' = e /\ e \in Tree!Range(Tree!ancestry) \cup Tree!children
      BY <2>1 DEF Tree!SetFocus
    <3>2. Tree!Range(Tree!ancestry) \subseteq Nodes
      BY <1>2, AncestryIsChain, LenProperties, ElementOfSeq DEF IsChain, Tree!Range
    <3>3. e \in Nodes
      BY <1>2, <3>1, <3>2, ChildrenAre
    <3>4. QED
      BY <3>1, <3>3 DEF Nodes, Tree!Pids
  <2>2. CASE Tree!ResetFocus
    BY <1>2, <2>2 DEF Tree!ResetFocus, Focused
  <2>3. QED
    BY <2>1, <2>2
<1>5. Tree!event # None
  BY <1>1 DEF Tree!IInv
<1>6. QED
  BY <1>1, <1>3, <1>4, <1>5 DEF Tree!IInv

LEMMA TreeNext == Tree!IInv /\ [Tree!Next]_(Tree!vars) => Tree!IInv'
<1> SUFFICES ASSUME Tree!IInv, [Tree!Next]_(Tree!vars) PROVE Tree!IInv'
  OBVIOUS
<1>1. ASSUME UNCHANGED <<events, at, sel, focus>>, stored' \subseteq Events,
             frames' \in Seq(Events),
             got' = None \/ got' \in [list : Seq(Events), due : BOOLEAN]
      PROVE  Tree!IInv'
  <2>1. Tree!event' = Tree!event
    BY <1>1 DEF Tree!event, Tree!EventOf, Tree!RelatedEvent
  <2>2. QED
    BY <1>1, <2>1 DEF Tree!IInv
<1>2. /\ stored \subseteq Events /\ frames \in Seq(Events)
      /\ got = None \/ got \in [list : Seq(Events), due : BOOLEAN]
  BY DEF Tree!IInv
<1>3. CASE UNCHANGED Tree!vars \/ \E c : Tree!SetCat(c)
  BY <1>1, <1>2, <1>3 DEF Tree!vars, Tree!feed, Tree!SetCat
<1>4. ASSUME NEW e \in Events, Tree!EventStored(e)
      PROVE  Tree!IInv'
  <2>1. Append(frames, e) \in Seq(Events)
    BY <1>2
  <2>2. QED
    BY <1>1, <1>2, <1>4, <2>1 DEF Tree!EventStored
<1>5. CASE Tree!Answered
  <2> DEFINE new == Tree!Prefix(Tree!Arranged(stored, LAMBDA a, b : a > b), FirstRead)
  <2>1. new \in Seq(Events)
    BY <1>2, Read
  <2>2. got' = [list |-> new, due |-> TRUE] /\ UNCHANGED <<stored, frames, events, at, sel, focus>>
    BY <1>5 DEF Tree!Answered
  <2> HIDE DEF new
  <2>3. got' \in [list : Seq(Events), due : BOOLEAN]
    BY <2>1, <2>2
  <2>4. QED
    BY <1>1, <1>2, <2>2, <2>3
<1>6. CASE Tree!Close
  BY <1>6 DEF Tree!Close, Tree!feed, Tree!IInv
<1>7. QED
  BY <1>3, <1>4, <1>5, <1>6, TreeHolds, TreeOpens, Refocused DEF Tree!Next
-----------------------------------------------------------------------------
(* The older console: its tables *)

\* What the assumption and the invariant say of the rows.
LEMMA TableFacts ==
  ASSUME Table!IInv
  PROVE  /\ list \in Seq(Table!Row) /\ DOMAIN list = 1..Len(list) /\ Len(list) \in Nat
         /\ \A i \in DOMAIN list : list[i] \in Table!Row
         /\ Ids \subseteq Nat /\ IsFiniteSet(Ids) /\ Cap \in Nat /\ dir \in {1, -1}
         /\ \A r \in Table!Row : r.id \in Nat /\ r.n \in {1, 2, None}
<1>1. list \in Seq(Table!Row) /\ dir \in {1, -1}
  BY DEF Table!IInv
<1>2. DOMAIN list = 1..Len(list) /\ Len(list) \in Nat
  BY <1>1, LenProperties
<1>3. \A i \in DOMAIN list : list[i] \in Table!Row
  BY <1>1, <1>2, ElementOfSeq
<1>4. Ids \subseteq Nat /\ IsFiniteSet(Ids) /\ Cap \in Nat
  BY WebConsoleAssumption
<1>5. ASSUME NEW r \in Table!Row
      PROVE  r.id \in Nat /\ r.n \in {1, 2, None}
  <2>1. PICK i \in Ids : r \in Table!Versions(i)
    BY DEF Table!Row
  <2>2. r.id = i /\ r.n \in {1, 2, None}
    BY <2>1 DEF Table!Versions, Table!Numbers
  <2>3. QED
    BY <1>4, <2>2
<1>6. QED
  BY <1>1, <1>2, <1>3, <1>4, <1>5

\* Values in the direction asked for, the unknown last: one of two is before the other.
LEMMA OverIs ==
  ASSUME dir \in {1, -1}, NEW a \in Nat \cup {None}, NEW b \in Nat \cup {None},
         NEW c \in Nat \cup {None}
  PROVE  /\ ~Table!Over(a, a)
         /\ Table!Over(a, b) /\ Table!Over(b, c) => Table!Over(a, c)
         /\ a # b => (Table!Over(a, b) <=> ~Table!Over(b, a))
         /\ Table!Over(a, b) => b = None \/ (a # None /\ a * dir <= b * dir)
<1>1. \A x, y : Table!Over(x, y) <=> x # None /\ (y = None \/ x * dir < y * dir)
  BY DEF Table!Over
<1>2. CASE dir = 1
  <2>1. \A x, y \in Nat : x * dir < y * dir <=> x < y
    BY <1>2
  <2>2. \A x, y \in Nat : x * dir <= y * dir <=> x <= y
    BY <1>2
  <2>3. QED
    BY <1>1, <2>1, <2>2
<1>3. CASE dir = -1
  <2>1. \A x, y \in Nat : x * dir < y * dir <=> y < x
    BY <1>3
  <2>2. \A x, y \in Nat : x * dir <= y * dir <=> y <= x
    BY <1>3
  <2>3. QED
    BY <1>1, <2>1, <2>2
<1>4. QED
  BY <1>2, <1>3

\* A row is above another in the table.
Higher(S) == {p \in S \X S : Table!Above(p[1], p[2])}

LEMMA AboveOrders ==
  ASSUME Table!IInv, NEW S \in SUBSET (DOMAIN list)
  PROVE  Orders(S, Higher(S))
<1> DEFINE v(i) == Table!Value(list[i])
<1>1. \A i \in S : i \in Nat /\ v(i) \in Nat \cup {None}
  BY TableFacts DEF Table!Value
<1>2. \A i, j \in S : Table!Above(i, j) <=>
        IF where = "endpoints" /\ v(i) # v(j) THEN Table!Over(v(i), v(j)) ELSE i < j
  <2>1. ASSUME NEW i \in S, NEW j \in S
        PROVE  Table!Above(i, j) <=>
                 IF where = "endpoints" /\ v(i) # v(j) THEN Table!Over(v(i), v(j)) ELSE i < j
    <3>1. Table!Above(i, j) <=>
            IF where = "endpoints" /\ Table!Over(v(i), v(j)) # Table!Over(v(j), v(i))
            THEN Table!Over(v(i), v(j)) ELSE i < j
      BY DEF Table!Above
    <3>2. v(i) \in Nat \cup {None} /\ v(j) \in Nat \cup {None} /\ dir \in {1, -1}
      BY <1>1, TableFacts
    <3> HIDE DEF v
    <3>3. v(i) # v(j) => (Table!Over(v(i), v(j)) <=> ~Table!Over(v(j), v(i)))
      BY <3>2, OverIs
    <3>4. Table!Over(v(i), v(j)) \in BOOLEAN /\ Table!Over(v(j), v(i)) \in BOOLEAN
      BY DEF Table!Over
    <3>5. QED
      BY <3>1, <3>3, <3>4
  <2>2. QED
    BY <2>1
<1> HIDE DEF v
<1>3. \A i, j \in S : <<i, j>> \in Higher(S) <=> Table!Above(i, j)
  BY DEF Higher
<1>4. \A i \in S : ~Table!Above(i, i)
  BY <1>1, <1>2
<1>5. ASSUME NEW i \in S, NEW j \in S, NEW k \in S, Table!Above(i, j), Table!Above(j, k)
      PROVE  Table!Above(i, k)
  <2>1. dir \in {1, -1} /\ v(i) \in Nat \cup {None} /\ v(j) \in Nat \cup {None}
        /\ v(k) \in Nat \cup {None}
    BY <1>1, TableFacts
  <2>2. Table!Over(v(i), v(j)) /\ Table!Over(v(j), v(k)) =>
          Table!Over(v(i), v(k)) /\ v(i) # v(k)
    BY <2>1, OverIs
  <2>3. i < j /\ j < k => i < k
    BY <1>1
  <2>4. QED
    BY <1>2, <1>5, <2>2, <2>3
<1>6. ASSUME NEW i \in S, NEW j \in S, i # j
      PROVE  Table!Above(i, j) \/ Table!Above(j, i)
  <2>1. dir \in {1, -1} /\ v(i) \in Nat \cup {None} /\ v(j) \in Nat \cup {None}
    BY <1>1, TableFacts
  <2>2. v(i) # v(j) => Table!Over(v(i), v(j)) \/ Table!Over(v(j), v(i))
    BY <2>1, OverIs
  <2>3. i < j \/ j < i
    BY <1>1, <1>6
  <2>4. QED
    BY <1>2, <2>2, <2>3
<1>7. QED
  BY <1>3, <1>4, <1>5, <1>6 DEF Orders

\* The table is its rows in order.
LEMMA RowsAre ==
  ASSUME Table!IInv
  PROVE  \E ord : /\ InOrder(ord, Table!Shown, Higher(Table!Shown))
                  /\ Taken(Table!Rows, list, Table!Shown, ord, Table!Row)
<1> DEFINE S == Table!Shown
           ord == Table!Arranged(S, Table!Above)
           n == Cardinality(S)
<1>1. S \in SUBSET (DOMAIN list) /\ list \in Seq(Table!Row)
  BY TableFacts DEF Table!Shown
<1>2. IsFiniteSet(S)
  <2>1. IsFiniteSet(DOMAIN list)
    BY TableFacts, FS_Interval
  <2>2. QED
    BY <1>1, <2>1, FS_Subset
<1> HIDE DEF S
<1>3. ByRank(ord, S, Higher(S))
  <2>1. \A e \in S : {j \in S : Table!Above(j, e)} = {j \in S : <<j, e>> \in Higher(S)}
    BY DEF Higher
  <2> DEFINE place(k) == CHOOSE i \in S : Table!Cardinality({j \in S : Table!Above(j, i)}) = k - 1
  <2>2. ord = [k \in 1..n |-> place(k)]
    BY SameInTable DEF Table!Arranged
  <2>3. ASSUME NEW k \in 1..n, \E e \in S : Rank(e, S, Higher(S)) = k - 1
        PROVE  ord[k] \in S /\ Rank(ord[k], S, Higher(S)) = k - 1
    <3>1. \E e \in S : Table!Cardinality({j \in S : Table!Above(j, e)}) = k - 1
      BY <2>1, <2>3, SameInTable DEF Rank
    <3>2. ord[k] = place(k)
      <4> HIDE DEF ord, place
      <4>1. QED
        BY <2>2
    <3>3. ord[k] \in S /\ Table!Cardinality({j \in S : Table!Above(j, ord[k])}) = k - 1
      <4> HIDE DEF ord
      <4>1. QED
        BY <3>1, <3>2, Zenon
    <3>4. QED
      BY <2>1, <3>3, SameInTable DEF Rank
  <2>4. ord = [k \in 1..n |-> ord[k]]
    <3> HIDE DEF ord, place
    <3>1. QED
      BY <2>2
  <2> HIDE DEF ord
  <2>5. QED
    BY <2>3, <2>4 DEF ByRank
<1>4. Orders(S, Higher(S))
  BY <1>1, AboveOrders
<1>5. Table!Rows = [k \in DOMAIN ord |-> list[ord[k]]]
  BY DEF Table!Rows, S
<1> HIDE DEF ord
<1>6. InOrder(ord, S, Higher(S))
  BY <1>2, <1>3, <1>4, ArrangedIs
<1>7. Higher(S) \subseteq S \X S
  BY DEF Higher
<1>8. Taken(Table!Rows, list, S, ord, Table!Row)
  BY <1>1, <1>5, <1>6, <1>7, TakenIs, Zenon
<1>9. QED
  BY <1>6, <1>8 DEF S

\* What was asked for, as many as there are of it, and in order.
LEMMA TableShows ==
  ASSUME Table!IInv
  PROVE  /\ pick # None /\ word = None => Len(Table!Rows) = Table!Count(pick)
         /\ Table!Range(Table!Rows) = {r \in Table!Range(list) : Table!Matches(r)}
         /\ where = "endpoints" => \A i, j \in DOMAIN Table!Rows : i < j =>
              LET a == Table!Value(Table!Rows[i])  b == Table!Value(Table!Rows[j])
              IN  b = None \/ (a # None /\ a * dir <= b * dir)
<1> DEFINE S == Table!Shown
           R == Table!Rows
<1>1. PICK ord : InOrder(ord, S, Higher(S)) /\ Taken(R, list, S, ord, Table!Row)
  BY RowsAre
<1>2. /\ Cardinality(S) \in Nat /\ Len(R) = Cardinality(S) /\ DOMAIN R = 1..Cardinality(S)
      /\ \A k \in DOMAIN R : ord[k] \in S /\ R[k] = list[ord[k]]
      /\ \A i \in S : \E k \in DOMAIN R : R[k] = list[i]
  BY <1>1 DEF Taken
<1>3. S = {i \in DOMAIN list : Table!Matches(list[i])}
  BY DEF Table!Shown
<1>4. ASSUME pick # None, word = None PROVE Len(R) = Table!Count(pick)
  <2>1. \A r : Table!Matches(r) <=> r.kind = pick
    BY <1>4 DEF Table!Matches, Table!matchText
  <2>2. S = {i \in DOMAIN list : list[i].kind = pick}
    BY <1>3, <2>1
  <2>3. Table!Count(pick) = Cardinality(S)
    BY <2>2, SameInTable DEF Table!Count
  <2> HIDE DEF S, R
  <2>4. QED
    BY <1>2, <2>3
<1> HIDE DEF S, R
<1>5. Table!Range(R) = {r \in Table!Range(list) : Table!Matches(r)}
  <2>1. \A k \in DOMAIN R : R[k] \in Table!Range(list) /\ Table!Matches(R[k])
    BY <1>2, <1>3 DEF Table!Range
  <2>2. ASSUME NEW r \in Table!Range(list), Table!Matches(r)
        PROVE  \E k \in DOMAIN R : R[k] = r
    <3>1. PICK i \in DOMAIN list : r = list[i]
      BY DEF Table!Range
    <3>2. i \in S
      BY <1>3, <2>2, <3>1
    <3>3. QED
      BY <1>2, <3>1, <3>2
  <2>3. Table!Range(R) = {R[k] : k \in DOMAIN R}
    BY DEF Table!Range
  <2>4. QED
    BY <2>1, <2>2, <2>3
<1>6. ASSUME where = "endpoints", NEW i \in DOMAIN R, NEW j \in DOMAIN R, i < j
      PROVE  LET a == Table!Value(R[i])  b == Table!Value(R[j])
             IN  b = None \/ (a # None /\ a * dir <= b * dir)
  <2> DEFINE a == Table!Value(R[i])
             b == Table!Value(R[j])
  <2>1. <<ord[i], ord[j]>> \in Higher(S)
    BY <1>1, <1>2, <1>6 DEF InOrder
  <2>2. Table!Above(ord[i], ord[j]) /\ R[i] = list[ord[i]] /\ R[j] = list[ord[j]]
    BY <1>2, <2>1 DEF Higher
  <2>3. IF Table!Over(a, b) # Table!Over(b, a) THEN Table!Over(a, b) ELSE ord[i] < ord[j]
    BY <1>6, <2>2 DEF Table!Above
  <2>4. a \in Nat \cup {None} /\ b \in Nat \cup {None} /\ dir \in {1, -1}
    <3>1. R[i] \in Table!Row /\ R[j] \in Table!Row
      BY <1>2, <1>3, TableFacts
    <3>2. QED
      BY <3>1, TableFacts DEF Table!Value
  <2> HIDE DEF a, b
  <2>5. a # b => Table!Over(a, b)
    <3>1. a # b => (Table!Over(a, b) <=> ~Table!Over(b, a))
      BY <2>4, OverIs
    <3>2. Table!Over(a, b) \in BOOLEAN /\ Table!Over(b, a) \in BOOLEAN
      BY DEF Table!Over
    <3>3. QED
      BY <2>3, <3>1, <3>2
  <2>6. Table!Over(a, b) => b = None \/ (a # None /\ a * dir <= b * dir)
    BY <2>4, OverIs
  <2>7. a = b /\ b # None => a # None /\ a * dir <= b * dir
    <3>1. b # None => b * dir \in Int
      BY <2>4
    <3>2. \A x \in Int : x <= x
      OBVIOUS
    <3>3. QED
      BY <3>1, <3>2
  <2>8. b = None \/ (a # None /\ a * dir <= b * dir)
    BY <2>5, <2>6, <2>7
  <2>9. QED
    BY <2>8 DEF a, b
<1>7. QED
  BY <1>4, <1>5, <1>6 DEF R

\* The totals of the tables are those of the figures.
LEMMA SameSum == \A s : Table!Sum(s) = Count!Sum(s)
BY Zenon DEF Table!Sum, Count!Sum, Table!Sums, Count!Sums

\* The bytes of each row, those of one kind, and their sum.
Sent == [i \in 1..Len(list) |-> Table!Bytes(list[i])]
OfKind(k) == [i \in 1..Len(list) |-> IF list[i].kind = k THEN Sent[i] ELSE 0]

LEMMA OutIs ==
  ASSUME Table!IInv
  PROVE  /\ Sent \in [1..Len(list) -> Nat] /\ Count!Sum(Sent) = Table!totalOut
         /\ \A k : Table!Out(k) = Count!Sum(OfKind(k)) /\ Table!Out(k) \in Nat
<1> DEFINE L == Len(list)
<1>1. L \in Nat /\ DOMAIN list = 1..L /\ \A i \in 1..L : list[i].n \in {1, 2, None}
  BY TableFacts
<1>2. \A i \in 1..L : Table!Bytes(list[i]) \in Nat
  <2>1. ASSUME NEW i \in 1..L PROVE Table!Bytes(list[i]) \in Nat
    <3>1. list[i].n = None \/ list[i].n \in Nat
      BY <1>1
    <3>2. QED
      BY <3>1 DEF Table!Bytes
  <2>2. QED
    BY <2>1
<1>3. Sent \in [1..L -> Nat]
  BY <1>2 DEF Sent
<1>4. Table!totalOut = Table!Sum(Sent)
  BY <1>1 DEF Table!totalOut, Sent
<1>5. ASSUME NEW k PROVE Table!Out(k) = Count!Sum(OfKind(k)) /\ Table!Out(k) \in Nat
  <2>1. \A i \in 1..L : Sent[i] = Table!Bytes(list[i])
    BY DEF Sent
  <2>2. OfKind(k) = [i \in DOMAIN list |-> IF list[i].kind = k THEN Table!Bytes(list[i]) ELSE 0]
    BY <1>1, <2>1 DEF OfKind
  <2>3. Table!Out(k) = Count!Sum(OfKind(k))
    BY <2>2, SameSum DEF Table!Out
  <2>4. OfKind(k) \in [1..L -> Nat]
    BY <1>3 DEF OfKind
  <2> HIDE DEF L
  <2>5. Count!Sum(OfKind(k)) \in Nat
    BY <1>1, <2>4, SumType
  <2>6. QED
    BY <2>3, <2>5
<1>6. QED
  BY <1>3, <1>4, <1>5, SameSum

\* A destination goes before another that has fewer bytes, or was later in the list.
Ahead(S) ==
  {p \in S \X S :
     LET v == Table!Out(list[p[1]].kind)  w == Table!Out(list[p[2]].kind)
     IN  v > w \/ (v = w /\ p[1] < p[2])}

LEMMA AheadOrders ==
  ASSUME Table!IInv, NEW S \in SUBSET (DOMAIN list)
  PROVE  Orders(S, Ahead(S))
<1> DEFINE v(i) == Table!Out(list[i].kind)
<1>1. \A i \in S : i \in Nat /\ v(i) \in Nat
  BY TableFacts, OutIs
<1>2. \A i, j \in S : <<i, j>> \in Ahead(S) <=> v(i) > v(j) \/ (v(i) = v(j) /\ i < j)
  BY DEF Ahead
<1> HIDE DEF v
<1>3. \A i \in S : <<i, i>> \notin Ahead(S)
  BY <1>1, <1>2
<1>4. ASSUME NEW i \in S, NEW j \in S, NEW k \in S,
             <<i, j>> \in Ahead(S), <<j, k>> \in Ahead(S)
      PROVE  <<i, k>> \in Ahead(S)
  <2>1. i \in Nat /\ j \in Nat /\ k \in Nat /\ v(i) \in Nat /\ v(j) \in Nat /\ v(k) \in Nat
    BY <1>1
  <2>2. /\ v(i) > v(j) \/ (v(i) = v(j) /\ i < j)
        /\ v(j) > v(k) \/ (v(j) = v(k) /\ j < k)
    BY <1>2, <1>4
  <2>3. v(i) > v(k) \/ (v(i) = v(k) /\ i < k)
    BY <2>1, <2>2
  <2>4. QED
    BY <1>2, <2>3
<1>5. ASSUME NEW i \in S, NEW j \in S, i # j
      PROVE  <<i, j>> \in Ahead(S) \/ <<j, i>> \in Ahead(S)
  <2>1. i \in Nat /\ j \in Nat /\ v(i) \in Nat /\ v(j) \in Nat
    BY <1>1
  <2>2. \/ v(i) > v(j) \/ (v(i) = v(j) /\ i < j)
        \/ v(j) > v(i) \/ (v(j) = v(i) /\ j < i)
    BY <1>5, <2>1
  <2>3. QED
    BY <1>2, <2>2
<1>6. QED
  BY <1>3, <1>4, <1>5 DEF Orders

\* The first of each destination is a head, so that every destination has one.
LEMMA HeadOfKind ==
  ASSUME Table!IInv, NEW i \in DOMAIN list
  PROVE  \E h \in Table!Heads : list[h].kind = list[i].kind
<1> DEFINE S == {j \in DOMAIN list : list[j].kind = list[i].kind}
<1>1. S \in SUBSET Nat /\ S # {}
  BY TableFacts
<1>2. IsWellFoundedOn(OpToRel(<, Nat), Nat)
  BY NatLessThanWellFounded
<1>3. PICK h \in S : \A j \in S : <<j, h>> \notin OpToRel(<, Nat)
  BY <1>1, <1>2, WFMin
<1>4. \A j \in S : ~(j < h)
  BY <1>1, <1>3 DEF OpToRel
<1>5. ASSUME NEW j \in 1..(h - 1) PROVE list[j].kind # list[h].kind
  <2>1. j \in DOMAIN list /\ j < h
    BY <1>1, TableFacts
  <2>2. QED
    BY <1>3, <1>4, <2>1
<1>6. h \in Table!Heads
  BY <1>5 DEF Table!Heads
<1>7. QED
  BY <1>3, <1>6

\* The destinations: each once, with its bytes, the most bytes first.
Ranked(top) ==
  /\ \E m \in Nat : top = [k \in 1..m |-> top[k]]
  /\ \A k \in DOMAIN top : \E i \in DOMAIN list : top[k] = list[i].kind
  /\ \A i \in DOMAIN list : \E k \in DOMAIN top : top[k] = list[i].kind
  /\ \A k, l \in DOMAIN top : k < l =>
       Table!Out(top[k]) >= Table!Out(top[l]) /\ top[k] # top[l]

LEMMA TopIs == ASSUME Table!IInv PROVE Ranked(Table!topDomains)
<1> DEFINE S == Table!Heads
           higher(i, j) == LET v == Table!Out(list[i].kind)  w == Table!Out(list[j].kind)
                           IN  v > w \/ (v = w /\ i < j)
           ord == Table!Arranged(S, higher)
           top == [k \in DOMAIN ord |-> list[ord[k]].kind]
           n == Cardinality(S)
<1>1. S \in SUBSET (DOMAIN list)
  BY DEF Table!Heads
<1>2. IsFiniteSet(S) /\ n \in Nat
  <2>1. IsFiniteSet(DOMAIN list)
    BY TableFacts, FS_Interval
  <2> HIDE DEF S
  <2>2. QED
    BY <1>1, <2>1, FS_Subset, FS_CardinalityType
<1>3. Table!topDomains = top
  BY DEF Table!topDomains
<1> HIDE DEF S
<1>4. ByRank(ord, S, Ahead(S))
  <2>1. \A e \in S : {j \in S : higher(j, e)} = {j \in S : <<j, e>> \in Ahead(S)}
    BY DEF Ahead
  <2> DEFINE place(k) == CHOOSE i \in S : Table!Cardinality({j \in S : higher(j, i)}) = k - 1
  <2>2. ord = [k \in 1..n |-> place(k)]
    BY SameInTable DEF Table!Arranged
  <2> HIDE DEF higher
  <2>3. ASSUME NEW k \in 1..n, \E e \in S : Rank(e, S, Ahead(S)) = k - 1
        PROVE  ord[k] \in S /\ Rank(ord[k], S, Ahead(S)) = k - 1
    <3>1. \E e \in S : Table!Cardinality({j \in S : higher(j, e)}) = k - 1
      BY <2>1, <2>3, SameInTable DEF Rank
    <3>2. ord[k] = place(k)
      <4> HIDE DEF ord, place
      <4>1. QED
        BY <2>2
    <3>3. ord[k] \in S /\ Table!Cardinality({j \in S : higher(j, ord[k])}) = k - 1
      <4> HIDE DEF ord
      <4>1. QED
        BY <3>1, <3>2, Zenon
    <3>4. QED
      BY <2>1, <3>3, SameInTable DEF Rank
  <2>4. ord = [k \in 1..n |-> ord[k]]
    <3> HIDE DEF ord, place
    <3>1. QED
      BY <2>2
  <2> HIDE DEF ord
  <2>5. QED
    BY <2>3, <2>4 DEF ByRank
<1>5. Orders(S, Ahead(S))
  BY <1>1, AheadOrders
<1> HIDE DEF ord
<1>6. InOrder(ord, S, Ahead(S))
  BY <1>2, <1>4, <1>5, ArrangedIs
<1>7. /\ DOMAIN top = 1..n /\ top = [k \in 1..n |-> top[k]]
      /\ \A k \in 1..n : ord[k] \in S /\ top[k] = list[ord[k]].kind
  BY <1>6 DEF InOrder
<1> HIDE DEF top
<1>8. \A k \in DOMAIN top : \E i \in DOMAIN list : top[k] = list[i].kind
  BY <1>1, <1>7
<1>9. ASSUME NEW i \in DOMAIN list PROVE \E k \in DOMAIN top : top[k] = list[i].kind
  <2>1. PICK h \in S : list[h].kind = list[i].kind
    BY HeadOfKind DEF S
  <2>2. PICK k \in 1..n : ord[k] = h
    BY <1>6 DEF InOrder
  <2>3. QED
    BY <1>7, <2>1, <2>2
<1>10. ASSUME NEW k \in DOMAIN top, NEW l \in DOMAIN top, k < l
       PROVE  Table!Out(top[k]) >= Table!Out(top[l]) /\ top[k] # top[l]
  <2>1. /\ ord[k] \in S /\ ord[l] \in S /\ ord[k] # ord[l]
        /\ <<ord[k], ord[l]>> \in Ahead(S)
    BY <1>6, <1>7, <1>10 DEF InOrder
  <2>2. /\ top[k] = list[ord[k]].kind /\ top[l] = list[ord[l]].kind
        /\ Table!Out(top[k]) > Table!Out(top[l]) \/ Table!Out(top[k]) = Table!Out(top[l])
    BY <1>7, <2>1 DEF Ahead
  <2>3. Table!Out(top[k]) \in Nat /\ Table!Out(top[l]) \in Nat
    BY OutIs
  <2>4. Table!Out(top[k]) >= Table!Out(top[l])
    BY <2>2, <2>3
  <2>5. ASSUME NEW g \in S, NEW h \in S, g < h PROVE list[g].kind # list[h].kind
    <3>1. g \in 1..(h - 1)
      BY <1>1, <2>5, TableFacts
    <3>2. QED
      BY <3>1 DEF S, Table!Heads
  <2>6. ord[k] < ord[l] \/ ord[l] < ord[k]
    BY <1>1, <2>1, TableFacts
  <2>7. QED
    BY <2>1, <2>2, <2>4, <2>5, <2>6
<1>11. QED
  BY <1>2, <1>3, <1>7, <1>8, <1>9, <1>10 DEF Ranked

\* The counts of the destinations add up to the list, their bytes to the total.
LEMMA TopAddsUp ==
  ASSUME Table!IInv, NEW top, Ranked(top)
  PROVE  /\ Table!Sum([k \in DOMAIN top |-> Table!Count(top[k])]) = Len(list)
         /\ Table!Sum([k \in DOMAIN top |-> Table!Out(top[k])]) = Table!totalOut
<1> DEFINE L == Len(list)
           c == [i \in 1..L |-> CHOOSE k \in DOMAIN top : top[k] = list[i].kind]
           ones == [i \in 1..L |-> IF i \in 1..L THEN 1 ELSE 0]
<1>1. PICK m \in Nat : DOMAIN top = 1..m
  BY DEF Ranked
<1>2. L \in Nat /\ DOMAIN list = 1..L
  BY TableFacts
<1>3. ASSUME NEW i \in 1..L PROVE c[i] \in 1..m /\ top[c[i]] = list[i].kind
  <2>1. \E k \in DOMAIN top : top[k] = list[i].kind
    BY <1>2 DEF Ranked
  <2>2. c[i] = CHOOSE k \in DOMAIN top : top[k] = list[i].kind
    OBVIOUS
  <2> HIDE DEF c
  <2>3. c[i] \in DOMAIN top /\ top[c[i]] = list[i].kind
    BY <2>1, <2>2, Zenon
  <2>4. QED
    BY <1>1, <2>3
<1>4. c \in [1..L -> 1..m]
  BY <1>3
<1> HIDE DEF c
<1>5. ASSUME NEW k \in 1..m, NEW l \in 1..m, top[k] = top[l] PROVE k = l
  <2>1. ~(k < l) /\ ~(l < k)
    BY <1>1, <1>5 DEF Ranked
  <2>2. QED
    BY <1>1, <2>1
<1>6. ASSUME NEW k \in 1..m, NEW i \in 1..L PROVE c[i] = k <=> list[i].kind = top[k]
  BY <1>3, <1>5
<1> HIDE DEF L
<1>7. Table!Sum([k \in DOMAIN top |-> Table!Out(top[k])]) = Table!totalOut
  <2>1. Sent \in [1..L -> Nat] /\ DOMAIN Sent = 1..L
    BY OutIs DEF L
  <2>2. ASSUME NEW k \in 1..m PROVE Table!Out(top[k]) = Count!Sum(OfClass(Sent, c, k))
    <3>1. OfClass(Sent, c, k) = OfKind(top[k])
      BY <1>6, <2>1 DEF OfClass, OfKind, L
    <3>2. QED
      BY <3>1, OutIs
  <2>3. [k \in DOMAIN top |-> Table!Out(top[k])] = ByClass(Sent, c, m)
    BY <1>1, <2>2 DEF ByClass
  <2>4. Count!Sum(ByClass(Sent, c, m)) = Count!Sum(Sent)
    BY <1>1, <1>2, <1>4, <2>1, SumByClass
  <2>5. QED
    BY <2>3, <2>4, OutIs, SameSum
<1>8. Table!Sum([k \in DOMAIN top |-> Table!Count(top[k])]) = L
  <2>1. Cardinality(1..L) = L
    <3>1. 1 \in Int /\ L \in Int /\ (IF 1 > L THEN 0 ELSE L - 1 + 1) = L
      BY <1>2
    <3>2. QED
      BY <3>1, FS_Interval
  <2>2. Count!Sum(ones) = L
    BY <1>2, <2>1, SumOfOnes
  <2>3. ones \in [1..L -> Nat] /\ DOMAIN ones = 1..L /\ \A i \in 1..L : ones[i] = 1
    OBVIOUS
  <2> HIDE DEF ones
  <2>4. ASSUME NEW k \in 1..m PROVE Table!Count(top[k]) = Count!Sum(OfClass(ones, c, k))
    <3> DEFINE S == {i \in 1..L : list[i].kind = top[k]}
               s == [i \in 1..L |-> IF i \in S THEN 1 ELSE 0]
    <3>1. Table!Count(top[k]) = Cardinality(S)
      BY <1>2, SameInTable DEF Table!Count
    <3>2. \A i \in 1..L : i \in S <=> c[i] = k
      BY <1>6
    <3>3. S \in SUBSET (1..L)
      OBVIOUS
    <3> HIDE DEF S
    <3>4. OfClass(ones, c, k) = s
      BY <2>3, <3>2 DEF OfClass
    <3>5. Count!Sum(s) = Cardinality(S)
      BY <1>2, <3>3, SumOfOnes
    <3>6. QED
      BY <3>1, <3>4, <3>5
  <2>5. [k \in DOMAIN top |-> Table!Count(top[k])] = ByClass(ones, c, m)
    BY <1>1, <2>4 DEF ByClass
  <2>6. Count!Sum(ByClass(ones, c, m)) = Count!Sum(ones)
    BY <1>1, <1>2, <1>4, <2>3, SumByClass
  <2>7. QED
    BY <2>2, <2>5, <2>6, SameSum
<1>9. QED
  BY <1>7, <1>8 DEF L

LEMMA TableListed == Table!IInv => Table!ListedOnce
<1> SUFFICES ASSUME Table!IInv PROVE Table!ListedOnce
  OBVIOUS
<1> DEFINE top == Table!topDomains
<1>1. Ranked(top)
  BY TopIs
<1>2. /\ Table!Sum([k \in DOMAIN top |-> Table!Count(top[k])]) = Len(list)
      /\ Table!Sum([k \in DOMAIN top |-> Table!Out(top[k])]) = Table!totalOut
  BY <1>1, TopAddsUp
<1>3. \A i, j \in DOMAIN top : i < j =>
        Table!Out(top[i]) >= Table!Out(top[j]) /\ top[i] # top[j]
  BY <1>1 DEF Ranked
<1>4. where \notin Table!Streams => Table!Listing(list)
  BY DEF Table!IInv
<1>5. /\ pick # None /\ word = None => Len(Table!Rows) = Table!Count(pick)
      /\ Table!Range(Table!Rows) = {r \in Table!Range(list) : Table!Matches(r)}
      /\ where = "endpoints" => \A i, j \in DOMAIN Table!Rows : i < j =>
           LET a == Table!Value(Table!Rows[i])  b == Table!Value(Table!Rows[j])
           IN  b = None \/ (a # None /\ a * dir <= b * dir)
  BY TableShows
<1>6. QED
  BY <1>2, <1>3, <1>4, <1>5, Zenon DEF Table!ListedOnce

\* No row twice: of any two places the rows differ.
LEMMA RowsListed ==
  ASSUME NEW T, NEW s \in Seq(T)
  PROVE  Table!Listing(s) <=> \A k, l \in DOMAIN s : k < l => s[k].id # s[l].id
<1> DEFINE t == [j \in DOMAIN s |-> s[j].id]
<1>1. DOMAIN s = 1..Len(s) /\ Len(s) \in Nat
  BY LenProperties
<1>2. Table!Listing(s) <=> \A k, l \in DOMAIN s : s[k].id = s[l].id => k = l
  <2>1. DOMAIN t = DOMAIN s /\ \A k \in DOMAIN s : t[k] = s[k].id
    OBVIOUS
  <2>2. Table!Listing(s) <=> \A k, l \in DOMAIN t : t[k] = t[l] => k = l
    BY Zenon DEF Table!Listing, Table!IsInjective
  <2> HIDE DEF t
  <2>3. QED
    BY <2>1, <2>2
<1>3. \A k, l \in DOMAIN s : k = l \/ k < l \/ l < k
  BY <1>1
<1>4. \A k, l \in DOMAIN s : k < l => k # l
  BY <1>1
<1>5. QED
  BY <1>2, <1>3, <1>4

\* Of a list without repetition a part has none.
LEMMA PickOnce ==
  ASSUME NEW T, NEW s \in Seq(T), NEW I \in SUBSET (DOMAIN s)
  PROVE  /\ Pick(s, I) \in Seq(T)
         /\ \A k \in DOMAIN Pick(s, I) : \E i \in I : Pick(s, I)[k] = s[i]
         /\ Table!Listing(s) => Table!Listing(Pick(s, I))
<1> DEFINE p == Pick(s, I)
<1>1. p \in Seq(T) /\ Chosen(p, s, I)
  BY PickIs
<1> HIDE DEF p
<1>2. ASSUME Table!Listing(s), NEW k \in DOMAIN p, NEW l \in DOMAIN p, k < l
      PROVE  p[k].id # p[l].id
  <2>1. PICK i \in I, j \in I : i < j /\ p[k] = s[i] /\ p[l] = s[j]
    BY <1>1, <1>2 DEF Chosen
  <2>2. s[i].id # s[j].id
    BY <1>2, <2>1, RowsListed
  <2>3. QED
    BY <2>1, <2>2
<1>3. Table!Listing(s) => Table!Listing(p)
  BY <1>1, <1>2, RowsListed
<1>4. QED
  BY <1>1, <1>3 DEF Chosen, p

\* Nor have two lists together that share no row.
LEMMA JoinedOnce ==
  ASSUME NEW T, NEW s \in Seq(T), NEW t \in Seq(T), Table!Listing(s), Table!Listing(t),
         \A i \in DOMAIN s, j \in DOMAIN t : s[i].id # t[j].id
  PROVE  /\ s \o t \in Seq(T) /\ Table!Listing(s \o t)
         /\ \A k \in DOMAIN (s \o t) : \/ \E i \in DOMAIN s : (s \o t)[k] = s[i]
                                       \/ \E j \in DOMAIN t : (s \o t)[k] = t[j]
<1> DEFINE u == s \o t
           m == Len(s)
           n == Len(t)
<1>1. DOMAIN s = 1..m /\ m \in Nat /\ DOMAIN t = 1..n /\ n \in Nat
  BY LenProperties
<1>2. u \in Seq(T) /\ Len(u) = m + n /\ \A k \in 1..(m + n) : u[k] = IF k <= m THEN s[k] ELSE t[k - m]
  BY ConcatProperties
<1> HIDE DEF u
<1>3. DOMAIN u = 1..(m + n)
  BY <1>2, LenProperties
<1> HIDE DEF m, n
<1>4. \A k \in 1..(m + n) : \/ k \in DOMAIN s /\ u[k] = s[k]
                            \/ ~(k <= m) /\ k - m \in DOMAIN t /\ u[k] = t[k - m]
  <2>1. ASSUME NEW k \in 1..(m + n)
        PROVE  \/ k \in DOMAIN s /\ u[k] = s[k]
               \/ ~(k <= m) /\ k - m \in DOMAIN t /\ u[k] = t[k - m]
    <3>1. u[k] = IF k <= m THEN s[k] ELSE t[k - m]
      BY <1>2
    <3>2. k \in 1..m \/ (~(k <= m) /\ k - m \in 1..n)
      BY <1>1
    <3>3. k \in 1..m => k <= m
      BY <1>1
    <3>4. QED
      BY <1>1, <3>1, <3>2, <3>3
  <2>2. QED
    BY <2>1
<1>5. ASSUME NEW k \in DOMAIN u, NEW l \in DOMAIN u, k < l
      PROVE  u[k].id # u[l].id
  <2>1. CASE k \in DOMAIN s /\ u[k] = s[k] /\ l \in DOMAIN s /\ u[l] = s[l]
    BY <1>5, <2>1, RowsListed
  <2>2. CASE k \in DOMAIN s /\ u[k] = s[k] /\ l - m \in DOMAIN t /\ u[l] = t[l - m]
    BY <2>2
  <2>3. CASE /\ ~(k <= m) /\ k - m \in DOMAIN t /\ u[k] = t[k - m]
             /\ l - m \in DOMAIN t /\ u[l] = t[l - m]
    <3>1. k - m < l - m
      BY <1>1, <1>3, <1>5
    <3>2. QED
      BY <2>3, <3>1, RowsListed
  <2>4. ~(k <= m) => ~(l \in DOMAIN s)
    BY <1>1, <1>3, <1>5
  <2>5. QED
    BY <1>3, <1>4, <2>1, <2>2, <2>3, <2>4
<1>6. Table!Listing(u)
  BY <1>2, <1>5, RowsListed
<1>7. QED
  BY <1>2, <1>3, <1>4, <1>6 DEF u

LEMMA SingleOnce ==
  ASSUME NEW T, NEW r \in T
  PROVE  /\ <<r>> \in Seq(T) /\ Table!Listing(<<r>>) /\ DOMAIN <<r>> = {1} /\ <<r>>[1] = r
<1> DEFINE s == <<r>>
<1>1. s \in Seq(T) /\ DOMAIN s = {1} /\ s[1] = r
  OBVIOUS
<1> HIDE DEF s
<1>2. \A k, l \in DOMAIN s : ~(k < l)
  BY <1>1
<1>3. Table!Listing(s)
  BY <1>1, <1>2, RowsListed
<1>4. QED
  BY <1>1, <1>3 DEF s

\* The first rows of a list without repetition have none.
LEMMA PrefixOnce ==
  ASSUME NEW T, NEW s \in Seq(T), NEW n \in Nat
  PROVE  /\ Prefix(s, n) \in Seq(T)
         /\ Table!Listing(s) => Table!Listing(Prefix(s, n))
<1> DEFINE p == Prefix(s, n)
<1>1. p \in Seq(T) /\ DOMAIN p \subseteq DOMAIN s /\ \A k \in DOMAIN p : p[k] = s[k]
  BY PrefixIs
<1> HIDE DEF p
<1>2. ASSUME Table!Listing(s), NEW k \in DOMAIN p, NEW l \in DOMAIN p, k < l
      PROVE  p[k].id # p[l].id
  BY <1>1, <1>2, RowsListed
<1>3. QED
  BY <1>1, <1>2, RowsListed DEF p

\* A row that is pushed takes the place of its own.
LEMMA IntoIs ==
  ASSUME Table!IInv, NEW r \in Table!Row
  PROVE  /\ Table!Into(r) \in Seq(Table!Row)
         /\ where \notin Table!Streams => Table!Listing(Table!Into(r))
<1> DEFINE T == Table!Row
           low == {i \in DOMAIN list : list[i].id < r.id}
           high == {i \in DOMAIN list : list[i].id > r.id}
           other == {i \in DOMAIN list : list[i].id # r.id}
           before == Pick(list, low)
           after == Pick(list, high)
           rest == Pick(list, other)
<1>1. list \in Seq(T) /\ Cap \in Nat /\ r.id \in Nat
  BY TableFacts
<1>2. \A i \in DOMAIN list : list[i].id \in Nat
  BY TableFacts
<1>3. /\ low \in SUBSET (DOMAIN list) /\ high \in SUBSET (DOMAIN list)
      /\ other \in SUBSET (DOMAIN list)
      /\ \A i \in low : list[i].id < r.id
      /\ \A i \in high : list[i].id > r.id
      /\ \A i \in other : list[i].id # r.id
      /\ \A i \in low \cup high : list[i].id \in Nat
  BY <1>2
<1>4. /\ <<r>> \in Seq(T) /\ Table!Listing(<<r>>) /\ DOMAIN <<r>> = {1} /\ <<r>>[1] = r
  BY SingleOnce
<1>5. CASE where = "endpoints"
  <2>1. Table!Into(r) = (before \o <<r>>) \o after
    BY <1>5, SameInTable DEF Table!Into
  <2>2. Table!Listing(list)
    BY <1>5 DEF Table!IInv, Table!Streams
  <2> HIDE DEF T, low, high, other
  <2>3. /\ before \in Seq(T) /\ Table!Listing(before)
        /\ \A k \in DOMAIN before : \E i \in low : before[k] = list[i]
    BY <1>1, <1>3, <2>2, PickOnce
  <2>4. /\ after \in Seq(T) /\ Table!Listing(after)
        /\ \A k \in DOMAIN after : \E i \in high : after[k] = list[i]
    BY <1>1, <1>3, <2>2, PickOnce
  <2> HIDE DEF before, after
  <2>5. \A k \in DOMAIN before : before[k].id \in Nat /\ before[k].id < r.id
    BY <1>3, <2>3
  <2>6. \A k \in DOMAIN after : after[k].id \in Nat /\ after[k].id > r.id
    BY <1>3, <2>4
  <2> DEFINE b == <<r>>
             s == before \o b
  <2>7. b \in Seq(T) /\ Table!Listing(b) /\ DOMAIN b = {1} /\ b[1] = r
    BY <1>4
  <2> HIDE DEF b
  <2>8. \A i \in DOMAIN before, j \in DOMAIN b : before[i].id # b[j].id
    BY <1>1, <2>5, <2>7
  <2>9. /\ s \in Seq(T) /\ Table!Listing(s)
        /\ \A k \in DOMAIN s : \/ \E i \in DOMAIN before : s[k] = before[i]
                               \/ \E j \in DOMAIN b : s[k] = b[j]
    BY <2>3, <2>7, <2>8, JoinedOnce
  <2> HIDE DEF s
  <2>10. \A k \in DOMAIN s : s[k].id \in Nat /\ s[k].id <= r.id
    <3>1. \A k \in DOMAIN s : (\E i \in DOMAIN before : s[k] = before[i]) \/ s[k] = r
      BY <2>7, <2>9
    <3>2. r.id <= r.id /\ \A x \in Nat : x < r.id => x <= r.id
      BY <1>1
    <3>3. QED
      BY <1>1, <2>5, <3>1, <3>2
  <2>11. \A x, y \in Nat : x <= r.id /\ y > r.id => x # y
    BY <1>1
  <2>12. \A i \in DOMAIN s, j \in DOMAIN after : s[i].id # after[j].id
    BY <2>6, <2>10, <2>11
  <2>13. s \o after \in Seq(T) /\ Table!Listing(s \o after)
    BY <2>4, <2>9, <2>12, JoinedOnce
  <2>14. QED
    BY <2>1, <2>13 DEF s, b, T
<1>6. CASE where # "endpoints" /\ where \in Table!Streams
  <2> DEFINE all == <<r>> \o list
  <2>1. Table!Into(r) = Prefix(all, Cap)
    BY <1>6, SameInTable DEF Table!Into
  <2>2. all \in Seq(T)
    BY <1>1, <1>4, ConcatProperties
  <2> HIDE DEF all
  <2>3. Prefix(all, Cap) \in Seq(T)
    BY <1>1, <2>2, PrefixIs
  <2>4. QED
    BY <1>6, <2>1, <2>3
<1>7. CASE where # "endpoints" /\ where \notin Table!Streams
  <2> DEFINE b == <<r>>
             all == b \o rest
  <2>1. Table!Into(r) = Prefix(all, Cap)
    BY <1>7, SameInTable DEF Table!Into
  <2>2. Table!Listing(list)
    BY <1>7 DEF Table!IInv
  <2> HIDE DEF T, low, high, other
  <2>3. /\ rest \in Seq(T) /\ Table!Listing(rest)
        /\ \A k \in DOMAIN rest : \E i \in other : rest[k] = list[i]
    BY <1>1, <1>3, <2>2, PickOnce
  <2> HIDE DEF rest
  <2>4. b \in Seq(T) /\ Table!Listing(b) /\ DOMAIN b = {1} /\ b[1] = r
    BY <1>4
  <2> HIDE DEF b
  <2>5. \A i \in DOMAIN b, j \in DOMAIN rest : b[i].id # rest[j].id
    BY <1>3, <2>3, <2>4
  <2>6. all \in Seq(T) /\ Table!Listing(all)
    BY <2>3, <2>4, <2>5, JoinedOnce
  <2> HIDE DEF all
  <2>7. Prefix(all, Cap) \in Seq(T) /\ Table!Listing(Prefix(all, Cap))
    BY <1>1, <2>6, PrefixOnce
  <2>8. QED
    BY <2>1, <2>7 DEF T
<1>8. QED
  BY <1>5, <1>6, <1>7

LEMMA TableInit == Table!Init => Table!IInv
<1> SUFFICES ASSUME Table!Init PROVE Table!IInv
  OBVIOUS
<1>1. held \in [Ids -> Table!Row \cup {None}] /\ \A i \in Ids : held[i] \in Table!Versions(i) \cup {None}
  BY DEF Table!Init, Table!Row
<1>2. list = <<>> /\ feed = <<>> /\ answer = None /\ key = "name" /\ dir = 1
  BY DEF Table!Init
<1>3. Table!Listing(list)
  <2>1. list \in Seq({}) /\ DOMAIN list = {}
    BY <1>2
  <2>2. QED
    BY <2>1, RowsListed
<1>4. list \in Seq(Table!Row) /\ feed \in Seq(Table!Row)
  BY <1>2
<1>5. QED
  BY <1>1, <1>2, <1>3, <1>4 DEF Table!IInv

\* A read has each row of the server once, in one order or the other.
LEMMA TableAnswered ==
  ASSUME Table!IInv, Table!Answered
  PROVE  /\ answer' \in [rows : Seq(Table!Row), due : BOOLEAN]
         /\ Table!Listing(answer'.rows)
<1> DEFINE S == {i \in Ids : held[i] # None}
           earlier(a, b) == IF where = "endpoints" THEN a < b ELSE a > b
           R == IF where = "endpoints" THEN Less(S) ELSE More(S)
           ids == Table!Arranged(S, earlier)
           listing == [j \in DOMAIN ids |-> held[ids[j]]]
           n == Cardinality(S)
<1>1. answer' = [rows |-> listing, due |-> TRUE]
  BY DEF Table!Answered
<1>2. \A i \in S : held[i] \in Table!Row /\ held[i].id = i
  <2>1. ASSUME NEW i \in S PROVE held[i] \in Table!Row /\ held[i].id = i
    <3>1. held[i] \in Table!Versions(i) /\ i \in Ids
      BY DEF Table!IInv
    <3>2. QED
      BY <3>1 DEF Table!Row, Table!Versions
  <2>2. QED
    BY <2>1
<1>3. IsFiniteSet(S) /\ n \in Nat /\ S \subseteq Int
  <2>1. S \subseteq Ids
    OBVIOUS
  <2> HIDE DEF S
  <2>2. QED
    BY <2>1, TableFacts, FS_Subset, FS_CardinalityType
<1> HIDE DEF S
<1>4. Orders(S, R)
  BY <1>3, LessOrders
<1>5. ByRank(ids, S, R)
  <2>1. \A e \in S : {j \in S : earlier(j, e)} = {j \in S : <<j, e>> \in R}
    BY DEF Less, More
  <2> HIDE DEF earlier, R
  <2> DEFINE place(k) == CHOOSE i \in S : Table!Cardinality({j \in S : earlier(j, i)}) = k - 1
  <2>2. ids = [k \in 1..n |-> place(k)]
    BY SameInTable DEF Table!Arranged
  <2>3. ASSUME NEW k \in 1..n, \E e \in S : Rank(e, S, R) = k - 1
        PROVE  ids[k] \in S /\ Rank(ids[k], S, R) = k - 1
    <3>1. \E e \in S : Table!Cardinality({j \in S : earlier(j, e)}) = k - 1
      BY <2>1, <2>3, SameInTable DEF Rank
    <3>2. ids[k] = place(k)
      <4> HIDE DEF ids, place
      <4>1. QED
        BY <2>2
    <3>3. ids[k] \in S /\ Table!Cardinality({j \in S : earlier(j, ids[k])}) = k - 1
      <4> HIDE DEF ids
      <4>1. QED
        BY <3>1, <3>2, Zenon
    <3>4. QED
      BY <2>1, <3>3, SameInTable DEF Rank
  <2>4. ids = [k \in 1..n |-> ids[k]]
    <3> HIDE DEF ids, place
    <3>1. QED
      BY <2>2
  <2> HIDE DEF ids
  <2>5. QED
    BY <2>3, <2>4 DEF ByRank
<1> HIDE DEF ids, R
<1>6. InOrder(ids, S, R)
  BY <1>3, <1>4, <1>5, ArrangedIs
<1>7. DOMAIN ids = 1..n /\ \A k \in 1..n : ids[k] \in S
  BY <1>6 DEF InOrder
<1>8. listing \in [1..n -> Table!Row] /\ \A k \in 1..n : listing[k].id = ids[k]
  BY <1>2, <1>7
<1> HIDE DEF listing
<1>9. listing \in Seq(Table!Row) /\ DOMAIN listing = 1..n
  <2> HIDE DEF n
  <2>1. QED
    BY <1>3, <1>8
<1>10. \A k, l \in DOMAIN listing : k < l => listing[k].id # listing[l].id
  <2>1. \A k, l \in 1..n : k < l => ids[k] # ids[l]
    BY <1>6 DEF InOrder
  <2> HIDE DEF n
  <2>2. QED
    BY <1>8, <1>9, <2>1
<1>11. Table!Listing(listing)
  BY <1>9, <1>10, RowsListed
<1>12. QED
  BY <1>1, <1>9, <1>11

LEMMA TableNext == Table!IInv /\ [Table!Next]_(Table!vars) => Table!IInv'
<1> SUFFICES ASSUME Table!IInv, [Table!Next]_(Table!vars) PROVE Table!IInv'
  OBVIOUS
<1>1. /\ held \in [Ids -> Table!Row \cup {None}]
      /\ \A i \in Ids : held[i] \in Table!Versions(i) \cup {None}
      /\ feed \in Seq(Table!Row) /\ list \in Seq(Table!Row)
      /\ answer = None \/ (answer \in [rows : Seq(Table!Row), due : BOOLEAN]
                             /\ Table!Listing(answer.rows))
      /\ where \notin Table!Streams => Table!Listing(list)
      /\ key \in {"name", "n"} /\ dir \in {1, -1}
  BY DEF Table!IInv
<1>2. where' = where
  BY DEF Table!Next, Table!vars, Table!Answered, Table!Arrives, Table!Push, Table!Changes,
     Table!Toggle, Table!SetKind, Table!SetText
<1>3. Table!Row' = Table!Row /\ \A i : Table!Versions(i)' = Table!Versions(i)
  BY <1>2 DEF Table!Row, Table!Versions
<1>4. CASE Table!Answered
  <2>1. UNCHANGED <<held, feed, list, where, key, dir>>
    BY <1>4 DEF Table!Answered, Table!view
  <2>2. /\ answer' \in [rows : Seq(Table!Row), due : BOOLEAN]
        /\ Table!Listing(answer'.rows)
    BY <1>4, TableAnswered
  <2>3. Table!Listing(list)' <=> Table!Listing(list)
    BY <2>1 DEF Table!Listing
  <2>4. Table!Listing(answer.rows)' <=> Table!Listing(answer'.rows)
    BY DEF Table!Listing
  <2>5. QED
    BY <1>1, <1>3, <2>1, <2>2, <2>3, <2>4 DEF Table!IInv
<1>5. CASE Table!Arrives
  <2>1. /\ answer # None /\ list' = answer.rows /\ answer' = [answer EXCEPT !.due = FALSE]
        /\ UNCHANGED <<held, feed, where, key, dir>>
    BY <1>5 DEF Table!Arrives, Table!view
  <2>2. answer' \in [rows : Seq(Table!Row), due : BOOLEAN] /\ answer'.rows = answer.rows
        /\ list' \in Seq(Table!Row)
    BY <1>1, <2>1
  <2>3. Table!Listing(list') /\ Table!Listing(answer'.rows)
    BY <1>1, <2>1, <2>2
  <2>4. QED
    BY <1>1, <1>3, <2>1, <2>2, <2>3 DEF Table!IInv
<1>6. CASE Table!Push
  <2>1. /\ feed # <<>> /\ list' = Table!Into(Head(feed)) /\ feed' = Tail(feed)
        /\ UNCHANGED <<held, answer, where, key, dir>>
    BY <1>6 DEF Table!Push, Table!view
  <2>2. Head(feed) \in Table!Row /\ Tail(feed) \in Seq(Table!Row)
    BY <1>1, <2>1, HeadTailProperties
  <2>3. list' \in Seq(Table!Row) /\ (where \notin Table!Streams => Table!Listing(list'))
    BY <2>1, <2>2, IntoIs
  <2>4. QED
    BY <1>1, <1>3, <2>1, <2>2, <2>3 DEF Table!IInv
<1>7. ASSUME NEW i \in Ids, Table!Changes(i)
      PROVE  Table!IInv'
  <2>1. PICK r \in Table!Versions(i) : /\ held' = [held EXCEPT ![i] = r]
                                       /\ feed' = feed \/ feed' = Append(feed, r)
    BY <1>7 DEF Table!Changes
  <2>2. UNCHANGED <<answer, list, where, key, dir>>
    BY <1>7 DEF Table!Changes, Table!view
  <2>3. r \in Table!Row
    BY DEF Table!Row
  <2>4. feed' \in Seq(Table!Row)
    BY <1>1, <2>1, <2>3
  <2>5. held' \in [Ids -> Table!Row \cup {None}]
        /\ \A j \in Ids : held'[j] \in Table!Versions(j) \cup {None}
    BY <1>1, <2>1, <2>3
  <2>6. QED
    BY <1>1, <1>3, <2>2, <2>4, <2>5 DEF Table!IInv
<1>8. ASSUME UNCHANGED Table!lists, key' \in {"name", "n"}, dir' \in {1, -1}
      PROVE  Table!IInv'
  BY <1>1, <1>3, <1>8, <1>2 DEF Table!IInv, Table!lists
<1>9. CASE \E k \in {"name", "n"} : Table!Toggle(k)
  <2>1. -dir \in {1, -1}
    BY <1>1
  <2>2. QED
    BY <1>1, <1>8, <1>9, <2>1 DEF Table!Toggle
<1>10. CASE UNCHANGED Table!vars \/ (\E k : Table!SetKind(k)) \/ (\E t : Table!SetText(t))
  BY <1>1, <1>8, <1>10 DEF Table!vars, Table!view, Table!SetKind, Table!SetText
<1>11. QED
  BY <1>4, <1>5, <1>6, <1>7, <1>9, <1>10 DEF Table!Next
-----------------------------------------------------------------------------
(* The older console *)

\* A behaviour stays with its part, and a step is one of that part.
LEMMA StepOfWebPart ==
  ASSUME [WebNext]_webVars
  PROVE  /\ part' = part
         /\ part = "store"   => [Store!Next]_(Store!vars)
         /\ part = "cases"   => [Desk!Next]_(Desk!vars)
         /\ part = "actions" => [Hands!Next]_(Hands!vars)
         /\ part = "hunt"    => [Tree!Next]_(Tree!vars)
         /\ part = "tables"  => [Table!Next]_(Table!vars)
<1>1. CASE UNCHANGED webVars
  BY <1>1 DEF webVars, kept, filed, drawers, treed, tabled, Store!vars, Store!server,
     Store!session, Store!under, Store!store, Store!socket, Desk!vars, Desk!drawer,
     Hands!vars, Hands!drawer, Hands!ai, Tree!vars, Tree!feed, Table!vars, Table!lists,
     Table!view
<1>2. CASE WebNext
  BY <1>2 DEF WebNext
<1>3. QED
  BY <1>1, <1>2

\* The invariant of every part of the older console: no list is ever answered or kept
\* with a row twice, and a toast is remembered; a note under way is in the field, which
\* takes nothing meanwhile; an armed button has the timeout that disarms it; there is a
\* focus only while a drawer is about an event, and both are of a process.
THEOREM WebInvariance == WebSpec => []WebInv
<1>1. WebInit => WebInv
  <2> SUFFICES ASSUME WebInit PROVE WebInv
    OBVIOUS
  <2>1. part \in DOMAIN Clicks
    BY DEF WebInit
  <2>2. /\ part = "store"   => Store!Init
        /\ part = "cases"   => Desk!Init
        /\ part = "actions" => Hands!Init
        /\ part = "hunt"    => Tree!Init
        /\ part = "tables"  => Table!Init
    BY DEF WebInit
  <2>3. QED
    BY <2>1, <2>2, StoreInit, DeskInit, HandsInit, TreeInit, TableInit DEF WebInv
<1>2. WebInv /\ [WebNext]_webVars => WebInv'
  <2> SUFFICES ASSUME WebInv, [WebNext]_webVars PROVE WebInv'
    OBVIOUS
  <2>1. part' = part /\ part \in DOMAIN Clicks
    BY StepOfWebPart DEF WebInv
  <2>2. /\ part = "store"   => Store!IInv'
        /\ part = "cases"   => Desk!IInv'
        /\ part = "actions" => Hands!IInv'
        /\ part = "hunt"    => Tree!IInv'
        /\ part = "tables"  => Table!IInv'
    BY StepOfWebPart, StoreNext, DeskNext, HandsNext, TreeNext, TableNext DEF WebInv
  <2>3. QED
    BY <2>1, <2>2 DEF WebInv
<1>3. QED
  BY <1>1, <1>2, PTL DEF WebSpec

\* However reads and frames cross, a row of a list that is patched is listed once and a
\* detection toasted at most once; and a table shows what was asked for, in order, and
\* agrees with the counts and totals beside it.
THEOREM ListedOnceHolds == WebSpec => []ListedOnce
<1>1. WebInv => ListedOnce
  BY StoreListed, TableListed DEF WebInv, ListedOnce
<1>2. QED
  BY <1>1, WebInvariance, PTL

\* Whatever events come, leave or have the pid of another, the process tree is a chain
\* of parents up from its focus as far as they are known, each process once, and the
\* children the focus has.
THEOREM TreeAboutFocusHolds == WebSpec => []TreeAboutFocus
<1>1. WebInv => TreeAboutFocus
  BY AboutFocus DEF WebInv, TreeAboutFocus
<1>2. QED
  BY <1>1, WebInvariance, PTL

\* Text leaves the field of a note only when the operator changes it or closes the
\* drawer, or when the server has it.
THEOREM NoteKeptHolds == WebSpec => NoteKept
<1>1. WebInv /\ [WebNext]_webVars => [part = "cases" => Desk!NoteKept]_webVars
  BY StepOfWebPart, FieldCleared DEF WebInv
<1>2. QED
  BY <1>1, WebInvariance, PTL DEF WebSpec, NoteKept

\* Killing a process, isolating a host or blocking its ports needs two clicks on one
\* button, the second before the timeout the first one set.
THEOREM SecondClickHolds == WebSpec => SecondClick
<1>1. WebInv /\ [WebNext]_webVars => [part = "actions" => Hands!SecondClick]_webVars
  BY StepOfWebPart, ClickedTwice DEF WebInv
<1>2. QED
  BY <1>1, WebInvariance, PTL DEF WebSpec, SecondClick
=============================================================================
