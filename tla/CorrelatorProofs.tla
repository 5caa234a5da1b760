-------------------------- MODULE CorrelatorProofs --------------------------
(***************************************************************************)
(* Theorems about Correlator, for every set of keys and agents, all        *)
(* thresholds and windows, and any number of events in any order.          *)
(***************************************************************************)
EXTENDS Correlator, FiniteSetTheorems, WellFoundedInduction, TLAPS

\* A window entity is never the key of a volume window.
LEMMA KeysApart ==
  ASSUME NEW k \in Keys PROVE k \notin ExfilKeys /\ Kind(k) \in Kinds /\ k # None
<1>1. k \in Kinds \X Agents \X Entities /\ None \notin Keys
  BY KeysAssumption
<1>2. k[1] \in Kinds
  BY <1>1
<1>3. \A a \in Agents : ExfilKey(a)[1] = "exfil"
  BY DEF ExfilKey
<1>4. "exfil" \notin Kinds
  BY DEF Kinds
<1>5. QED
  BY <1>1, <1>2, <1>3, <1>4 DEF ExfilKeys, Kind

\* The thresholds of a kind are positive numbers.
LEMMA KindNumbers ==
  ASSUME NEW k \in Keys
  PROVE  Count[Kind(k)] \in Nat \ {0} /\ Window[Kind(k)] \in Nat \ {0}
BY KeysApart, KeysAssumption

\* Collecting garbage takes nothing that pruning would have left.
LEMMA GcIsUnfelt ==
  ASSUME NEW k \in Keys, NEW t \in Time
  PROVE  /\ Recent(SeenAfterGc(t)[k], t, Window[Kind(k)])
              = Recent(seen[k], t, Window[Kind(k)])
         /\ SeenAfterGc(t)[k] \subseteq seen[k]
<1>1. SeenAfterGc(t)[k] = IF GcDue(t) /\ Recent(seen[k], t, Window[Kind(k)]) = {}
                          THEN {} ELSE seen[k]
  BY DEF SeenAfterGc
<1>2. Recent({}, t, Window[Kind(k)]) = {}
  BY DEF Recent
<1>3. QED
  BY <1>1, <1>2

-----------------------------------------------------------------------------
(* Adding up transfers *)

\* A set of numbers with 0 and with the successor of each of its members has them all.
LEMMA Induction ==
  ASSUME NEW T, 0 \in T, \A n \in Nat : n \in T => n + 1 \in T
  PROVE  Nat \subseteq T
<1> SUFFICES ASSUME Nat \ T # {} PROVE FALSE
  OBVIOUS
<1>1. IsWellFoundedOn(OpToRel(<, Nat), Nat)
  BY NatLessThanWellFounded
<1>2. PICK n \in Nat \ T : \A m \in Nat \ T : <<m, n>> \notin OpToRel(<, Nat)
  BY <1>1, WFMin
<1>3. n # 0 /\ n \in Nat
  BY <1>2
<1>4. n - 1 \in Nat /\ n - 1 < n /\ (n - 1) + 1 = n
  BY <1>3
<1>5. <<n - 1, n>> \in OpToRel(<, Nat)
  BY <1>3, <1>4 DEF OpToRel
<1>6. n - 1 \in T
  BY <1>2, <1>4, <1>5
<1>7. QED
  BY <1>2, <1>4, <1>6

\* Transfers, and sets of them in which no two have the same number.
Transfer == [at : 1..MaxEvents, ts : Time, bytes : Sizes]
Numbered(S) == S \subseteq Transfer /\ \A x, y \in S : x.at = y.at => x = y

\* What the n-th transfer adds is a number.
LEMMA BytesAtIs ==
  ASSUME NEW S, Numbered(S), NEW n
  PROVE  /\ BytesAt(S, n) \in Nat
         /\ \A x \in S : x.at = n => BytesAt(S, n) = x.bytes
         /\ (\A x \in S : x.at # n) => BytesAt(S, n) = 0
<1>1. \A x \in S : x.bytes \in Nat
  BY TimesAssumption DEF Numbered, Transfer
<1>2. CASE \E x \in S : x.at = n
  <2>1. BytesAt(S, n) = (CHOOSE x \in S : x.at = n).bytes
    BY <1>2 DEF BytesAt
  <2>2. \A x \in S : x.at = n => (CHOOSE y \in S : y.at = n) = x
    BY <1>2 DEF Numbered
  <2>3. QED
    BY <1>1, <1>2, <2>1, <2>2
<1>3. CASE ~\E x \in S : x.at = n
  BY <1>3 DEF BytesAt
<1>4. QED
  BY <1>2, <1>3

\* g adds up the transfers of S numbered up to m.
Adds(g, S, m) ==
  /\ g \in [0..m -> Nat] /\ g[0] = 0
  /\ \A n \in 1..m : g[n] = g[n - 1] + BytesAt(S, n)

\* UpTo does: there is such a sum up to every m.
LEMMA UpToAdds ==
  ASSUME NEW S, Numbered(S)
  PROVE  Adds(UpTo(S), S, MaxEvents)
<1> DEFINE N == MaxEvents
           T == {m \in Nat : \E g : Adds(g, S, m)}
<1>1. N \in Nat /\ \A n \in Nat : BytesAt(S, n) \in Nat
  BY BytesAtIs, BoundsAssumption
<1> HIDE DEF N
<1>2. 0 \in T
  <2> DEFINE g == [n \in 0..0 |-> 0]
  <2>1. Adds(g, S, 0)
    BY DEF Adds
  <2>2. QED
    BY <2>1
<1>3. ASSUME NEW m \in Nat, m \in T PROVE m + 1 \in T
  <2>1. PICK g : Adds(g, S, m)
    BY <1>3
  <2> DEFINE h == [n \in 0..(m + 1) |->
                     IF n = m + 1 THEN g[m] + BytesAt(S, m + 1) ELSE g[n]]
  <2>2. \A n \in 0..m : g[n] \in Nat
    BY <2>1 DEF Adds
  <2>3. h \in [0..(m + 1) -> Nat] /\ h[0] = 0
    <3>1. g[0] = 0 /\ 0 \in 0..(m + 1) /\ 0 # m + 1 /\ m \in 0..m
      BY <2>1 DEF Adds
    <3>2. g[m] + BytesAt(S, m + 1) \in Nat
      BY <1>1, <2>2, <3>1
    <3>3. \A n \in 0..(m + 1) : n # m + 1 => n \in 0..m
      OBVIOUS
    <3>4. QED
      BY <2>2, <3>1, <3>2, <3>3
  <2>4. ASSUME NEW n \in 1..(m + 1) PROVE h[n] = h[n - 1] + BytesAt(S, n)
    <3>1. CASE n = m + 1
      BY <3>1
    <3>2. CASE n # m + 1
      <4>1. n \in 1..m /\ n - 1 \in 0..m /\ n - 1 # m + 1
        BY <3>2
      <4>2. QED
        BY <2>1, <4>1 DEF Adds
    <3>3. QED
      BY <3>1, <3>2
  <2>5. Adds(h, S, m + 1)
    BY <2>3, <2>4 DEF Adds
  <2>6. QED
    BY <2>5
<1>4. PICK g : Adds(g, S, N)
  BY <1>1, <1>2, <1>3, Induction
<1> DEFINE Sum(f) == f = [n \in 0..N |-> IF n = 0 THEN 0 ELSE f[n - 1] + BytesAt(S, n)]
<1>5. \E f : Sum(f)
  <2>1. \A n \in 0..N : n = 0 \/ n \in 1..N
    BY <1>1
  <2>2. Sum(g)
    BY <1>4, <2>1 DEF Adds
  <2>3. QED
    BY <2>2
<1>6. UpTo(S) = CHOOSE f : Sum(f)
  BY DEF UpTo, N
<1> HIDE DEF Sum
<1>7. Sum(UpTo(S))
  BY <1>5, <1>6
<1> USE DEF Sum
<1>8. /\ DOMAIN UpTo(S) = 0..N
      /\ UpTo(S)[0] = 0
      /\ \A n \in 1..N : UpTo(S)[n] = UpTo(S)[n - 1] + BytesAt(S, n)
  <2> DEFINE u == UpTo(S)
  <2>1. u = [n \in 0..N |-> IF n = 0 THEN 0 ELSE u[n - 1] + BytesAt(S, n)]
    BY <1>7
  <2>2. 0 \in 0..N /\ \A n \in 1..N : n \in 0..N /\ n # 0
    BY <1>1
  <2> HIDE DEF u
  <2>3. /\ DOMAIN u = 0..N /\ u[0] = 0
        /\ \A n \in 1..N : u[n] = u[n - 1] + BytesAt(S, n)
    BY <2>1, <2>2
  <2>4. QED
    BY <2>3 DEF u
<1>9. \A n \in 0..N : UpTo(S)[n] \in Nat
  <2> DEFINE U == {m \in Nat : m <= N => UpTo(S)[m] \in Nat}
  <2>1. 0 \in U
    BY <1>8
  <2>2. ASSUME NEW m \in Nat, m \in U PROVE m + 1 \in U
    <3> SUFFICES ASSUME m + 1 <= N PROVE UpTo(S)[m + 1] \in Nat
      OBVIOUS
    <3>1. m + 1 \in 1..N /\ m <= N /\ (m + 1) - 1 = m
      BY <1>1
    <3>2. UpTo(S)[m + 1] = UpTo(S)[m] + BytesAt(S, m + 1)
      BY <1>8, <3>1
    <3>3. QED
      BY <1>1, <2>2, <3>1, <3>2
  <2>3. Nat \subseteq U
    BY <2>1, <2>2, Induction
  <2>4. QED
    BY <1>1, <2>3
<1>10. UpTo(S) \in [0..N -> Nat]
  BY <1>7, <1>8, <1>9
<1>11. QED
  BY <1>8, <1>10 DEF Adds, N

\* More transfers are more bytes: those of one that was not there, at least.
LEMMA MoreBytes ==
  ASSUME NEW T, Numbered(T), NEW S \in SUBSET T
  PROVE  /\ SumOf(S) \in Nat /\ SumOf(T) \in Nat /\ SumOf(S) <= SumOf(T)
         /\ \A x \in T \ S : SumOf(S) + x.bytes <= SumOf(T)
<1> DEFINE N == MaxEvents
           s == UpTo(S)
           t == UpTo(T)
           more(x, n) == IF n < x.at THEN 0 ELSE x.bytes
<1>1. Numbered(S)
  BY DEF Numbered
<1>2. N \in Nat /\ Adds(s, S, N) /\ Adds(t, T, N)
  BY <1>1, UpToAdds, BoundsAssumption
<1>3. SumOf(S) = s[N] /\ SumOf(T) = t[N]
  BY DEF SumOf
<1>4. ASSUME NEW n \in 1..N
      PROVE  /\ BytesAt(S, n) \in Nat /\ BytesAt(T, n) \in Nat
             /\ BytesAt(S, n) <= BytesAt(T, n)
             /\ \A x \in T \ S : x.at = n => BytesAt(S, n) = 0 /\ BytesAt(T, n) = x.bytes
  <2>1. BytesAt(S, n) \in Nat /\ BytesAt(T, n) \in Nat
    BY <1>1, BytesAtIs
  <2>2. CASE \E x \in S : x.at = n
    <3>1. PICK x \in S : x.at = n
      BY <2>2
    <3>2. BytesAt(S, n) = x.bytes /\ BytesAt(T, n) = x.bytes
      BY <1>1, <3>1, BytesAtIs
    <3>3. \A y \in T \ S : y.at # n
      BY <3>1 DEF Numbered
    <3>4. QED
      BY <2>1, <3>2, <3>3
  <2>3. CASE \A x \in S : x.at # n
    <3>1. BytesAt(S, n) = 0
      BY <1>1, <2>3, BytesAtIs
    <3>2. \A x \in T \ S : x.at = n => BytesAt(T, n) = x.bytes
      BY BytesAtIs
    <3>3. QED
      BY <2>1, <3>1, <3>2
  <2>4. QED
    BY <2>2, <2>3
<1> HIDE DEF N, s, t
<1>5. \A n \in 0..N : s[n] \in Nat /\ t[n] \in Nat
  BY <1>2 DEF Adds
<1>6. N \in 0..N
  BY <1>2
<1>7. s[N] <= t[N]
  <2> DEFINE U == {n \in Nat : n <= N => s[n] <= t[n]}
  <2>1. 0 \in U
    BY <1>2 DEF Adds
  <2>2. ASSUME NEW n \in Nat, n \in U PROVE n + 1 \in U
    <3> SUFFICES ASSUME n + 1 <= N PROVE s[n + 1] <= t[n + 1]
      OBVIOUS
    <3>1. n + 1 \in 1..N /\ n \in 0..N /\ (n + 1) - 1 = n /\ n <= N
      BY <1>2
    <3>2. /\ s[n + 1] = s[n] + BytesAt(S, n + 1)
          /\ t[n + 1] = t[n] + BytesAt(T, n + 1)
      BY <1>2, <3>1 DEF Adds
    <3>3. s[n] \in Nat /\ t[n] \in Nat /\ s[n] <= t[n]
      BY <1>5, <2>2, <3>1
    <3>4. /\ BytesAt(S, n + 1) \in Nat /\ BytesAt(T, n + 1) \in Nat
          /\ BytesAt(S, n + 1) <= BytesAt(T, n + 1)
      BY <1>4, <3>1
    <3>5. QED
      BY <3>2, <3>3, <3>4
  <2>3. N \in U
    BY <1>2, <2>1, <2>2, Induction
  <2>4. QED
    BY <1>2, <2>3
<1>8. ASSUME NEW x \in T \ S
      PROVE  s[N] + x.bytes <= t[N]
  <2> DEFINE U == {n \in Nat : n <= N => s[n] + more(x, n) <= t[n]}
  <2>1. x.at \in 1..N /\ x.bytes \in Nat
    BY TimesAssumption DEF Numbered, Transfer, N
  <2>2. 0 \in U
    BY <1>2, <2>1 DEF Adds
  <2>3. ASSUME NEW n \in Nat, n \in U PROVE n + 1 \in U
    <3> SUFFICES ASSUME n + 1 <= N PROVE s[n + 1] + more(x, n + 1) <= t[n + 1]
      OBVIOUS
    <3>1. n + 1 \in 1..N /\ n \in 0..N /\ (n + 1) - 1 = n /\ n <= N
      BY <1>2
    <3>2. /\ s[n + 1] = s[n] + BytesAt(S, n + 1)
          /\ t[n + 1] = t[n] + BytesAt(T, n + 1)
      BY <1>2, <3>1 DEF Adds
    <3>3. s[n] \in Nat /\ t[n] \in Nat /\ s[n] + more(x, n) <= t[n]
      BY <1>5, <2>3, <3>1
    <3>4. /\ BytesAt(S, n + 1) \in Nat /\ BytesAt(T, n + 1) \in Nat
          /\ BytesAt(S, n + 1) <= BytesAt(T, n + 1)
      BY <1>4, <3>1
    <3>5. CASE x.at = n + 1
      <4>1. BytesAt(S, n + 1) = 0 /\ BytesAt(T, n + 1) = x.bytes
        BY <1>4, <3>1, <3>5
      <4>2. more(x, n) = 0 /\ more(x, n + 1) = x.bytes
        BY <2>1, <3>5
      <4>3. QED
        BY <2>1, <3>2, <3>3, <4>1, <4>2
    <3>6. CASE x.at # n + 1
      <4>1. more(x, n + 1) = more(x, n) /\ more(x, n) \in Nat
        BY <2>1, <3>6
      <4> HIDE DEF more
      <4>2. QED
        BY <3>2, <3>3, <3>4, <4>1
    <3>7. QED
      BY <3>5, <3>6
  <2>4. N \in U
    BY <1>2, <2>2, <2>3, Induction
  <2>5. s[N] + more(x, N) <= t[N]
    BY <1>2, <2>4
  <2>6. more(x, N) = x.bytes
    BY <1>2, <2>1
  <2>7. QED
    BY <2>5, <2>6
<1>9. QED
  BY <1>3, <1>5, <1>6, <1>7, <1>8

-----------------------------------------------------------------------------
(* The inductive invariant *)

\* The initial states satisfy the inductive invariant.
LEMMA InitIInv == Init => IInv
<1> SUFFICES ASSUME Init PROVE IInv
  OBVIOUS
<1> USE TimesAssumption, BoundsAssumption
<1>1. TypeOK
  <2>1. egress \in [Agents -> Volume]
    BY DEF Init, Closed, Volume, Never
  <2>2. QED
    BY <2>1 DEF Init, TypeOK, Never
<1>2. SeenIsObserved
  BY FS_EmptySet DEF Init, SeenIsObserved
<1>3. KeepsWhatCounts /\ RemembersFirings
  BY DEF Init, KeepsWhatCounts, RemembersFirings
<1>4. Swept
  BY DEF Init, Swept, Never, AllKeys
<1>5. SentIsNumbered /\ VolumeIsSent
  BY DEF Init, SentIsNumbered, VolumeIsSent, Closed
<1>6. QED
  BY <1>1, <1>2, <1>3, <1>4, <1>5 DEF IInv

\* A volume window stays one.
LEMMA MovedType ==
  ASSUME NEW v \in Volume, NEW b \in Nat, NEW t \in Time
  PROVE  Moved(v, b, t) \in Volume
<1>1. v.bytes + b \in Nat /\ v.start \in Time \cup {Never} /\ v.bytes \in Nat
  BY DEF Volume
<1>2. [start |-> t, bytes |-> b] \in Volume
  BY DEF Volume
<1>3. [v EXCEPT !.bytes = @ + b] \in Volume
  BY <1>1 DEF Volume
<1>4. QED
  BY <1>2, <1>3 DEF Moved

\* What an event leaves is well typed.
LEMMA ObserveTypeOK ==
  ASSUME IInv, NEW k \in Keys \cup {None}, NEW a \in Agents,
         NEW b \in Sizes \cup {0}, NEW t \in Time, Observe(k, a, b, t)
  PROVE  TypeOK'
<1> USE TimesAssumption, BoundsAssumption
<1>0. TypeOK
  BY DEF IInv
<1>1. events \in Nat /\ events' = events + 1 /\ events' \in 1..MaxEvents
  BY <1>0 DEF TypeOK, Observe
<1>2. Stamp(t) \in Entry
  BY <1>1 DEF Stamp, Entry
<1>3. seen' \in [Keys -> SUBSET Entry]
  <2>1. \A x \in Keys : Recent(SeenAfterGc(t)[x], t, Window[Kind(x)]) \subseteq Entry
                        /\ SeenAfterGc(t)[x] \subseteq Entry
    BY <1>0, GcIsUnfelt DEF TypeOK, Recent
  <2>2. QED
    BY <1>2, <2>1 DEF Observe, SeenAfter
<1>4. egress' \in [Agents -> Volume]
  <2>1. EgressAfterGc(t) \in [Agents -> Volume]
    BY <1>0 DEF TypeOK, EgressAfterGc, Closed, Volume, Never
  <2>2. b \in Nat
    OBVIOUS
  <2>3. Moved(EgressAfterGc(t)[a], b, t) \in Volume
    BY <2>1, <2>2, MovedType
  <2>4. QED
    BY <2>1, <2>3 DEF Observe, EgressAfter
<1>5. out' \subseteq AllKeys
  BY DEF Observe, AllKeys, ExfilKeys
<1>6. fired' \in [AllKeys -> Time \cup {Never}]
  BY <1>0 DEF TypeOK, Observe, FiredAfterGc
<1>7. lastGC' \in Time \cup {Never} /\ clock' \in Time \cup {Never}
  BY <1>0 DEF TypeOK, Observe
<1>8. late' \in 0..MaxLate
  BY <1>0 DEF TypeOK, Observe
<1>9. obs' \in [Keys -> SUBSET Entry]
  BY <1>0, <1>2 DEF TypeOK, Observe
<1>10. sent' \in [Agents -> SUBSET [at : 1..MaxEvents, ts : Time, bytes : Sizes]]
  <2>1. b > 0 => b \in Sizes
    OBVIOUS
  <2>2. QED
    BY <1>0, <1>1, <2>1 DEF TypeOK, Observe
<1>11. alarms' \subseteq AllKeys \X Time
  BY <1>0, <1>5 DEF TypeOK, Observe
<1>12. QED
  BY <1>1, <1>3, <1>4, <1>5, <1>6, <1>7, <1>8, <1>9, <1>10, <1>11 DEF TypeOK

\* While events are in order, the clock is the timestamp in hand.
LEMMA ClockInOrder ==
  ASSUME IInv, NEW k \in Keys \cup {None}, NEW a \in Agents,
         NEW b \in Sizes \cup {0}, NEW t \in Time, Observe(k, a, b, t), InOrder'
  PROVE  InOrder /\ clock' = t /\ clock <= t
BY BoundsAssumption DEF IInv, TypeOK, Observe, InOrder, Never, Time

\* What an event does to the window of one key.
LEMMA WindowAfter ==
  ASSUME IInv, NEW k \in Keys \cup {None}, NEW a \in Agents,
         NEW b \in Sizes \cup {0}, NEW t \in Time, Observe(k, a, b, t), NEW x \in Keys
  PROVE  /\ x = k => /\ seen'[x] = Recent(seen[x], t, Window[Kind(x)]) \cup {Stamp(t)}
                     /\ obs'[x] = obs[x] \cup {Stamp(t)}
         /\ x # k => seen'[x] = SeenAfterGc(t)[x] /\ obs'[x] = obs[x]
<1>1. obs'[x] = IF x = k THEN obs[x] \cup {Stamp(t)} ELSE obs[x]
  BY DEF Observe
<1>2. seen'[x] = IF x = k
                 THEN Recent(SeenAfterGc(t)[x], t, Window[Kind(x)]) \cup {Stamp(t)}
                 ELSE SeenAfterGc(t)[x]
  BY DEF Observe, SeenAfter
<1>3. Recent(SeenAfterGc(t)[x], t, Window[Kind(x)]) = Recent(seen[x], t, Window[Kind(x)])
  BY GcIsUnfelt
<1>4. QED
  BY <1>1, <1>2, <1>3

\* Windows hold arrivals only.
LEMMA ObserveSeenIsObserved ==
  ASSUME IInv, NEW k \in Keys \cup {None}, NEW a \in Agents,
         NEW b \in Sizes \cup {0}, NEW t \in Time, Observe(k, a, b, t)
  PROVE  SeenIsObserved'
<1> SUFFICES ASSUME NEW x \in Keys
             PROVE  /\ seen'[x] \subseteq obs'[x] /\ IsFiniteSet(obs'[x])
                    /\ \A y \in obs'[x] : y.at <= events'
  BY DEF SeenIsObserved
<1>1. /\ seen[x] \subseteq obs[x] /\ IsFiniteSet(obs[x])
      /\ \A y \in obs[x] : y.at <= events
  BY DEF IInv, SeenIsObserved
<1>2. events \in Nat /\ events' = events + 1 /\ obs[x] \subseteq Entry
  BY BoundsAssumption DEF IInv, TypeOK, Observe
<1>3. \A y \in obs[x] : y.at <= events'
  BY <1>1, <1>2 DEF Entry
<1>4. Stamp(t).at <= events'
  BY <1>2 DEF Stamp
<1>5. IsFiniteSet(obs[x] \cup {Stamp(t)})
  BY <1>1, FS_AddElement
<1>6. Recent(seen[x], t, Window[Kind(x)]) \subseteq seen[x]
  BY DEF Recent
<1>7. CASE x = k
  <2>1. /\ seen'[x] = Recent(seen[x], t, Window[Kind(x)]) \cup {Stamp(t)}
        /\ obs'[x] = obs[x] \cup {Stamp(t)}
    BY <1>7, WindowAfter
  <2>2. QED
    BY <1>1, <1>3, <1>4, <1>5, <1>6, <2>1
<1>8. CASE x # k
  BY <1>1, <1>3, <1>8, WindowAfter, GcIsUnfelt
<1>9. QED
  BY <1>7, <1>8

\* No entry that can still count is lost, by pruning or by gc.
LEMMA ObserveKeepsWhatCounts ==
  ASSUME IInv, NEW k \in Keys \cup {None}, NEW a \in Agents,
         NEW b \in Sizes \cup {0}, NEW t \in Time, Observe(k, a, b, t)
  PROVE  KeepsWhatCounts'
<1> SUFFICES ASSUME InOrder', NEW x \in Keys, NEW y \in obs'[x]
             PROVE  /\ y.ts <= clock'
                    /\ clock' - y.ts < Window[Kind(x)] => y \in seen'[x]
  BY DEF KeepsWhatCounts
<1>1. InOrder /\ clock' = t /\ clock <= t
  BY ClockInOrder
<1>2. t \in Nat /\ clock \in Int /\ Window[Kind(x)] \in Nat \ {0}
  BY BoundsAssumption, KindNumbers DEF IInv, TypeOK, Time, Never
<1>3. CASE y \in obs[x]
  <2>1. y.ts \in Int
    <3>1. y \in Entry
      BY <1>3 DEF IInv, TypeOK
    <3>2. y.ts \in Time
      BY <3>1 DEF Entry
    <3>3. QED
      BY <3>2, BoundsAssumption DEF Time
  <2>2. y.ts <= clock /\ (clock - y.ts < Window[Kind(x)] => y \in seen[x])
    BY <1>1, <1>3 DEF IInv, KeepsWhatCounts
  <2>3. y.ts <= clock'
    BY <1>1, <1>2, <2>1, <2>2
  <2>4. ASSUME clock' - y.ts < Window[Kind(x)]
        PROVE  y \in Recent(seen[x], t, Window[Kind(x)])
    <3>1. y.ts > t - Window[Kind(x)] /\ clock - y.ts < Window[Kind(x)]
      BY <1>1, <1>2, <2>1, <2>4
    <3>2. QED
      BY <2>2, <3>1 DEF Recent
  <2>5. ASSUME clock' - y.ts < Window[Kind(x)]
        PROVE  y \in SeenAfterGc(t)[x]
    <3>1. Recent(seen[x], t, Window[Kind(x)]) # {} /\ y \in seen[x]
      BY <2>4, <2>5 DEF Recent
    <3>2. QED
      BY <3>1 DEF SeenAfterGc
  <2>6. QED
    BY <2>3, <2>4, <2>5, WindowAfter
<1>4. CASE y \notin obs[x]
  <2>1. /\ x = k => /\ seen'[x] = Recent(seen[x], t, Window[Kind(x)]) \cup {Stamp(t)}
                    /\ obs'[x] = obs[x] \cup {Stamp(t)}
        /\ x # k => obs'[x] = obs[x]
    BY WindowAfter
  <2>2. y = Stamp(t) /\ y \in seen'[x] /\ y.ts = t
    BY <1>4, <2>1 DEF Stamp
  <2>3. QED
    BY <1>1, <1>2, <2>2
<1>5. QED
  BY <1>3, <1>4

\* What an event does to the firing time of one key.
LEMMA FiringAfter ==
  ASSUME NEW k \in Keys \cup {None}, NEW a \in Agents,
         NEW b \in Sizes \cup {0}, NEW t \in Time, Observe(k, a, b, t), NEW x \in AllKeys
  PROVE  /\ x \in out' => fired'[x] = t /\ <<x, t>> \in alarms'
         /\ x \notin out' => /\ fired'[x] = FiredAfterGc(t)[x]
                             /\ \A u \in Time : <<x, u>> \in alarms' => <<x, u>> \in alarms
         /\ \A u \in Time : <<x, u>> \in alarms' => <<x, u>> \in alarms \/ u = t
         /\ alarms \subseteq alarms'
<1>1. fired'[x] = IF x \in out' THEN t ELSE FiredAfterGc(t)[x]
  BY DEF Observe
<1>2. alarms' = alarms \cup (out' \X {t})
  BY DEF Observe
<1>3. QED
  BY <1>1, <1>2

\* The latest firing stays remembered while it suppresses others.
LEMMA ObserveRemembersFirings ==
  ASSUME IInv, NEW k \in Keys \cup {None}, NEW a \in Agents,
         NEW b \in Sizes \cup {0}, NEW t \in Time, Observe(k, a, b, t)
  PROVE  RemembersFirings'
<1> SUFFICES ASSUME InOrder', NEW x \in AllKeys
             PROVE  /\ fired'[x] # Never => <<x, fired'[x]>> \in alarms'
                    /\ \A u \in Time : <<x, u>> \in alarms' => u <= clock'
                    /\ \A u \in Time : <<x, u>> \in alarms' /\ clock' - u < Refire =>
                         fired'[x] # Never /\ fired'[x] >= u
  BY DEF RemembersFirings
<1>1. InOrder /\ clock' = t /\ clock <= t
  BY ClockInOrder
<1>2. t \in Nat /\ clock \in Int /\ Refire \in Nat \ {0} /\ fired[x] \in Int
      /\ clock \in Time \cup {Never} /\ t # Never
  BY BoundsAssumption, TimesAssumption DEF IInv, TypeOK, Time, Never
<1>3. /\ fired[x] # Never => <<x, fired[x]>> \in alarms
      /\ \A u \in Time : <<x, u>> \in alarms /\ clock - u < Refire =>
           fired[x] # Never /\ fired[x] >= u
      /\ \A u \in Time : <<x, u>> \in alarms => u <= clock
  BY <1>1 DEF IInv, RemembersFirings
<1>8. \A u \in Time : <<x, u>> \in alarms => u <= t
  BY <1>1, <1>2, <1>3 DEF Time
<1>9. \A u \in Time : <<x, u>> \in alarms' => u <= clock'
  <2>1. \A u \in Time : <<x, u>> \in alarms' => <<x, u>> \in alarms \/ u = t
    BY FiringAfter
  <2>2. QED
    BY <1>1, <1>2, <1>8, <2>1
<1>4. \A u \in Time : <<x, u>> \in alarms /\ t - u < Refire => clock - u < Refire
  BY <1>1, <1>2 DEF Time
<1>5. CASE x \in out'
  <2>1. fired'[x] = t /\ <<x, t>> \in alarms'
    BY <1>5, FiringAfter
  <2>2. \A u \in Time : <<x, u>> \in alarms => t >= u
    BY <1>2, <1>8 DEF Time
  <2>3. QED
    BY <1>1, <1>2, <1>9, <2>1, <2>2, FiringAfter
<1>6. CASE x \notin out'
  <2>1. fired'[x] = IF GcDue(t) /\ t - fired[x] > Refire THEN Never ELSE fired[x]
    BY <1>6, FiringAfter DEF FiredAfterGc
  <2>2. fired'[x] # Never => <<x, fired'[x]>> \in alarms'
    BY <1>3, <2>1, FiringAfter
  <2>3. ASSUME NEW u \in Time, <<x, u>> \in alarms', clock' - u < Refire
        PROVE  fired'[x] # Never /\ fired'[x] >= u
    <3>1. <<x, u>> \in alarms
      BY <1>6, <2>3, FiringAfter
    <3>2. fired[x] # Never /\ fired[x] >= u
      BY <1>1, <1>3, <1>4, <2>3, <3>1
    <3>3. ~(t - fired[x] > Refire)
      BY <1>1, <1>2, <2>3, <3>2 DEF Time
    <3>4. QED
      BY <2>1, <3>2, <3>3
  <2>4. QED
    BY <1>9, <2>2, <2>3
<1>7. QED
  BY <1>5, <1>6

\* A time that is not ahead of another is within any distance of it.
LEMMA NotAhead ==
  ASSUME NEW u \in Int, NEW t \in Int, NEW d \in Nat, u <= t
  PROVE  u - t <= d
OBVIOUS

\* What is left was left at the last gc, or came after it.
LEMMA ObserveSwept ==
  ASSUME IInv, NEW k \in Keys \cup {None}, NEW a \in Agents,
         NEW b \in Sizes \cup {0}, NEW t \in Time, Observe(k, a, b, t)
  PROVE  Swept'
<1> SUFFICES ASSUME InOrder' PROVE Swept'
  BY DEF Swept
<1>1. InOrder /\ clock' = t /\ clock <= t
  BY ClockInOrder
<1>2. /\ t \in Nat /\ clock \in Int /\ lastGC \in Int /\ lastGC >= Never
      /\ GcEvery \in Nat \ {0} /\ Refire \in Nat \ {0} /\ ExfilWindow \in Nat \ {0}
  BY BoundsAssumption, TimesAssumption DEF IInv, TypeOK, Time, Never
<1>3. lastGC' = IF GcDue(t) THEN t ELSE lastGC
  BY DEF Observe
<1>4. Swept /\ lastGC <= clock
  BY <1>1 DEF IInv, Swept
<1>5. lastGC' <= t /\ t - lastGC' < GcEvery /\ lastGC' \in Int
  BY <1>1, <1>2, <1>3, <1>4 DEF GcDue
<1>10. lastGC' - t <= Refire /\ lastGC' - t <= ExfilWindow
  <2>1. /\ lastGC' \in Int /\ lastGC' <= t /\ t \in Int
        /\ Refire \in Nat /\ ExfilWindow \in Nat
    BY <1>2, <1>5
  <2>2. QED
    BY <2>1, NotAhead
<1>6. ASSUME NEW x \in Keys, seen'[x] # {}
      PROVE  \E y \in seen'[x] : y.ts > lastGC' - Window[Kind(x)]
  <2>1. Window[Kind(x)] \in Nat \ {0}
    BY KindNumbers
  <2>2. CASE x = k
    <3>1. Stamp(t) \in seen'[x] /\ Stamp(t).ts = t
      BY <2>2, WindowAfter DEF Stamp
    <3>2. QED
      BY <1>2, <1>5, <2>1, <3>1
  <2>3. CASE x # k
    <3>1. seen'[x] = SeenAfterGc(t)[x]
      BY <2>3, WindowAfter
    <3>2. seen'[x] = IF GcDue(t) /\ Recent(seen[x], t, Window[Kind(x)]) = {}
                     THEN {} ELSE seen[x]
      BY <3>1 DEF SeenAfterGc
    <3>3. CASE GcDue(t)
      <4>1. Recent(seen[x], t, Window[Kind(x)]) # {} /\ seen'[x] = seen[x]
        BY <1>6, <3>2, <3>3
      <4>2. QED
        BY <1>3, <3>3, <4>1 DEF Recent
    <3>4. CASE ~GcDue(t)
      <4>1. seen'[x] = seen[x] /\ lastGC' = lastGC
        BY <1>3, <3>2, <3>4
      <4>2. QED
        BY <1>1, <1>4, <1>6, <4>1 DEF Swept
    <3>5. QED
      BY <3>3, <3>4
  <2>4. QED
    BY <2>2, <2>3
<1>7. ASSUME NEW x \in AllKeys, fired'[x] # Never
      PROVE  lastGC' - fired'[x] <= Refire
  <2>1. fired[x] \in Int
    BY <1>2 DEF IInv, TypeOK, Time, Never
  <2>2. CASE x \in out'
    <3>1. fired'[x] = t
      BY <2>2, FiringAfter
    <3>2. QED
      BY <1>10, <3>1
  <2>3. CASE x \notin out'
    <3>1. fired'[x] = IF GcDue(t) /\ t - fired[x] > Refire THEN Never ELSE fired[x]
      BY <2>3, FiringAfter DEF FiredAfterGc
    <3>2. fired'[x] = fired[x] /\ ~(GcDue(t) /\ t - fired[x] > Refire)
      BY <1>7, <3>1
    <3>3. lastGC - fired[x] <= Refire
      BY <1>1, <1>4, <1>7, <3>2 DEF Swept
    <3>4. QED
      BY <1>2, <1>3, <2>1, <3>2, <3>3
  <2>4. QED
    BY <2>2, <2>3
<1>8. ASSUME NEW x \in Agents, egress'[x] # Closed
      PROVE  lastGC' - egress'[x].start <= ExfilWindow
  <2> DEFINE v == EgressAfterGc(t)[x]
  <2>1. egress[x] \in Volume
    BY DEF IInv, TypeOK
  <2>2. v = IF GcDue(t) /\ t - egress[x].start > ExfilWindow THEN Closed ELSE egress[x]
    BY DEF EgressAfterGc
  <2>3. egress'[x] = v \/ egress'[x] = Moved(v, b, t)
    BY DEF Observe, EgressAfter, EgressAfterGc
  <2>4. v \in Volume
    BY <2>1, <2>2 DEF Closed, Volume, Never
  <2>5. egress[x].start \in Int /\ v.start \in Int
    BY <1>2, <2>1, <2>4 DEF Volume, Time, Never
  <2>6. v # Closed => lastGC' - v.start <= ExfilWindow
    <3> SUFFICES ASSUME v # Closed PROVE lastGC' - v.start <= ExfilWindow
      OBVIOUS
    <3>1. v = egress[x] /\ ~(GcDue(t) /\ t - egress[x].start > ExfilWindow)
      BY <2>2
    <3>2. lastGC - egress[x].start <= ExfilWindow
      BY <1>1, <1>4, <3>1 DEF Swept
    <3>3. QED
      BY <1>2, <1>3, <2>5, <3>1, <3>2
  <2> HIDE DEF v
  <2>7. CASE egress'[x] = v
    BY <1>8, <2>6, <2>7
  <2>8. CASE egress'[x] = Moved(v, b, t)
    <3>1. CASE v.start = Never \/ t - v.start > ExfilWindow
      <4>1. egress'[x].start = t
        BY <2>8, <3>1 DEF Moved
      <4>2. QED
        BY <1>10, <4>1
    <3>2. CASE ~(v.start = Never \/ t - v.start > ExfilWindow)
      <4>1. egress'[x] = [v EXCEPT !.bytes = @ + b]
        BY <2>8, <3>2 DEF Moved
      <4>2. egress'[x].start = v.start
        BY <2>4, <4>1 DEF Volume
      <4>3. v # Closed
        BY <3>2 DEF Closed
      <4>4. QED
        BY <2>6, <4>2, <4>3
    <3>3. QED
      BY <3>1, <3>2
  <2>9. QED
    BY <2>3, <2>7, <2>8
<1>9. QED
  BY <1>1, <1>5, <1>6, <1>7, <1>8 DEF Swept

\* The number of a transfer is its event's.
LEMMA ObserveSentIsNumbered ==
  ASSUME IInv, NEW k \in Keys \cup {None}, NEW a \in Agents,
         NEW b \in Sizes \cup {0}, NEW t \in Time, Observe(k, a, b, t)
  PROVE  SentIsNumbered'
<1>1. events \in Nat /\ events' = events + 1
  BY BoundsAssumption DEF IInv, TypeOK, Observe
<1>2. ASSUME NEW x \in Agents
      PROVE  \A y \in sent[x] : y.at \in Nat /\ y.at <= events
  BY DEF IInv, TypeOK, SentIsNumbered
<1>3. ASSUME NEW x \in Agents
      PROVE  sent'[x] \subseteq sent[x] \cup {[at |-> events', ts |-> t, bytes |-> b]}
  BY DEF IInv, TypeOK, Observe
<1>4. ASSUME NEW x \in Agents, NEW y \in sent'[x], NEW z \in sent'[x]
      PROVE  y.at <= events' /\ (y.at = z.at => y = z)
  <2> DEFINE new == [at |-> events', ts |-> t, bytes |-> b]
  <2>1. y \in sent[x] \/ y = new
    BY <1>3
  <2>2. z \in sent[x] \/ z = new
    BY <1>3
  <2>3. new.at = events'
    OBVIOUS
  <2> HIDE DEF new
  <2>4. y.at <= events'
    BY <1>1, <1>2, <2>1, <2>3
  <2>5. ASSUME y.at = z.at PROVE y = z
    <3>1. CASE y \in sent[x] /\ z \in sent[x]
      <4>1. \A u, v \in sent[x] : u.at = v.at => u = v
        BY DEF IInv, SentIsNumbered
      <4>2. QED
        BY <2>5, <3>1, <4>1
    <3>2. ASSUME y = new, z \in sent[x] PROVE FALSE
      BY <1>1, <1>2, <2>3, <2>5, <3>2
    <3>3. ASSUME z = new, y \in sent[x] PROVE FALSE
      BY <1>1, <1>2, <2>3, <2>5, <3>3
    <3>4. QED
      BY <2>1, <2>2, <3>1, <3>2, <3>3, Zenon
  <2>6. QED
    BY <2>4, <2>5
<1>5. QED
  BY <1>4 DEF SentIsNumbered

\* What an event of agent a with b bytes at t does to the volume window of x: closed
\* by gc or left alone; begun anew or added to.
VolumeMoves(x, a, b, t) ==
  \/ egress'[x].start = Never /\ ~(x = a /\ b > 0)
  \/ egress'[x] = egress[x] /\ ~(x = a /\ b > 0)
  \/ x = a /\ b > 0 /\ egress'[x] = [start |-> t, bytes |-> b]
  \/ /\ x = a /\ b > 0
     /\ egress[x].start # Never /\ ~(t - egress[x].start > ExfilWindow)
     /\ egress'[x] = [start |-> egress[x].start, bytes |-> egress[x].bytes + b]

\* Every event moves every volume window in one of these ways.
LEMMA VolumeAfter ==
  ASSUME IInv, NEW k \in Keys \cup {None}, NEW a \in Agents,
         NEW b \in Sizes \cup {0}, NEW t \in Time, Observe(k, a, b, t), NEW x \in Agents
  PROVE  VolumeMoves(x, a, b, t)
<1> DEFINE v == EgressAfterGc(t)[x]
<1>1. v = Closed \/ v = egress[x]
  BY DEF EgressAfterGc
<1>2. egress'[x] = IF x = a /\ b > 0 THEN Moved(v, b, t) ELSE v
  <2>1. egress' = EgressAfter(a, b, t)
    BY DEF Observe
  <2>2. DOMAIN EgressAfterGc(t) = Agents
    BY DEF EgressAfterGc
  <2>3. b = 0 <=> ~(b > 0)
    BY TimesAssumption
  <2>4. QED
    BY <2>1, <2>2, <2>3 DEF EgressAfter
<1>3. egress[x] \in [start : Time \cup {Never}, bytes : Nat]
  BY DEF IInv, TypeOK, Volume
<1> HIDE DEF v
<1>4. CASE x = a /\ b > 0
  <2>1. egress'[x] = Moved(v, b, t)
    BY <1>2, <1>4
  <2>2. CASE v = Closed
    BY <1>4, <2>1, <2>2 DEF Moved, Closed, VolumeMoves
  <2>3. CASE v = egress[x]
    <3>1. [egress[x] EXCEPT !.bytes = @ + b]
            = [start |-> egress[x].start, bytes |-> egress[x].bytes + b]
      BY <1>3
    <3>2. QED
      BY <1>4, <2>1, <2>3, <3>1 DEF Moved, VolumeMoves
  <2>4. QED
    BY <1>1, <2>2, <2>3
<1>5. CASE ~(x = a /\ b > 0)
  <2>1. egress'[x] = v
    BY <1>2, <1>5
  <2>2. QED
    BY <1>1, <1>5, <2>1 DEF Closed, VolumeMoves
<1>6. QED
  BY <1>4, <1>5

\* In order, what a volume window counts was sent since it began.
LEMMA ObserveVolumeIsSent ==
  ASSUME IInv, NEW k \in Keys \cup {None}, NEW a \in Agents,
         NEW b \in Sizes \cup {0}, NEW t \in Time, Observe(k, a, b, t)
  PROVE  VolumeIsSent'
<1> DEFINE since(u) == {y \in sent[u] : y.ts >= egress[u].start}
<1> SUFFICES ASSUME InOrder', NEW x \in Agents, egress'[x].start # Never
             PROVE  /\ egress'[x].start <= clock'
                    /\ egress'[x].bytes <= SumOf(since(x)')
  BY DEF VolumeIsSent
<1>1. /\ InOrder /\ clock' = t /\ clock <= t
      /\ t \in Nat /\ clock \in Int /\ b \in Nat
  <2>1. clock \in Int /\ t \in Nat
    BY BoundsAssumption DEF IInv, TypeOK, Time, Never
  <2>2. QED
    BY <2>1, ClockInOrder, TimesAssumption
<1>2. egress[x].start \in Int /\ egress[x].bytes \in Nat
  <2>1. egress[x].start \in Time \cup {Never} /\ egress[x].bytes \in Nat
    BY DEF IInv, TypeOK, Volume
  <2>2. QED
    BY <2>1, BoundsAssumption DEF Time, Never
<1>3. egress[x].start # Never =>
        egress[x].start <= clock /\ egress[x].bytes <= SumOf(since(x))
  BY <1>1 DEF IInv, VolumeIsSent
<1>4. Numbered(sent'[x])
  <2>1. TypeOK' /\ SentIsNumbered'
    BY ObserveTypeOK, ObserveSentIsNumbered
  <2>2. QED
    BY <2>1 DEF TypeOK, SentIsNumbered, Numbered, Transfer
<1>5. Numbered(since(x)')
  BY <1>4 DEF Numbered
<1>6. sent'[x] = IF x = a /\ b > 0
                 THEN sent[x] \cup {[at |-> events', ts |-> t, bytes |-> b]}
                 ELSE sent[x]
  BY DEF Observe
<1>7. CASE egress'[x] = egress[x] /\ ~(x = a /\ b > 0)
  <2>1. since(x)' = since(x)
    BY <1>6, <1>7
  <2>2. egress[x].start <= clock /\ egress[x].bytes <= SumOf(since(x))
    BY <1>3, <1>7
  <2>3. egress[x].start <= clock'
    BY <1>1, <1>2, <2>2
  <2> HIDE DEF since
  <2>4. QED
    BY <1>7, <2>1, <2>2, <2>3, Zenon
<1>8. CASE x = a /\ b > 0
  <2> DEFINE new == [at |-> events', ts |-> t, bytes |-> b]
             v == egress[x]
             w == egress'[x]
             S == since(x)
             T == since(x)'
  <2>1. new \notin sent[x]
    <3>1. \A y \in sent[x] : y.at <= events
      BY DEF IInv, SentIsNumbered
    <3>2. events \in Int /\ new.at = events + 1
      BY BoundsAssumption DEF IInv, TypeOK, Observe
    <3>3. QED
      BY <3>1, <3>2
  <2>2. new \in sent'[x] /\ new.ts = t /\ new.bytes = b
    BY <1>6, <1>8
  <2>3. CASE w = [start |-> t, bytes |-> b]
    <3>1. w.start = t /\ w.bytes = b
      BY <2>3
    <3>2. new \in T
      BY <1>1, <2>2, <3>1
    <3> HIDE DEF new, T, w
    <3>3. SumOf({}) \in Nat /\ SumOf(T) \in Nat /\ SumOf({}) + b <= SumOf(T)
      BY <1>5, <2>2, <3>2, MoreBytes DEF T
    <3>4. t <= clock' /\ b <= SumOf(T)
      BY <1>1, <3>3
    <3>5. QED
      BY <3>1, <3>4, Zenon DEF w, T
  <2>4. CASE v.start # Never /\ w = [start |-> v.start, bytes |-> v.bytes + b]
    <3>1. w.start = v.start /\ w.bytes = v.bytes + b
      BY <2>4
    <3>2. v.start <= clock /\ v.bytes <= SumOf(S)
      BY <1>3, <2>4
    <3>3. S \subseteq T
      BY <1>6, <3>1
    <3>4. new \in T \ S
      <4>1. new.ts >= w.start
        BY <1>1, <1>2, <2>2, <3>1, <3>2
      <4>2. QED
        BY <2>1, <2>2, <4>1
    <3>5. v.start \in Int /\ v.bytes \in Nat
      BY <1>2
    <3> HIDE DEF new, S, T, v, w
    <3>6. /\ SumOf(S) \in Nat /\ SumOf(T) \in Nat
          /\ SumOf(S) + b <= SumOf(T)
      BY <1>5, <2>2, <3>3, <3>4, MoreBytes DEF T
    <3>7. v.start <= clock' /\ v.bytes + b <= SumOf(T)
      BY <1>1, <3>2, <3>5, <3>6
    <3>8. QED
      BY <3>1, <3>7, Zenon DEF w, T
  <2>5. VolumeMoves(x, a, b, t)
    BY VolumeAfter
  <2>6. QED
    BY <1>8, <2>3, <2>4, <2>5 DEF VolumeMoves
<1>9. VolumeMoves(x, a, b, t)
  BY VolumeAfter
<1>10. QED
  BY <1>7, <1>8, <1>9 DEF VolumeMoves

\* Every step preserves the inductive invariant.
LEMMA NextIInv == IInv /\ [Next]_vars => IInv'
<1> SUFFICES ASSUME IInv, [Next]_vars PROVE IInv'
  OBVIOUS
<1>1. CASE Next
  <2>1. PICK k \in Keys \cup {None}, a \in Agents, b \in Sizes \cup {0}, t \in Time :
          Observe(k, a, b, t)
    BY <1>1 DEF Next
  <2>2. TypeOK' /\ SeenIsObserved' /\ KeepsWhatCounts' /\ RemembersFirings' /\ Swept'
    BY <2>1, ObserveTypeOK, ObserveSeenIsObserved, ObserveKeepsWhatCounts,
       ObserveRemembersFirings, ObserveSwept
  <2>3. SentIsNumbered' /\ VolumeIsSent'
    BY <2>1, ObserveSentIsNumbered, ObserveVolumeIsSent
  <2>4. QED
    BY <2>2, <2>3 DEF IInv
<1>2. CASE UNCHANGED vars
  <2>1. UNCHANGED <<seen, egress, fired, lastGC, out, events, clock, late, obs, sent, alarms>>
    BY <1>2 DEF vars, engine, history
  <2>2. TypeOK' /\ SeenIsObserved' /\ KeepsWhatCounts'
    BY <2>1 DEF IInv, TypeOK, SeenIsObserved, KeepsWhatCounts, InOrder
  <2>3. RemembersFirings' /\ Swept'
    BY <2>1 DEF IInv, RemembersFirings, Swept, InOrder
  <2>4. SentIsNumbered' /\ VolumeIsSent'
    BY <2>1 DEF IInv, SentIsNumbered, VolumeIsSent, InOrder
  <2>5. QED
    BY <2>2, <2>3, <2>4 DEF IInv
<1>3. QED
  BY <1>1, <1>2

\* In every reachable state windows have arrivals only and, while these are in
\* order, all that can still count; firings are remembered while they matter.
THEOREM Invariance == Spec => []IInv
<1>1. QED
  BY InitIInv, NextIInv, PTL DEF Spec

\* Every variable of the engine and of its history keeps its type.
THEOREM TypeCorrect == Spec => []TypeOK
<1>1. IInv => TypeOK
  BY DEF IInv
<1>2. QED
  BY <1>1, Invariance, PTL

-----------------------------------------------------------------------------
(* The promises *)

\* In order, the window after an event is the sliding window over everything
\* the engine was ever shown of that key.
LEMMA WindowIsExact ==
  ASSUME IInv, NEW k \in Keys, NEW a \in Agents,
         NEW b \in Sizes \cup {0}, NEW t \in Time, Observe(k, a, b, t), InOrder'
  PROVE  seen'[k] = Within(obs'[k], t, Window[Kind(k)])
<1> DEFINE w == Window[Kind(k)]
<1>1. InOrder /\ clock' = t /\ clock <= t
  BY ClockInOrder
<1>2. t \in Nat /\ clock \in Int /\ w \in Nat \ {0}
  BY BoundsAssumption, KindNumbers DEF IInv, TypeOK, Time, Never
<1>3. seen'[k] = Recent(seen[k], t, w) \cup {Stamp(t)} /\ obs'[k] = obs[k] \cup {Stamp(t)}
  BY WindowAfter
<1>4. seen[k] \subseteq obs[k]
  BY DEF IInv, SeenIsObserved
<1>5. \A y \in obs[k] : clock - y.ts < w => y \in seen[k]
  BY <1>1 DEF IInv, KeepsWhatCounts
<1>6. \A y \in obs[k] : y.ts \in Int
  <2>1. obs[k] \subseteq Entry
    BY DEF IInv, TypeOK
  <2>2. QED
    BY <2>1, BoundsAssumption DEF Entry, Time
<1> HIDE DEF w
<1>7. \A y \in obs[k] : y \in Recent(seen[k], t, w) <=> t - y.ts < w
  <2> SUFFICES ASSUME NEW y \in obs[k]
               PROVE  y \in Recent(seen[k], t, w) <=> t - y.ts < w
    OBVIOUS
  <2>1. y.ts \in Int
    BY <1>6
  <2>2. (y.ts > t - w <=> t - y.ts < w) /\ (t - y.ts < w => clock - y.ts < w)
    BY <1>1, <1>2, <2>1
  <2>3. QED
    BY <1>5, <2>2 DEF Recent
<1>8. Stamp(t).ts = t /\ t - t < w
  BY <1>2 DEF Stamp
<1>9. Recent(seen[k], t, w) \subseteq obs[k]
  BY <1>4 DEF Recent
<1>10. seen'[k] = Within(obs'[k], t, w)
  BY <1>3, <1>7, <1>8, <1>9 DEF Within
<1>11. QED
  BY <1>10 DEF w

\* A key may fire when no detection of it is younger than refire.
LEMMA CanFireWhenDue ==
  ASSUME IInv, NEW k \in Keys \cup {None}, NEW a \in Agents,
         NEW b \in Sizes \cup {0}, NEW t \in Time, Observe(k, a, b, t), InOrder',
         NEW x \in AllKeys
  PROVE  CanFire(x, t) <=> \A u \in Time : <<x, u>> \in alarms => t - u >= Refire
<1>1. InOrder /\ clock' = t /\ clock <= t
  BY ClockInOrder
<1>2. /\ t \in Nat /\ clock \in Int /\ Refire \in Nat \ {0} /\ fired[x] \in Time \cup {Never}
      /\ fired[x] \in Int
  BY BoundsAssumption, TimesAssumption DEF IInv, TypeOK, Time, Never
<1>3. /\ fired[x] # Never => <<x, fired[x]>> \in alarms
      /\ \A u \in Time : <<x, u>> \in alarms /\ clock - u < Refire =>
           fired[x] # Never /\ fired[x] >= u
  BY <1>1 DEF IInv, RemembersFirings
<1>4. CanFire(x, t) <=> fired[x] = Never \/ t - fired[x] >= Refire
  <2>1. FiredAfterGc(t)[x] = IF GcDue(t) /\ t - fired[x] > Refire THEN Never ELSE fired[x]
    BY DEF FiredAfterGc
  <2>2. t - fired[x] > Refire => t - fired[x] >= Refire
    BY <1>2
  <2>3. QED
    BY <2>1, <2>2 DEF CanFire
<1>5. ASSUME CanFire(x, t), NEW u \in Time, <<x, u>> \in alarms
      PROVE  t - u >= Refire
  <2>1. u \in Int
    BY BoundsAssumption DEF Time
  <2>2. CASE clock - u < Refire
    <3>1. fired[x] # Never /\ fired[x] >= u
      BY <1>3, <1>5, <2>2
    <3>2. t - fired[x] >= Refire
      BY <1>4, <1>5, <3>1
    <3>3. QED
      BY <1>2, <2>1, <3>1, <3>2
  <2>3. CASE clock - u >= Refire
    BY <1>1, <1>2, <2>1, <2>3
  <2>4. QED
    BY <1>2, <2>1, <2>2, <2>3
<1>6. ASSUME \A u \in Time : <<x, u>> \in alarms => t - u >= Refire
      PROVE  CanFire(x, t)
  BY <1>2, <1>3, <1>4, <1>6
<1>7. QED
  BY <1>5, <1>6

\* What fires among the windows of entities.
LEMMA FiresWhenFull ==
  ASSUME NEW k \in Keys \cup {None}, NEW a \in Agents,
         NEW b \in Sizes \cup {0}, NEW t \in Time, Observe(k, a, b, t), NEW x \in Keys
  PROVE  x \in out' <=> x = k /\ Full(x, seen'[x]) /\ CanFire(x, t)
<1>1. x # ExfilKey(a) /\ x # None
  BY KeysApart DEF ExfilKeys
<1>2. out' = {y \in {z \in {k} \ {None} : Full(z, seen'[z])}
                       \cup {z \in {ExfilKey(a)} : b > 0 /\ egress'[a].bytes >= ExfilBytes} :
                CanFire(y, t)}
  BY DEF Observe
<1>3. QED
  BY <1>1, <1>2

\* Neither gc nor pruning nor the forgetting of firings is ever felt: in order,
\* a key fires exactly when its sliding window is full and nothing suppresses it.
THEOREM FiresExactlyHolds == Spec => FiresExactly
<1>1. IInv /\ [Next]_vars =>
        [\A k \in Keys : InOrder' =>
           LET s == Within(obs'[k], clock', Window[Kind(k)])
           IN  k \in out' <=>
                 /\ obs'[k] # obs[k]
                 /\ Full(k, s)
                 /\ \A t \in Time : <<k, t>> \in alarms => clock' - t >= Refire]_vars
  <2> SUFFICES ASSUME IInv, Next, InOrder', NEW x \in Keys
               PROVE  x \in out' <=>
                        /\ obs'[x] # obs[x]
                        /\ Full(x, Within(obs'[x], clock', Window[Kind(x)]))
                        /\ \A t \in Time : <<x, t>> \in alarms => clock' - t >= Refire
    OBVIOUS
  <2>1. PICK k \in Keys \cup {None}, a \in Agents, b \in Sizes \cup {0}, t \in Time :
          Observe(k, a, b, t)
    BY DEF Next
  <2>2. x \in out' <=> x = k /\ Full(x, seen'[x]) /\ CanFire(x, t)
    BY <2>1, FiresWhenFull
  <2>3. clock' = t
    BY <2>1, ClockInOrder
  <2>4. x = k => seen'[x] = Within(obs'[x], t, Window[Kind(x)])
    BY <2>1, WindowIsExact
  <2>5. CanFire(x, t) <=> \A u \in Time : <<x, u>> \in alarms => t - u >= Refire
    <3>1. x \in AllKeys
      BY DEF AllKeys
    <3>2. QED
      BY <2>1, <3>1, CanFireWhenDue
  <2>6. x = k <=> obs'[x] # obs[x]
    <3>1. x # k => obs'[x] = obs[x]
      BY <2>1, WindowAfter
    <3>2. x = k => obs'[x] = obs[x] \cup {Stamp(t)}
      BY <2>1, WindowAfter
    <3>3. Stamp(t) \notin obs[x]
      <4>1. \A y \in obs[x] : y.at <= events
        BY DEF IInv, SeenIsObserved
      <4>2. events \in Int /\ Stamp(t).at = events + 1
        BY BoundsAssumption DEF IInv, TypeOK, Stamp
      <4>3. QED
        BY <4>1, <4>2
    <3>4. QED
      BY <3>1, <3>2, <3>3
  <2>7. QED
    BY <2>2, <2>3, <2>4, <2>5, <2>6
<1>2. QED
  BY <1>1, Invariance, PTL DEF Spec, FiresExactly

\* Whatever the order, a detection counts arrivals stamped after its cutoff, each
\* once, and at least as many as its rule asks for.
THEOREM CountsRealHolds == Spec => CountsReal
<1>1. IInv /\ [Next]_vars =>
        [\A k \in Keys : \A t \in Time :
           <<k, t>> \in alarms' \ alarms =>
             Cardinality(Within(obs'[k], t, Window[Kind(k)])) >= Count[Kind(k)]]_vars
  <2> SUFFICES ASSUME IInv, Next, NEW x \in Keys, NEW u \in Time,
                      <<x, u>> \in alarms' \ alarms
               PROVE  Cardinality(Within(obs'[x], u, Window[Kind(x)])) >= Count[Kind(x)]
    OBVIOUS
  <2> DEFINE w == Window[Kind(x)]
             s == seen'[x]
             o == Within(obs'[x], u, w)
  <2>1. PICK k \in Keys \cup {None}, a \in Agents, b \in Sizes \cup {0}, t \in Time :
          Observe(k, a, b, t)
    BY DEF Next
  <2>2. x \in out' /\ u = t
    <3>1. alarms' = alarms \cup (out' \X {t})
      BY <2>1 DEF Observe
    <3>2. QED
      BY <3>1
  <2>3. x = k /\ Full(x, s)
    BY <2>1, <2>2, FiresWhenFull
  <2>4. Cardinality(s) >= Count[Kind(x)]
    BY <2>3 DEF Full
  <2>5. SeenIsObserved'
    BY <2>1, ObserveSeenIsObserved
  <2>6. s \subseteq o
    <3>1. s = Recent(seen[x], t, w) \cup {Stamp(t)}
      BY <2>1, <2>3, WindowAfter
    <3>2. t \in Int /\ w \in Nat \ {0} /\ \A y \in seen[x] : y.ts \in Int
      <4>1. seen[x] \subseteq Entry
        BY DEF IInv, TypeOK
      <4>2. QED
        BY <4>1, KindNumbers, BoundsAssumption DEF Entry, Time
    <3>3. \A y \in Recent(seen[x], t, w) : t - y.ts < w
      <4> HIDE DEF w
      <4> QED
        BY <3>2 DEF Recent
    <3>4. t - Stamp(t).ts < w
      <4> HIDE DEF w
      <4> QED
        BY <3>2 DEF Stamp
    <3>5. s \subseteq obs'[x]
      BY <2>5 DEF SeenIsObserved
    <3>6. QED
      BY <2>2, <3>1, <3>3, <3>4, <3>5 DEF Within
  <2>7. IsFiniteSet(o)
    <3>1. IsFiniteSet(obs'[x]) /\ o \subseteq obs'[x]
      BY <2>5 DEF SeenIsObserved, Within
    <3>2. QED
      BY <3>1, FS_Subset
  <2>8. Cardinality(s) <= Cardinality(o) /\ Cardinality(s) \in Nat /\ Cardinality(o) \in Nat
    BY <2>6, <2>7, FS_Subset, FS_CardinalityType
  <2>9. Count[Kind(x)] \in Nat
    BY KindNumbers
  <2> HIDE DEF s, o
  <2>10. Cardinality(o) >= Count[Kind(x)]
    BY <2>4, <2>8, <2>9
  <2>11. QED
    BY <2>10 DEF o
<1>2. QED
  BY <1>1, Invariance, PTL DEF Spec, CountsReal

\* "N MB sent outbound within 5m": in order, what an exfiltration detection counts
\* was all sent within one exfilWindow, though the window tumbles and gc closes it.
THEOREM ExfilWithinWindowHolds == Spec => ExfilWithinWindow
<1>1. IInv /\ [Next]_vars =>
        [\A a \in Agents : InOrder' /\ ExfilKey(a) \in out' =>
           LET recent == {x \in sent'[a] : clock' - x.ts <= ExfilWindow}
           IN  SumOf(recent) >= ExfilBytes]_vars
  <2> SUFFICES ASSUME IInv, Next, InOrder', NEW x \in Agents, ExfilKey(x) \in out'
               PROVE  SumOf({y \in sent'[x] : clock' - y.ts <= ExfilWindow}) >= ExfilBytes
    OBVIOUS
  <2> DEFINE recent == {y \in sent'[x] : clock' - y.ts <= ExfilWindow}
             start  == egress'[x].start
             since  == {y \in sent'[x] : y.ts >= start}
             bytes  == egress'[x].bytes
  <2>1. PICK k \in Keys \cup {None}, a \in Agents, b \in Sizes \cup {0}, t \in Time :
          Observe(k, a, b, t)
    BY DEF Next
  <2>2. x = a /\ b > 0 /\ bytes >= ExfilBytes
    <3>1. ExfilKey(x) \in {k} \ {None} \/ ExfilKey(x) \in {y \in {ExfilKey(a)} :
                             b > 0 /\ egress'[a].bytes >= ExfilBytes}
      BY <2>1 DEF Observe
    <3>2. ExfilKey(x) \notin {k} \ {None}
      BY KeysApart DEF ExfilKeys
    <3>3. ExfilKey(x) = ExfilKey(a) /\ b > 0 /\ egress'[a].bytes >= ExfilBytes
      BY <3>1, <3>2
    <3>4. x = a
      BY <3>3 DEF ExfilKey
    <3>5. QED
      BY <3>3, <3>4
  <2>3. IInv'
    BY NextIInv
  <2>4. clock' = t /\ t \in Nat /\ ExfilWindow \in Nat
    BY <2>1, ClockInOrder, BoundsAssumption, TimesAssumption DEF Time
  <2>5. start \in Nat /\ start # Never /\ t - start <= ExfilWindow
    <3>1. egress[x].start \in Time \cup {Never}
      BY DEF IInv, TypeOK, Volume
    <3>2. egress[x].start # Never => egress[x].start \in Nat
      BY <3>1, BoundsAssumption DEF Time
    <3>3. CASE egress'[x] = [start |-> t, bytes |-> b]
      BY <2>4, <3>3 DEF Never
    <3>4. CASE /\ egress[x].start # Never /\ ~(t - egress[x].start > ExfilWindow)
               /\ egress'[x] = [start |-> egress[x].start, bytes |-> egress[x].bytes + b]
      <4>1. start = egress[x].start
        BY <3>4
      <4> HIDE DEF start
      <4>2. QED
        BY <2>4, <3>2, <3>4, <4>1
    <3>5. VolumeMoves(x, a, b, t)
      BY <2>1, VolumeAfter
    <3>6. QED
      BY <2>2, <3>3, <3>4, <3>5 DEF VolumeMoves
  <2>6. bytes <= SumOf(since)
    BY <2>3, <2>5 DEF IInv, VolumeIsSent
  <2>7. since \subseteq recent
    <3>1. \A y \in sent'[x] : y.ts \in Int
      <4>1. \A y \in sent'[x] : y.ts \in Time
        BY <2>3 DEF IInv, TypeOK
      <4>2. QED
        BY <4>1, BoundsAssumption DEF Time
    <3> HIDE DEF start
    <3>2. QED
      BY <2>4, <2>5, <3>1
  <2>8. Numbered(recent)
    BY <2>3 DEF IInv, TypeOK, SentIsNumbered, Numbered, Transfer
  <2>9. bytes \in Nat /\ ExfilBytes \in Nat
    BY <2>3, TimesAssumption DEF IInv, TypeOK, Volume
  <2> HIDE DEF recent, since, bytes
  <2>10. SumOf(since) \in Nat /\ SumOf(recent) \in Nat /\ SumOf(since) <= SumOf(recent)
    BY <2>7, <2>8, MoreBytes
  <2>11. SumOf(recent) >= ExfilBytes
    BY <2>2, <2>6, <2>9, <2>10
  <2>12. QED
    BY <2>11 DEF recent
<1>2. QED
  BY <1>1, Invariance, PTL DEF Spec, ExfilWithinWindow

\* The engine's maps stay bounded by the entities that are active.
THEOREM BoundedByActiveHolds == Spec => []BoundedByActive
<1>1. IInv => BoundedByActive
  <2> SUFFICES ASSUME IInv, InOrder PROVE BoundedByActive
    BY DEF BoundedByActive
  <2>1. /\ lastGC \in Int /\ clock \in Int
        /\ GcEvery \in Nat \ {0} /\ Refire \in Nat \ {0} /\ ExfilWindow \in Nat \ {0}
        /\ lastGC <= clock /\ clock - lastGC < GcEvery
    BY BoundsAssumption, TimesAssumption DEF IInv, TypeOK, Time, Never, Swept
  <2>2. ASSUME NEW k \in Keys, seen[k] # {}
        PROVE  \E x \in seen[k] : x.ts > clock - GcEvery - Window[Kind(k)]
    <3>1. PICK x \in seen[k] : x.ts > lastGC - Window[Kind(k)]
      BY <2>2 DEF IInv, Swept
    <3>2. x.ts \in Int /\ Window[Kind(k)] \in Int
      <4>1. x \in Entry
        BY DEF IInv, TypeOK
      <4>2. x.ts \in Time
        BY <4>1 DEF Entry
      <4>3. QED
        BY <4>2, KindNumbers, BoundsAssumption DEF Time
    <3>3. x.ts > clock - GcEvery - Window[Kind(k)]
      BY <2>1, <3>1, <3>2
    <3>4. QED
      BY <3>3
  <2>3. ASSUME NEW x \in AllKeys, fired[x] # Never
        PROVE  clock - fired[x] < Refire + GcEvery
    <3>1. lastGC - fired[x] <= Refire
      BY <2>3 DEF IInv, Swept
    <3>2. fired[x] \in Int
      BY BoundsAssumption DEF IInv, TypeOK, Time, Never
    <3>3. QED
      BY <2>1, <3>1, <3>2
  <2>4. ASSUME NEW a \in Agents, egress[a] # Closed
        PROVE  clock - egress[a].start < ExfilWindow + GcEvery
    <3>1. lastGC - egress[a].start <= ExfilWindow
      BY <2>4 DEF IInv, Swept
    <3>2. egress[a].start \in Int
      <4>1. egress[a] \in Volume
        BY DEF IInv, TypeOK
      <4>2. egress[a].start \in Time \cup {Never}
        BY <4>1 DEF Volume
      <4>3. QED
        BY <4>2, BoundsAssumption DEF Time, Never
    <3>3. QED
      BY <2>1, <3>1, <3>2
  <2>5. QED
    BY <2>2, <2>3, <2>4 DEF BoundedByActive
<1>2. QED
  BY <1>1, Invariance, PTL
=============================================================================
