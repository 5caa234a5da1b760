---------------------------- MODULE SpoolProofs ----------------------------
(***************************************************************************)
(* Theorems about Spool, for every set of batches, every cap and every     *)
(* setting of the switches.                                                *)
(***************************************************************************)
EXTENDS Spool, SequenceTheorems, WellFoundedInduction, TLAPS

-----------------------------------------------------------------------------
(* Removing from and inserting into a sequence *)

\* The sequence without its element i: its length and its elements.
LEMMA RemoveAtProperties ==
  ASSUME NEW S, NEW s \in Seq(S), NEW i \in DOMAIN s
  PROVE  /\ RemoveAt(s, i) \in Seq(S)
         /\ Len(RemoveAt(s, i)) = Len(s) - 1
         /\ \A k \in 1..(Len(s) - 1) :
              RemoveAt(s, i)[k] = s[IF k < i THEN k ELSE k + 1]
<1> DEFINE a == SubSeq(s, 1, i - 1)
           b == SubSeq(s, i + 1, Len(s))
<1>1. /\ Len(s) \in Nat
      /\ i \in 1..Len(s)
      /\ \A k \in 1..Len(s) : s[k] \in S
  BY LenProperties, ElementOfSeq
<1>2. /\ a \in Seq(S) /\ Len(a) = i - 1
      /\ \A k \in 1..(i - 1) : a[k] = s[k]
  <2>1. \A k \in 1..(i - 1) : s[k] \in S
    BY <1>1
  <2>2. QED
    BY <1>1, <2>1
<1>3. /\ b \in Seq(S) /\ Len(b) = Len(s) - i
      /\ \A k \in 1..(Len(s) - i) : b[k] = s[i + k]
  <2>1. \A k \in (i + 1)..Len(s) : s[k] \in S
    BY <1>1
  <2>2. QED
    BY <1>1, <2>1
<1>4. RemoveAt(s, i) = a \o b
  BY DEF RemoveAt
<1> HIDE DEF a, b
<1>5. a \o b \in Seq(S) /\ Len(a \o b) = Len(s) - 1
  <2>1. a \o b \in Seq(S) /\ Len(a \o b) = Len(a) + Len(b)
    BY <1>2, <1>3, ConcatProperties
  <2>2. QED
    BY <1>1, <1>2, <1>3, <2>1
<1>6. ASSUME NEW k \in 1..(Len(s) - 1)
      PROVE  (a \o b)[k] = s[IF k < i THEN k ELSE k + 1]
  <2>1. k \in 1..(Len(a) + Len(b))
    BY <1>1, <1>2, <1>3
  <2>2. (a \o b)[k] = IF k <= Len(a) THEN a[k] ELSE b[k - Len(a)]
    BY <1>2, <1>3, <2>1, ConcatProperties
  <2>3. CASE k < i
    BY <1>1, <1>2, <2>2, <2>3
  <2>4. CASE ~(k < i)
    <3>1. ~(k <= Len(a)) /\ k - Len(a) \in 1..(Len(s) - i) /\ i + (k - Len(a)) = k + 1
      BY <1>1, <1>2, <2>4
    <3>2. QED
      BY <1>3, <2>2, <2>4, <3>1
  <2>5. QED
    BY <2>3, <2>4
<1>7. QED
  BY <1>4, <1>5, <1>6

\* The sequence with an element inserted at i: its length and its elements.
LEMMA InsertAtProperties ==
  ASSUME NEW S, NEW s \in Seq(S), NEW i \in 1..(Len(s) + 1), NEW e \in S
  PROVE  /\ InsertAt(s, i, e) \in Seq(S)
         /\ Len(InsertAt(s, i, e)) = Len(s) + 1
         /\ \A k \in 1..(Len(s) + 1) :
              InsertAt(s, i, e)[k] = IF k = i THEN e ELSE s[IF k < i THEN k ELSE k - 1]
<1> DEFINE a == SubSeq(s, 1, i - 1)
           b == SubSeq(s, i, Len(s))
           c == a \o <<e>>
<1>1. Len(s) \in Nat /\ \A k \in 1..Len(s) : s[k] \in S
  BY LenProperties, ElementOfSeq
<1>2. /\ a \in Seq(S) /\ Len(a) = i - 1
      /\ \A k \in 1..(i - 1) : a[k] = s[k]
  <2>1. \A k \in 1..(i - 1) : s[k] \in S
    BY <1>1
  <2>2. QED
    BY <1>1, <2>1
<1>3. /\ b \in Seq(S) /\ Len(b) = Len(s) - i + 1
      /\ \A k \in 1..(Len(s) - i + 1) : b[k] = s[i + k - 1]
  <2>1. \A k \in i..Len(s) : s[k] \in S
    BY <1>1
  <2>2. QED
    BY <1>1, <2>1
<1>4. InsertAt(s, i, e) = c \o b
  BY DEF InsertAt
<1> HIDE DEF a, b
<1>5. /\ c \in Seq(S) /\ Len(c) = i /\ c[i] = e
      /\ \A k \in 1..(i - 1) : c[k] = s[k]
  <2>1. <<e>> \in Seq(S) /\ Len(<<e>>) = 1 /\ <<e>>[1] = e
    OBVIOUS
  <2>2. /\ c \in Seq(S) /\ Len(c) = Len(a) + 1
        /\ \A k \in 1..(Len(a) + 1) :
             c[k] = IF k <= Len(a) THEN a[k] ELSE <<e>>[k - Len(a)]
    BY <1>2, <2>1, ConcatProperties
  <2> HIDE DEF c
  <2>3. c \in Seq(S) /\ Len(c) = i
    BY <1>1, <1>2, <2>2
  <2>4. c[i] = e
    <3>1. i \in 1..(Len(a) + 1) /\ ~(i <= Len(a)) /\ i - Len(a) = 1
      BY <1>1, <1>2
    <3>2. QED
      BY <2>1, <2>2, <3>1
  <2>5. ASSUME NEW k \in 1..(i - 1) PROVE c[k] = s[k]
    <3>1. k \in 1..(Len(a) + 1) /\ k <= Len(a)
      BY <1>1, <1>2
    <3>2. QED
      BY <1>2, <2>2, <3>1
  <2>6. QED
    BY <2>3, <2>4, <2>5
<1> HIDE DEF c
<1>6. c \o b \in Seq(S) /\ Len(c \o b) = Len(s) + 1
  <2>1. c \o b \in Seq(S) /\ Len(c \o b) = Len(c) + Len(b)
    BY <1>3, <1>5, ConcatProperties
  <2>2. QED
    BY <1>1, <1>3, <1>5, <2>1
<1>7. ASSUME NEW k \in 1..(Len(s) + 1)
      PROVE  (c \o b)[k] = IF k = i THEN e ELSE s[IF k < i THEN k ELSE k - 1]
  <2>1. k \in 1..(Len(c) + Len(b))
    BY <1>1, <1>3, <1>5
  <2>2. (c \o b)[k] = IF k <= Len(c) THEN c[k] ELSE b[k - Len(c)]
    BY <1>3, <1>5, <2>1, ConcatProperties
  <2>3. CASE k < i
    BY <1>1, <1>5, <2>2, <2>3
  <2>4. CASE k = i
    BY <1>1, <1>5, <2>2, <2>4
  <2>5. CASE k > i
    <3>1. /\ ~(k <= Len(c)) /\ k - Len(c) \in 1..(Len(s) - i + 1)
          /\ i + (k - Len(c)) - 1 = k - 1
      BY <1>1, <1>5, <2>5
    <3>2. b[k - Len(c)] = s[k - 1]
      BY <1>3, <3>1
    <3>3. QED
      BY <2>2, <2>5, <3>1, <3>2
  <2>6. k < i \/ k = i \/ k > i
    BY <1>1
  <2>7. QED
    BY <2>3, <2>4, <2>5, <2>6
<1>8. QED
  BY <1>4, <1>6, <1>7

-----------------------------------------------------------------------------
(* Adding up lengths *)

\* A set of numbers with 0 and with the successor of each of its members has them all.
LEMMA Induction ==
  ASSUME NEW T, 0 \in T, \A n \in Nat : n \in T => n + 1 \in T
  PROVE  Nat \subseteq T
<1> SUFFICES ASSUME Nat \ T # {} PROVE FALSE
  OBVIOUS
<1>1. IsWellFoundedOn(OpToRel(<, Nat), Nat)
  BY NatLessThanWellFounded
<1>2. PICK n \in Nat \ T : \A m \in Nat \ T : <<m, n>> \notin OpToRel(<, Nat)
  BY <1>1, WFMin
<1>3. n # 0 /\ n \in Nat
  BY <1>2
<1>4. n - 1 \in Nat /\ n - 1 < n /\ (n - 1) + 1 = n
  BY <1>3
<1>5. <<n - 1, n>> \in OpToRel(<, Nat)
  BY <1>3, <1>4 DEF OpToRel
<1>6. n - 1 \in T
  BY <1>2, <1>4, <1>5
<1>7. QED
  BY <1>2, <1>4, <1>6

\* g adds up the lengths of the first m files of s.
Adds(g, s, m) ==
  /\ g \in [0..m -> Int] /\ g[0] = 0
  /\ \A n \in 1..m : g[n] = g[n - 1] + s[n].len

\* Files have lengths that are numbers.
LEMMA FileLength ==
  ASSUME NEW s \in Seq(File)
  PROVE  Len(s) \in Nat /\ DOMAIN s = 1..Len(s) /\ \A n \in 1..Len(s) : s[n].len \in Nat
<1>1. Len(s) \in Nat /\ DOMAIN s = 1..Len(s)
  BY LenProperties
<1>2. ASSUME NEW n \in 1..Len(s) PROVE s[n].len \in Nat
  <2>1. s[n] \in File
    BY <1>1, ElementOfSeq
  <2>2. s[n].len \in Lens
    BY <2>1 DEF File
  <2>3. s[n].len \in 1..MaxBytes
    BY <2>2, LensAssumption, Zenon
  <2>4. QED
    BY <2>3, MaxBytesAssumption
<1>3. QED
  BY <1>1, <1>2

\* Total does: there is such a sum of the first m files for every m, hence one of all.
LEMMA TotalAdds ==
  ASSUME NEW s \in Seq(File)
  PROVE  Adds(Total(s), s, Len(s))
<1> DEFINE L == Len(s)
           T == {m \in Nat : m <= L => \E g : Adds(g, s, m)}
<1>1. L \in Nat /\ \A n \in 1..L : s[n].len \in Nat
  BY FileLength
<1> HIDE DEF L
<1>2. 0 \in T
  <2> DEFINE g == [n \in 0..0 |-> 0]
  <2>1. Adds(g, s, 0)
    BY DEF Adds
  <2>2. QED
    BY <2>1
<1>3. ASSUME NEW m \in Nat, m \in T PROVE m + 1 \in T
  <2> SUFFICES ASSUME m + 1 <= L PROVE \E h : Adds(h, s, m + 1)
    OBVIOUS
  <2>1. m <= L /\ m + 1 \in 1..L
    BY <1>1
  <2>2. PICK g : Adds(g, s, m)
    BY <1>3, <2>1
  <2> DEFINE h == [n \in 0..(m + 1) |-> IF n = m + 1 THEN g[m] + s[m + 1].len ELSE g[n]]
  <2>3. \A n \in 0..m : g[n] \in Int
    BY <2>2 DEF Adds
  <2>4. h \in [0..(m + 1) -> Int] /\ h[0] = 0
    BY <1>1, <2>1, <2>2, <2>3 DEF Adds
  <2>5. ASSUME NEW n \in 1..(m + 1) PROVE h[n] = h[n - 1] + s[n].len
    <3>1. CASE n = m + 1
      BY <3>1
    <3>2. CASE n # m + 1
      <4>1. n \in 1..m /\ n - 1 \in 0..m /\ n - 1 # m + 1
        BY <3>2
      <4>2. QED
        BY <2>2, <4>1 DEF Adds
    <3>3. QED
      BY <3>1, <3>2
  <2>6. QED
    BY <2>4, <2>5 DEF Adds
<1>4. \E g : Adds(g, s, L)
  <2>1. L \in T
    BY <1>1, <1>2, <1>3, Induction
  <2>2. QED
    BY <1>1, <2>1
<1> DEFINE Sum(g) == g = [n \in 0..L |-> IF n = 0 THEN 0 ELSE g[n - 1] + s[n].len]
<1>5. \E g : Sum(g)
  <2>1. PICK g : Adds(g, s, L)
    BY <1>4
  <2>2. \A n \in 0..L : n = 0 \/ n \in 1..L
    BY <1>1
  <2>3. Sum(g)
    BY <2>1, <2>2 DEF Adds
  <2>4. QED
    BY <2>3
<1>6. Total(s) = CHOOSE g : Sum(g)
  BY DEF Total, L
<1> HIDE DEF Sum
<1>7. Sum(Total(s))
  BY <1>5, <1>6
<1> USE DEF Sum
<1>8. /\ DOMAIN Total(s) = 0..L
      /\ Total(s)[0] = 0
      /\ \A n \in 1..L : Total(s)[n] = Total(s)[n - 1] + s[n].len
  BY <1>1, <1>7
<1>9. \A n \in 0..L : Total(s)[n] \in Int
  <2> DEFINE U == {m \in Nat : m <= L => Total(s)[m] \in Int}
  <2>1. 0 \in U
    BY <1>8
  <2>2. ASSUME NEW m \in Nat, m \in U PROVE m + 1 \in U
    <3> SUFFICES ASSUME m + 1 <= L PROVE Total(s)[m + 1] \in Int
      OBVIOUS
    <3>1. m + 1 \in 1..L /\ m <= L /\ (m + 1) - 1 = m
      BY <1>1
    <3>2. Total(s)[m + 1] = Total(s)[m] + s[m + 1].len
      BY <1>8, <3>1
    <3>3. QED
      BY <1>1, <2>2, <3>1, <3>2
  <2>3. Nat \subseteq U
    BY <2>1, <2>2, Induction
  <2>4. QED
    BY <1>1, <2>3
<1>10. Total(s) \in [0..L -> Int]
  BY <1>7, <1>8, <1>9
<1>11. QED
  BY <1>8, <1>10 DEF Adds, L

\* And nothing else does.
LEMMA TotalOnly ==
  ASSUME NEW s \in Seq(File), NEW g, Adds(g, s, Len(s))
  PROVE  Bytes(s) = g[Len(s)]
<1> DEFINE L == Len(s)
           T == {m \in Nat : m <= L => Total(s)[m] = g[m]}
<1>1. L \in Nat /\ Adds(Total(s), s, L)
  BY FileLength, TotalAdds
<1>2. Adds(g, s, L)
  OBVIOUS
<1> HIDE DEF L
<1>3. 0 \in T
  BY <1>1, <1>2 DEF Adds
<1>4. ASSUME NEW m \in Nat, m \in T PROVE m + 1 \in T
  <2> SUFFICES ASSUME m + 1 <= L PROVE Total(s)[m + 1] = g[m + 1]
    OBVIOUS
  <2>1. m + 1 \in 1..L /\ m <= L /\ (m + 1) - 1 = m
    BY <1>1
  <2>2. QED
    BY <1>1, <1>2, <1>4, <2>1 DEF Adds
<1>5. Nat \subseteq T
  BY <1>3, <1>4, Induction
<1>6. QED
  BY <1>1, <1>5 DEF Bytes, L

\* A sum without a file is less by its length.
LEMMA BytesRemoved ==
  ASSUME NEW s \in Seq(File), NEW i \in DOMAIN s
  PROVE  /\ Bytes(s) \in Int /\ Bytes(RemoveAt(s, i)) \in Int
         /\ Bytes(RemoveAt(s, i)) <= Bytes(s)
<1> DEFINE L == Len(s)
           g == Total(s)
           t == RemoveAt(s, i)
           h == [k \in 0..(L - 1) |-> IF k < i THEN g[k] ELSE g[k + 1] - s[i].len]
<1>1. L \in Nat /\ i \in 1..L /\ \A n \in 1..L : s[n].len \in Nat
  BY FileLength
<1>2. Adds(g, s, L)
  BY TotalAdds
<1>3. /\ t \in Seq(File) /\ Len(t) = L - 1
      /\ \A k \in 1..(L - 1) : t[k] = s[IF k < i THEN k ELSE k + 1]
  BY RemoveAtProperties
<1>4. Bytes(s) = g[L]
  BY DEF Bytes
<1> HIDE DEF L, g, t
<1>5. h \in [0..(L - 1) -> Int] /\ h[0] = 0
  <2>1. ASSUME NEW k \in 0..(L - 1) PROVE g[k] \in Int /\ g[k + 1] - s[i].len \in Int
    <3>1. k \in 0..L /\ k + 1 \in 0..L
      BY <1>1
    <3>2. g[k] \in Int /\ g[k + 1] \in Int
      BY <1>2, <3>1 DEF Adds
    <3>3. QED
      BY <1>1, <3>2
  <2>2. QED
    BY <1>1, <1>2, <2>1 DEF Adds
<1>h. \A k \in 0..(L - 1) : h[k] = IF k < i THEN g[k] ELSE g[k + 1] - s[i].len
  OBVIOUS
<1> HIDE DEF h
<1>6. ASSUME NEW n \in 1..(L - 1) PROVE h[n] = h[n - 1] + t[n].len
  <2>1. n \in 1..L /\ n + 1 \in 1..L /\ (n + 1) - 1 = n /\ n - 1 \in 0..(L - 1)
    BY <1>1
  <2>2. /\ g[n] = g[n - 1] + s[n].len /\ g[n + 1] = g[n] + s[n + 1].len
        /\ g[n - 1] \in Int /\ g[n] \in Int /\ g[n + 1] \in Int
        /\ s[n].len \in Int /\ s[n + 1].len \in Int /\ s[i].len \in Int
    <3>1. n - 1 \in 0..L /\ n \in 0..L /\ n + 1 \in 0..L
      BY <1>1, <2>1
    <3>2. g[n - 1] \in Int /\ g[n] \in Int /\ g[n + 1] \in Int
      BY <1>2, <3>1 DEF Adds
    <3>3. g[n] = g[n - 1] + s[n].len
      BY <1>2, <2>1 DEF Adds
    <3>4. g[n + 1] = g[(n + 1) - 1] + s[n + 1].len
      BY <1>2, <2>1, Zenon DEF Adds
    <3>5. QED
      BY <1>1, <2>1, <3>2, <3>3, <3>4
  <2>3. CASE n < i
    <3>1. h[n] = g[n] /\ h[n - 1] = g[n - 1] /\ t[n] = s[n]
      <4>1. n - 1 < i /\ n \in 0..(L - 1)
        BY <1>1, <2>3
      <4>2. QED
        BY <1>3, <1>h, <2>1, <2>3, <4>1
    <3>2. QED
      BY <2>2, <3>1
  <2>4. CASE n = i
    <3>1. h[n] = g[n + 1] - s[n].len /\ h[n - 1] = g[n - 1] /\ t[n] = s[n + 1]
      <4>1. n - 1 < i /\ ~(n < i) /\ n \in 0..(L - 1)
        BY <1>1, <2>4
      <4>2. QED
        BY <1>3, <1>h, <2>1, <2>4, <4>1
    <3> DEFINE u == g[n - 1]
               v == g[n]
               w == g[n + 1]
               x == s[n].len
               y == s[n + 1].len
    <3>2. /\ u \in Int /\ v \in Int /\ w \in Int /\ x \in Int /\ y \in Int
          /\ v = u + x /\ w = v + y
      BY <2>2
    <3> HIDE DEF u, v, w, x, y
    <3>3. w - x = u + y
      BY <3>2
    <3>4. QED
      BY <3>1, <3>3, Zenon DEF u, v, w, x, y
  <2>5. CASE n > i
    <3>1. (n - 1) + 1 = n /\ ~(n - 1 < i) /\ ~(n < i) /\ n \in 0..(L - 1)
      BY <1>1, <2>5
    <3>2. /\ h[n] = g[n + 1] - s[i].len /\ h[n - 1] = g[n] - s[i].len
          /\ t[n] = s[n + 1]
      BY <1>3, <1>h, <2>1, <3>1
    <3> DEFINE v == g[n]
               w == g[n + 1]
               x == s[i].len
               y == s[n + 1].len
    <3>3. v \in Int /\ w \in Int /\ x \in Int /\ y \in Int /\ w = v + y
      BY <2>2
    <3> HIDE DEF v, w, x, y
    <3>4. w - x = (v - x) + y
      BY <3>3
    <3>5. QED
      BY <3>2, <3>4, Zenon DEF v, w, x, y
  <2>6. QED
    BY <1>1, <2>3, <2>4, <2>5
<1>7. Adds(h, t, L - 1)
  BY <1>5, <1>6 DEF Adds
<1>8. Bytes(t) = h[L - 1]
  BY <1>3, <1>7, TotalOnly
<1>9. h[L - 1] = g[L] - s[i].len /\ g[L] \in Int
  <2>1. L - 1 \in 0..(L - 1) /\ L \in 0..L /\ L \in 1..L /\ (L - 1) + 1 = L
    BY <1>1
  <2>2. g[L] \in Int /\ g[L - 1] \in Int /\ g[L] = g[L - 1] + s[L].len
    <3>1. L - 1 \in 0..L
      BY <1>1
    <3>2. QED
      BY <1>2, <2>1, <3>1 DEF Adds
  <2>3. h[L - 1] = IF L - 1 < i THEN g[L - 1] ELSE g[L] - s[i].len
    BY <1>h, <2>1
  <2>4. CASE i = L
    BY <1>1, <2>1, <2>2, <2>3, <2>4
  <2>5. CASE i # L
    BY <1>1, <2>2, <2>3, <2>5
  <2>6. QED
    BY <2>4, <2>5
<1>10. QED
  BY <1>1, <1>4, <1>8, <1>9 DEF t

\* And with one more, larger by its length.
LEMMA BytesInserted ==
  ASSUME NEW s \in Seq(File), NEW i \in 1..(Len(s) + 1), NEW e \in File
  PROVE  Bytes(InsertAt(s, i, e)) = Bytes(s) + e.len
<1> DEFINE L == Len(s)
           g == Total(s)
           t == InsertAt(s, i, e)
           h == [k \in 0..(L + 1) |-> IF k < i THEN g[k] ELSE g[k - 1] + e.len]
<1>1. L \in Nat /\ i \in 1..(L + 1) /\ (\A n \in 1..L : s[n].len \in Nat) /\ e.len \in Nat
  <2>1. <<e>> \in Seq(File) /\ Len(<<e>>) = 1 /\ <<e>>[1] = e
    OBVIOUS
  <2>2. 1 \in 1..1
    OBVIOUS
  <2>3. e.len \in Nat
    BY <2>1, <2>2, FileLength
  <2>4. QED
    BY <2>3, FileLength
<1>2. Adds(g, s, L)
  BY TotalAdds
<1>3. /\ t \in Seq(File) /\ Len(t) = L + 1
      /\ \A k \in 1..(L + 1) : t[k] = IF k = i THEN e ELSE s[IF k < i THEN k ELSE k - 1]
  BY InsertAtProperties
<1>4. Bytes(s) = g[L]
  BY DEF Bytes
<1> HIDE DEF L, g, t
<1>5. h \in [0..(L + 1) -> Int] /\ h[0] = 0
  <2>1. ASSUME NEW k \in 0..(L + 1)
        PROVE  (IF k < i THEN g[k] ELSE g[k - 1] + e.len) \in Int
    <3>1. CASE k < i
      <4>1. k \in 0..L
        BY <1>1, <3>1
      <4>2. QED
        BY <1>2, <3>1, <4>1 DEF Adds
    <3>2. CASE ~(k < i)
      <4>1. k - 1 \in 0..L
        BY <1>1, <3>2
      <4>2. g[k - 1] \in Int
        BY <1>2, <4>1 DEF Adds
      <4>3. QED
        BY <1>1, <3>2, <4>2
    <3>3. QED
      BY <3>1, <3>2
  <2>2. 0 \in 0..(L + 1) /\ 0 < i
    BY <1>1
  <2>3. QED
    BY <1>2, <2>1, <2>2 DEF Adds
<1>h. \A k \in 0..(L + 1) : h[k] = IF k < i THEN g[k] ELSE g[k - 1] + e.len
  OBVIOUS
<1> HIDE DEF h
<1>6. ASSUME NEW n \in 1..(L + 1) PROVE h[n] = h[n - 1] + t[n].len
  <2>1. n - 1 \in 0..(L + 1) /\ n \in 0..(L + 1)
    BY <1>1
  <2>2. CASE n < i
    <3>1. n \in 1..L /\ n - 1 < i
      BY <1>1, <2>2
    <3>2. h[n] = g[n] /\ h[n - 1] = g[n - 1] /\ t[n] = s[n]
      BY <1>3, <1>h, <2>1, <2>2, <3>1
    <3>3. QED
      BY <1>2, <3>1, <3>2 DEF Adds
  <2>3. CASE n = i
    <3>1. h[n] = g[n - 1] + e.len /\ h[n - 1] = g[n - 1] /\ t[n] = e
      <4>1. n - 1 < i /\ ~(n < i)
        BY <1>1, <2>3
      <4>2. QED
        BY <1>3, <1>h, <2>1, <2>3, <4>1
    <3>2. QED
      BY <3>1
  <2>4. CASE n > i
    <3> DEFINE k == n - 1
    <3>1. k \in 1..L /\ k - 1 \in 0..L /\ ~(k < i) /\ ~(n < i) /\ n # i
      BY <1>1, <2>4
    <3>2. h[n] = g[k] + e.len /\ h[k] = g[k - 1] + e.len /\ t[n] = s[k]
      BY <1>3, <1>h, <2>1, <3>1
    <3> HIDE DEF k
    <3>3. g[k] = g[k - 1] + s[k].len
      BY <1>2, <3>1 DEF Adds
    <3>g. g[k - 1] \in Int /\ s[k].len \in Nat
      <4>1. g[k - 1] \in Int
        BY <1>2, <3>1 DEF Adds
      <4>2. s[k].len \in Nat
        BY <1>1, <3>1
      <4>3. QED
        BY <4>1, <4>2
    <3>4. h[n] = h[k] + t[n].len
      BY <1>1, <3>2, <3>3, <3>g
    <3>5. QED
      BY <3>4 DEF k
  <2>5. QED
    BY <1>1, <2>2, <2>3, <2>4
<1>7. Adds(h, t, L + 1)
  BY <1>5, <1>6 DEF Adds
<1>8. Bytes(t) = h[L + 1]
  BY <1>3, <1>7, TotalOnly
<1>9. h[L + 1] = g[L] + e.len
  <2>1. L + 1 \in 0..(L + 1) /\ ~(L + 1 < i) /\ (L + 1) - 1 = L
    BY <1>1
  <2>2. QED
    BY <1>h, <2>1
<1>10. QED
  BY <1>4, <1>8, <1>9 DEF t

\* Files of the same lengths add up to the same.
LEMMA BytesSame ==
  ASSUME NEW s \in Seq(File), NEW t \in Seq(File), Len(t) = Len(s),
         \A n \in 1..Len(s) : t[n].len = s[n].len
  PROVE  Bytes(t) = Bytes(s)
<1>1. Adds(Total(t), t, Len(t))
  BY TotalAdds
<1>2. Adds(Total(t), s, Len(s))
  BY <1>1 DEF Adds
<1>3. QED
  BY <1>2, TotalOnly DEF Bytes

\* It is a number.
LEMMA BytesType == ASSUME NEW s \in Seq(File) PROVE Bytes(s) \in Int
<1>1. Len(s) \in 0..Len(s)
  BY FileLength
<1>2. QED
  BY <1>1, TotalAdds DEF Adds, Bytes

\* An empty directory has none.
LEMMA BytesEmpty == Bytes(<<>>) = 0
<1>1. <<>> \in Seq(File) /\ Len(<<>>) = 0
  BY EmptySeq
<1>2. Adds(Total(<<>>), <<>>, 0)
  BY <1>1, TotalAdds
<1>3. QED
  BY <1>1, <1>2 DEF Adds, Bytes

\* Forgetting an evicted or acknowledged batch keeps the ages typed.
LEMMA ForgetType ==
  ASSUME NEW S, NEW s \in Seq(S), NEW x
  PROVE  Forget(s, x) \in Seq(S)
<1> DEFINE at == {k \in DOMAIN s : s[k] = x}
<1>1. CASE at = {}
  BY <1>1 DEF Forget
<1>2. CASE at # {}
  <2>1. (CHOOSE k \in at : TRUE) \in DOMAIN s
    BY <1>2
  <2>2. QED
    BY <1>2, <2>1, RemoveAtProperties DEF Forget
<1>3. QED
  BY <1>1, <1>2

\* A batch that is there once is forgotten at its place.
LEMMA ForgetIs ==
  ASSUME NEW S, NEW s \in Seq(S), NEW i \in DOMAIN s,
         \A k \in DOMAIN s : s[k] = s[i] => k = i
  PROVE  Forget(s, s[i]) = RemoveAt(s, i)
<1>1. {k \in DOMAIN s : s[k] = s[i]} = {i}
  OBVIOUS
<1>2. (CHOOSE k \in {i} : TRUE) = i /\ {i} # {}
  OBVIOUS
<1>3. QED
  BY <1>1, <1>2, Zenon DEF Forget

\* Removing the i-th file keeps the types, loses one file unless the directory
\* is read-only, and keeps every other batch, in its order.
LEMMA UnlinkProperties ==
  ASSUME TypeOK, OneFileEach, NamedByAge, NEW i \in DOMAIN dir, Unlink(i)
  PROVE  /\ dir' \in Seq(File) /\ age' \in Seq(Ids)
         /\ Len(dir') = (IF readonly THEN Len(dir) ELSE Len(dir) - 1)
         /\ Bytes(dir) \in Int /\ Bytes(dir') \in Int /\ Bytes(dir') <= Bytes(dir)
         /\ \A j \in DOMAIN dir : Gone(j) => j = i /\ ~readonly
         /\ DirIds' \subseteq DirIds /\ OneFileEach'
         /\ stepped' = stepped => NamedByAge'
<1> DEFINE n == Len(dir)
<1>1. /\ dir \in Seq(File) /\ age \in Seq(Ids)
      /\ n \in Nat /\ DOMAIN dir = 1..n /\ i \in 1..n
  BY LenProperties DEF TypeOK
<1>2. CASE readonly
  <2>1. dir' = dir /\ age' = age
    BY <1>2 DEF Unlink
  <2>2. Bytes(dir) \in Int
    BY BytesRemoved, <1>1
  <2>3. Bytes(dir') = Bytes(dir) /\ Len(dir') = Len(dir)
    BY <2>1
  <2>4. Bytes(dir') <= Bytes(dir)
    BY <2>2, <2>3
  <2>5. DirIds' = DirIds /\ OneFileEach' /\ (stepped' = stepped => NamedByAge')
    BY <2>1 DEF DirIds, OneFileEach, NamedByAge
  <2>6. \A j \in DOMAIN dir : ~Gone(j)
    BY <2>5 DEF Gone, DirIds
  <2>7. QED
    BY <1>1, <1>2, <2>1, <2>2, <2>3, <2>4, <2>5, <2>6
<1>3. CASE ~readonly
  <2>1. dir' = RemoveAt(dir, i) /\ age' = Forget(age, dir[i].id)
    BY <1>3 DEF Unlink
  <2>2. /\ dir' \in Seq(File) /\ Len(dir') = n - 1
        /\ \A k \in 1..(n - 1) : dir'[k] = dir[IF k < i THEN k ELSE k + 1]
    BY <1>1, <2>1, RemoveAtProperties
  <2>3. Bytes(dir) \in Int /\ Bytes(dir') \in Int /\ Bytes(dir') <= Bytes(dir)
    BY <1>1, <2>1, BytesRemoved
  <2>4. age' \in Seq(Ids)
    BY <1>1, <2>1, ForgetType
  <2>5. DOMAIN dir' = 1..(n - 1)
    BY <2>2, LenProperties
  <2> HIDE DEF n
  <2>6. ASSUME NEW j \in 1..n, j # i PROVE \E k \in DOMAIN dir' : dir'[k] = dir[j]
    <3>1. CASE j < i
      <4>1. j \in 1..(n - 1)
        BY <1>1, <3>1
      <4>2. QED
        BY <2>2, <2>5, <3>1, <4>1
    <3>2. CASE j > i
      <4>1. j - 1 \in 1..(n - 1) /\ ~(j - 1 < i) /\ (j - 1) + 1 = j
        BY <1>1, <3>2
      <4>2. dir'[j - 1] = dir[j]
        BY <2>2, <4>1
      <4>3. QED
        BY <2>5, <4>1, <4>2
    <3>3. j < i \/ j > i
      BY <1>1, <2>6
    <3>4. QED
      BY <3>1, <3>2, <3>3
  <2>7. ASSUME NEW k \in 1..(n - 1)
        PROVE  (IF k < i THEN k ELSE k + 1) \in 1..n
    BY <1>1
  <2>8. ASSUME NEW j \in DOMAIN dir, Gone(j) PROVE j = i
    <3> SUFFICES ASSUME j # i PROVE FALSE
      OBVIOUS
    <3>1. PICK k \in DOMAIN dir' : dir'[k] = dir[j]
      BY <1>1, <2>6
    <3>2. dir[j].id \in DirIds'
      BY <3>1 DEF DirIds
    <3>3. QED
      BY <2>8, <3>2 DEF Gone
  <2>9. DirIds' \subseteq DirIds
    BY <1>1, <2>2, <2>5, <2>7 DEF DirIds
  <2>10. OneFileEach'
    <3> SUFFICES ASSUME NEW k \in 1..(n - 1), NEW l \in 1..(n - 1),
                        dir'[k].id = dir'[l].id
                 PROVE  k = l
      BY <2>5 DEF OneFileEach
    <3> DEFINE p == IF k < i THEN k ELSE k + 1
               q == IF l < i THEN l ELSE l + 1
    <3>1. p \in 1..n /\ q \in 1..n /\ dir'[k] = dir[p] /\ dir'[l] = dir[q]
      BY <2>2, <2>7
    <3>2. p = q
      BY <1>1, <3>1 DEF OneFileEach
    <3>3. QED
      BY <1>1, <3>2
  <2>11. ASSUME ~stepped, stepped' = stepped PROVE NamedByAge'
    <3>1. Len(age) = n /\ \A k \in 1..n : age[k] = dir[k].id
      BY <1>1, <2>11 DEF NamedByAge, n
    <3>2. DOMAIN age = 1..n
      BY <1>1, <3>1, LenProperties
    <3>3. \A k \in DOMAIN age : age[k] = age[i] => k = i
      BY <1>1, <3>1, <3>2 DEF OneFileEach
    <3>4. age' = RemoveAt(age, i)
      BY <1>1, <2>1, <3>1, <3>2, <3>3, ForgetIs
    <3>5. /\ Len(age') = n - 1
          /\ \A k \in 1..(n - 1) : age'[k] = age[IF k < i THEN k ELSE k + 1]
      BY <1>1, <3>1, <3>2, <3>4, RemoveAtProperties
    <3>6. ASSUME NEW k \in 1..(n - 1) PROVE age'[k] = dir'[k].id
      BY <2>2, <2>7, <3>1, <3>5
    <3>7. QED
      BY <2>2, <2>5, <3>5, <3>6 DEF NamedByAge
  <2>12. stepped' = stepped => NamedByAge'
    BY <2>11 DEF NamedByAge
  <2>13. QED
    BY <1>3, <2>2, <2>3, <2>4, <2>8, <2>9, <2>10, <2>12 DEF n
<1>4. QED
  BY <1>2, <1>3

-----------------------------------------------------------------------------
(* The inductive invariant *)

\* The batch in hand is a file of one of the batches.
LEMMA HeldType ==
  ASSUME TypeOK, pc \notin {"idle", "drain"}
  PROVE  Batch \in File /\ Batch.id \in Ids
<1>1. cur \in Seq(File) /\ Len(cur) = 1
  BY DEF TypeOK
<1>2. Batch \in File
  BY <1>1, ElementOfSeq DEF Batch
<1>3. QED
  BY <1>2 DEF File

\* Storing the batch in hand: one file more, of a batch that had none.
LEMMA CommitProperties ==
  ASSUME IInv, Commit
  PROVE  /\ dir' \in Seq(File) /\ age' \in Seq(Ids)
         /\ Len(dir') = Len(dir) + 1 /\ Bytes(dir') = Bytes(dir) + Batch.len
         /\ \A j \in DOMAIN dir : ~Gone(j)
         /\ OneFileEach' /\ NamedByAge'
<1> DEFINE n == Len(dir)
<1>1. PICK i \in 1..(n + 1) : (stepped \/ i = n + 1) /\ dir' = InsertAt(dir, i, Batch)
  BY DEF Commit
<1>2. /\ Batch \in File /\ Batch.id \in Ids /\ dir \in Seq(File) /\ age \in Seq(Ids)
      /\ n \in Nat /\ DOMAIN dir = 1..n
  BY HeldType, LenProperties DEF Commit, IInv, TypeOK
<1> HIDE DEF n
<1>3. /\ dir' \in Seq(File) /\ Len(dir') = n + 1
      /\ \A k \in 1..(n + 1) :
           dir'[k] = IF k = i THEN Batch ELSE dir[IF k < i THEN k ELSE k - 1]
  <2>1. i \in 1..(Len(dir) + 1) /\ n = Len(dir)
    BY DEF n
  <2>2. /\ InsertAt(dir, i, Batch) \in Seq(File)
        /\ Len(InsertAt(dir, i, Batch)) = n + 1
    BY <1>2, <2>1, InsertAtProperties
  <2>3. ASSUME NEW k \in 1..(n + 1)
        PROVE  InsertAt(dir, i, Batch)[k] =
                 IF k = i THEN Batch ELSE dir[IF k < i THEN k ELSE k - 1]
    BY <1>2, <2>1, InsertAtProperties
  <2>4. QED
    BY <1>1, <2>2, <2>3, Zenon
<1>4. Bytes(dir') = Bytes(dir) + Batch.len
  BY <1>1, <1>2, BytesInserted DEF n
<1>5. age' = Append(age, Batch.id) /\ stepped' = stepped
  BY DEF Commit, env
<1>6. age' \in Seq(Ids) /\ Len(age') = Len(age) + 1 /\ age'[Len(age) + 1] = Batch.id
      /\ \A k \in 1..Len(age) : age'[k] = age[k]
  BY <1>2, <1>5, AppendProperties
<1>7. DOMAIN dir' = 1..(n + 1)
  BY <1>3, LenProperties
<1>8. \A k \in 1..n : dir[k].id # Batch.id
  BY <1>2 DEF IInv, HeldIsNew, Commit, DirIds
<1>9. ASSUME NEW j \in DOMAIN dir PROVE ~Gone(j)
  <2>1. PICK k \in 1..(n + 1) : dir'[k] = dir[j]
    <3>1. CASE j < i
      <4>1. j \in 1..(n + 1) /\ j # i
        BY <1>2, <3>1
      <4>2. QED
        BY <1>3, <3>1, <4>1
    <3>2. CASE ~(j < i)
      <4>1. j + 1 \in 1..(n + 1) /\ j + 1 # i /\ ~(j + 1 < i) /\ (j + 1) - 1 = j
        BY <1>1, <1>2, <3>2
      <4>2. dir'[j + 1] = dir[j]
        BY <1>3, <4>1
      <4>3. QED
        BY <4>1, <4>2
    <3>3. QED
      BY <3>1, <3>2
  <2>2. QED
    BY <1>7, <2>1 DEF Gone, DirIds
<1>10. ASSUME NEW k \in 1..(n + 1), k # i
       PROVE  (IF k < i THEN k ELSE k - 1) \in 1..n
  BY <1>1, <1>2, <1>10
<1>11. OneFileEach'
  <2> SUFFICES ASSUME NEW k \in 1..(n + 1), NEW l \in 1..(n + 1), dir'[k].id = dir'[l].id
               PROVE  k = l
    BY <1>7 DEF OneFileEach
  <2> DEFINE p == IF k < i THEN k ELSE k - 1
             q == IF l < i THEN l ELSE l - 1
  <2>1. CASE k # i /\ l # i
    <3>1. p \in 1..n /\ q \in 1..n /\ dir'[k] = dir[p] /\ dir'[l] = dir[q]
      BY <1>3, <1>10, <2>1
    <3>2. p = q
      BY <1>2, <3>1 DEF IInv, OneFileEach
    <3>3. QED
      BY <1>1, <1>2, <2>1, <3>2
  <2>2. CASE k = i /\ l # i
    <3>1. q \in 1..n /\ dir'[k] = Batch /\ dir'[l] = dir[q]
      BY <1>3, <1>10, <2>2
    <3>2. QED
      BY <1>8, <3>1
  <2>3. CASE k # i /\ l = i
    <3>1. p \in 1..n /\ dir'[k] = dir[p] /\ dir'[l] = Batch
      BY <1>3, <1>10, <2>3
    <3>2. QED
      BY <1>8, <3>1
  <2>4. QED
    BY <2>1, <2>2, <2>3
<1>12. ASSUME ~stepped
       PROVE  Len(age') = n + 1 /\ \A k \in 1..(n + 1) : age'[k] = dir'[k].id
  <2>1. Len(age) = n /\ \A k \in 1..n : age[k] = dir[k].id
    BY <1>2, <1>12 DEF IInv, NamedByAge, n
  <2>2. i = n + 1
    BY <1>1, <1>12
  <2>3. ASSUME NEW k \in 1..n PROVE age'[k] = dir'[k].id
    <3>1. k \in 1..(n + 1) /\ k # n + 1 /\ k < n + 1
      BY <1>2
    <3>2. QED
      BY <1>3, <1>6, <2>1, <2>2, <3>1
  <2>4. age'[n + 1] = dir'[n + 1].id
    BY <1>1, <1>3, <1>6, <2>1, <2>2
  <2>5. 1..(n + 1) = 1..n \cup {n + 1}
    BY <1>2
  <2>6. QED
    BY <1>6, <2>1, <2>3, <2>4, <2>5
<1>13. NamedByAge'
  BY <1>3, <1>5, <1>7, <1>12 DEF NamedByAge
<1>14. QED
  BY <1>3, <1>4, <1>6, <1>9, <1>11, <1>13 DEF n

\* Bit rot changes neither the batches, nor their order, nor their lengths.
LEMMA RotProperties ==
  ASSUME IInv, Rot
  PROVE  /\ dir' \in Seq(File) /\ Len(dir') = Len(dir) /\ DOMAIN dir' = DOMAIN dir
         /\ \A j \in DOMAIN dir : dir'[j].id = dir[j].id
         /\ Bytes(dir') = Bytes(dir) /\ DirIds' = DirIds
         /\ OneFileEach' /\ NamedByAge'
<1>1. PICK i \in DOMAIN dir : dir' = [dir EXCEPT ![i].good = FALSE]
  BY DEF Rot
<1>2. /\ dir \in Seq(File) /\ DOMAIN dir = 1..Len(dir)
      /\ \A j \in DOMAIN dir : dir[j] \in File
  BY LenProperties, ElementOfSeq DEF IInv, TypeOK
<1>3. [dir[i] EXCEPT !.good = FALSE] \in File
  BY <1>2 DEF File
<1>4. dir' \in Seq(File) /\ Len(dir') = Len(dir)
  BY <1>1, <1>2, <1>3, ExceptSeq
<1>5. DOMAIN dir' = DOMAIN dir
  BY <1>1
<1>6. \A j \in DOMAIN dir : dir'[j].id = dir[j].id /\ dir'[j].len = dir[j].len
  BY <1>1, <1>2 DEF File
<1>7. Bytes(dir') = Bytes(dir)
  BY <1>2, <1>4, <1>6, BytesSame
<1>8. DirIds' = DirIds
  BY <1>5, <1>6 DEF DirIds
<1>9. OneFileEach'
  BY <1>5, <1>6 DEF IInv, OneFileEach
<1>10. age' = age /\ stepped' = stepped
  BY DEF Rot, env
<1>11. NamedByAge'
  BY <1>4, <1>5, <1>6, <1>10 DEF IInv, NamedByAge
<1>12. QED
  BY <1>4, <1>5, <1>6, <1>7, <1>8, <1>9, <1>11

\* The initial states satisfy the inductive invariant.
LEMMA InitIInv == Init => IInv
<1> SUFFICES ASSUME Init PROVE IInv
  OBVIOUS
<1>1. <<>> \in Seq(File) /\ <<>> \in Seq(Ids) /\ Len(<<>>) = 0
  BY EmptySeq
<1>2. TypeOK
  <2>1. /\ online \in BOOLEAN /\ readonly \in BOOLEAN
        /\ lowDisk \in BOOLEAN /\ stepped \in BOOLEAN /\ calm \in BOOLEAN
    BY Zenon DEF Init
  <2>2. /\ dir \in Seq(File) /\ cur \in Seq(File) /\ age \in Seq(Ids)
        /\ Len(cur) = 0 /\ pc = "idle"
    BY <1>1, Zenon DEF Init
  <2>3. tries \in 0..MaxFiles /\ accepted \subseteq Ids
    BY MaxFilesAssumption DEF Init
  <2>4. QED
    BY <2>1, <2>2, <2>3 DEF TypeOK, PCs
<1>3. WithinCaps
  BY <1>1, MaxFilesAssumption, MaxBytesAssumption, BytesEmpty
     DEF Init, WithinCaps, FileCap, ByteCap
<1>4. RoomMade /\ HeldIsFirst /\ HeldIsNew
  BY DEF Init, RoomMade, HeldIsFirst, HeldIsNew
<1>5. OneFileEach /\ NamedByAge
  BY <1>1 DEF Init, OneFileEach, NamedByAge
<1>6. QED
  BY <1>2, <1>3, <1>4, <1>5 DEF IInv

\* Every step is well typed, and the batch replayed stays the first.
LEMMA NextTyped ==
  ASSUME IInv, [Next]_vars
  PROVE  TypeOK' /\ HeldIsFirst'
<1> USE MaxFilesAssumption DEF IInv, HeldIsFirst, disk, env, Batch, Acceptable
<1>1. CASE Tick
  BY <1>1 DEF Tick, TypeOK, PCs, File, Tiers
<1>2. CASE SendOk
  BY <1>2 DEF SendOk, TypeOK, PCs
<1>3. CASE SendErr
  BY <1>3, HeldType DEF SendErr, AnswerLost, TypeOK, PCs
<1>4. CASE Evict
  BY <1>4, UnlinkProperties DEF Evict, TypeOK, PCs
<1>5. CASE LetThrough
  BY <1>5 DEF LetThrough, TypeOK, PCs
<1>6. CASE WriteTmp
  BY <1>6 DEF WriteTmp, TypeOK, PCs
<1>7. CASE StoreFails
  BY <1>7 DEF StoreFails, TypeOK, PCs
<1>8. CASE Commit
  <2>1. dir' \in Seq(File) /\ age' \in Seq(Ids)
    BY <1>8, CommitProperties
  <2>2. QED
    BY <1>8, <2>1 DEF Commit, TypeOK, PCs
<1>9. CASE Take
  BY <1>9 DEF Take, TypeOK, PCs
<1>10. CASE Quarantine
  BY <1>10, UnlinkProperties DEF Quarantine, TypeOK, PCs
<1>11. CASE DrainEnd \/ ReadFails
  BY <1>11 DEF DrainEnd, ReadFails, TypeOK, PCs
<1>12. CASE ReplayOk
  BY <1>12, HeldType DEF ReplayOk, TypeOK, PCs
<1>13. CASE ReplayErr
  BY <1>13, HeldType DEF ReplayErr, AnswerLost, TypeOK, PCs
<1>14. CASE Ack
  BY <1>14, UnlinkProperties DEF Ack, TypeOK, PCs
<1>15. CASE Crash
  BY <1>15 DEF Crash, TypeOK, PCs
<1>16. CASE Rot
  <2>1. /\ dir' \in Seq(File)
        /\ dir # <<>> => dir' # <<>> /\ dir'[1].id = dir[1].id
    BY <1>16, RotProperties, LenProperties, EmptySeq DEF TypeOK
  <2>2. TypeOK'
    BY <1>16, <2>1 DEF Rot, TypeOK, PCs
  <2>3. QED
    BY <1>16, <2>1, <2>2 DEF Rot
<1>17. CASE Network \/ DiskSpace \/ Remount \/ ClockBack \/ Settle
  <2>1. /\ online' \in BOOLEAN /\ readonly' \in BOOLEAN
        /\ lowDisk' \in BOOLEAN /\ stepped' \in BOOLEAN /\ calm' \in BOOLEAN
    BY <1>17, Zenon DEF Network, DiskSpace, Remount, ClockBack, Settle, TypeOK
  <2>2. UNCHANGED <<dir, age, pc, cur, tries, accepted>>
    BY <1>17 DEF Network, DiskSpace, Remount, ClockBack, Settle
  <2>3. QED
    BY <2>1, <2>2 DEF TypeOK
<1>18. CASE UNCHANGED vars
  BY <1>18 DEF vars, TypeOK, PCs
<1>19. QED
  BY <1>1, <1>2, <1>3, <1>4, <1>5, <1>6, <1>7, <1>8, <1>9, <1>10, <1>11,
     <1>12, <1>13, <1>14, <1>15, <1>16, <1>17, <1>18 DEF Next, Loop, World

\* There is room for the batch in hand once enforce_limits is done, by files and by bytes.
LEMMA NextCaps ==
  ASSUME IInv, [Next]_vars
  PROVE  WithinCaps' /\ RoomMade'
<1> USE MaxFilesAssumption, MaxBytesAssumption
        DEF WithinCaps, FileCap, ByteCap, RoomMade, disk, env
<1>1. /\ dir \in Seq(File) /\ Bytes(dir) \in Int /\ Len(dir) \in Nat
      /\ tries \in 0..MaxFiles
      /\ Len(dir) <= MaxFiles /\ Bytes(dir) <= MaxBytes
      /\ pc = "enforce" /\ ~readonly => Len(dir) <= MaxFiles - tries
      /\ pc \in {"write", "commit"} /\ ~readonly =>
           Len(dir) < MaxFiles /\ Bytes(dir) + Batch.len <= MaxBytes
      /\ pc = "commit" => ~readonly
  BY BytesType, LenProperties DEF IInv, TypeOK
<1>2. CASE Evict
  <2>1. PICK i \in DOMAIN dir : Unlink(i)
    BY <1>2 DEF Evict
  <2>2. /\ Len(dir') = (IF readonly THEN Len(dir) ELSE Len(dir) - 1)
        /\ Bytes(dir') \in Int /\ Bytes(dir') <= Bytes(dir)
    BY <2>1, UnlinkProperties DEF IInv
  <2>3. pc = "enforce" /\ pc' = "enforce" /\ tries' = tries + 1 /\ readonly' = readonly
    BY <1>2 DEF Evict
  <2>4. QED
    BY <1>1, <2>2, <2>3
<1>3. CASE Quarantine \/ Ack
  <2>1. PICK i \in DOMAIN dir : Unlink(i)
    <3>1. dir # <<>> => 1 \in DOMAIN dir
      BY <1>1, LenProperties, EmptySeq
    <3>2. QED
      BY <1>3, <3>1 DEF Quarantine, Ack, IInv, HeldIsFirst
  <2>2. /\ Len(dir') = (IF readonly THEN Len(dir) ELSE Len(dir) - 1)
        /\ Bytes(dir') \in Int /\ Bytes(dir') <= Bytes(dir)
    BY <2>1, UnlinkProperties DEF IInv
  <2>3. pc' = "drain"
    BY <1>3 DEF Quarantine, Ack
  <2>4. QED
    BY <1>1, <2>2, <2>3
<1>4. CASE Commit
  <2>1. Len(dir') = Len(dir) + 1 /\ Bytes(dir') = Bytes(dir) + Batch.len
    BY <1>4, CommitProperties
  <2>2. pc = "commit" /\ pc' = "idle"
    BY <1>4 DEF Commit
  <2>3. QED
    BY <1>1, <2>1, <2>2
<1>5. CASE Rot
  <2>1. Len(dir') = Len(dir) /\ Bytes(dir') = Bytes(dir)
    BY <1>5, RotProperties
  <2>2. UNCHANGED <<pc, cur, tries, readonly>>
    BY <1>5 DEF Rot
  <2>3. QED
    BY <1>1, <2>1, <2>2 DEF Batch
<1>6. CASE LetThrough
  <2>1. UNCHANGED <<dir, cur, readonly>> /\ pc = "enforce" /\ pc' = "write"
    BY <1>6 DEF LetThrough
  <2>2. Batch.len \in 1..MaxBytes
    <3>1. Batch \in File
      BY <2>1, HeldType DEF IInv
    <3>2. Batch.len \in Lens
      BY <3>1 DEF File
    <3>3. QED
      BY <3>2, LensAssumption, Zenon
  <2>3. ASSUME ~readonly PROVE Len(dir) < MaxFiles /\ Bytes(dir) + Batch.len <= MaxBytes
    <3>1. CASE ~OverLimits
      BY <1>1, <2>2, <3>1 DEF OverLimits
    <3>2. CASE dir = <<>>
      BY <2>2, <3>2, BytesEmpty, EmptySeq
    <3>3. CASE tries = MaxFiles
      <4>1. dir = <<>>
        BY <1>1, <2>1, <2>3, <3>3, EmptySeq
      <4>2. QED
        BY <2>2, <4>1, BytesEmpty, EmptySeq
    <3>4. QED
      BY <1>6, <3>1, <3>2, <3>3 DEF LetThrough
  <2>4. QED
    BY <1>1, <2>1, <2>3 DEF Batch
<1>7. CASE SendErr
  BY <1>1, <1>7 DEF SendErr
<1>8. CASE WriteTmp
  BY <1>1, <1>8 DEF WriteTmp, Batch
<1>9. CASE pc' \in {"idle", "send", "drain", "replay", "ack"} /\ UNCHANGED dir
  BY <1>1, <1>9
<1>10. CASE /\ UNCHANGED <<dir, pc, cur, tries>>
            /\ readonly' # readonly => pc \notin {"enforce", "write", "commit"}
  BY <1>1, <1>10 DEF Batch
<1>11. QED
  BY <1>2, <1>3, <1>4, <1>5, <1>6, <1>7, <1>8, <1>9, <1>10
     DEF Next, Loop, World, Tick, SendOk, StoreFails, Take, DrainEnd, ReplayOk, ReplayErr,
         ReadFails, Crash, Network, DiskSpace, Remount, ClockBack, Settle, vars

\* Batches keep their one file, and their order while the clock runs forward.
LEMMA NextNamed ==
  ASSUME IInv, [Next]_vars
  PROVE  HeldIsNew' /\ OneFileEach' /\ NamedByAge'
<1> USE DEF disk, env
<1>1. CASE Evict
  <2>1. PICK i \in DOMAIN dir : Unlink(i)
    BY <1>1 DEF Evict
  <2>2. DirIds' \subseteq DirIds /\ OneFileEach' /\ (stepped' = stepped => NamedByAge')
    BY <2>1, UnlinkProperties DEF IInv
  <2>3. UNCHANGED <<pc, cur, stepped>>
    BY <1>1 DEF Evict
  <2>4. QED
    BY <2>2, <2>3 DEF IInv, HeldIsNew, Batch
<1>2. CASE Quarantine \/ Ack
  <2>1. PICK i \in DOMAIN dir : Unlink(i)
    <3>1. dir # <<>> => 1 \in DOMAIN dir
      BY LenProperties, EmptySeq DEF IInv, TypeOK
    <3>2. QED
      BY <1>2, <3>1 DEF Quarantine, Ack, IInv, HeldIsFirst
  <2>2. OneFileEach' /\ (stepped' = stepped => NamedByAge')
    BY <2>1, UnlinkProperties DEF IInv
  <2>3. pc' = "drain" /\ stepped' = stepped
    BY <1>2 DEF Quarantine, Ack
  <2>4. QED
    BY <2>2, <2>3 DEF HeldIsNew
<1>3. CASE Commit
  <2>1. OneFileEach' /\ NamedByAge'
    BY <1>3, CommitProperties
  <2>2. pc' = "idle"
    BY <1>3 DEF Commit
  <2>3. QED
    BY <2>1, <2>2 DEF HeldIsNew
<1>4. CASE Rot
  <2>1. DirIds' = DirIds /\ OneFileEach' /\ NamedByAge'
    BY <1>4, RotProperties
  <2>2. UNCHANGED <<pc, cur>>
    BY <1>4 DEF Rot
  <2>3. QED
    BY <2>1, <2>2 DEF IInv, HeldIsNew, Batch
<1>5. ASSUME UNCHANGED <<dir, age>>, stepped => stepped'
      PROVE  OneFileEach' /\ NamedByAge' /\ DirIds' = DirIds
  BY <1>5 DEF IInv, OneFileEach, NamedByAge, DirIds
<1>6. CASE Tick
  BY <1>5, <1>6 DEF Tick, HeldIsNew, Batch
<1>7. CASE SendErr \/ LetThrough \/ WriteTmp
  BY <1>5, <1>7 DEF SendErr, LetThrough, WriteTmp, IInv, HeldIsNew, Batch
<1>8. CASE \/ SendOk \/ StoreFails \/ Take \/ DrainEnd
           \/ ReplayOk \/ ReplayErr \/ ReadFails \/ Crash
  BY <1>5, <1>8
     DEF SendOk, StoreFails, Take, DrainEnd, ReplayOk, ReplayErr, ReadFails, Crash,
         HeldIsNew
<1>9. CASE Network \/ DiskSpace \/ Remount \/ ClockBack \/ Settle \/ UNCHANGED vars
  <2>1. UNCHANGED <<dir, age, pc, cur>> /\ (stepped => stepped')
    BY <1>9 DEF Network, DiskSpace, Remount, ClockBack, Settle, vars
  <2>2. QED
    BY <1>5, <2>1 DEF IInv, HeldIsNew, Batch
<1>10. QED
  BY <1>1, <1>2, <1>3, <1>4, <1>6, <1>7, <1>8, <1>9 DEF Next, Loop, World

\* The inductive invariant holds in every reachable state.
THEOREM Invariance == Spec => []IInv
<1>1. Init => IInv
  BY InitIInv
<1>2. IInv /\ [Next]_vars => IInv'
  BY NextTyped, NextCaps, NextNamed DEF IInv
<1>3. QED
  BY <1>1, <1>2, PTL DEF Spec

\* Every state of the spool and of its loop is well typed.
THEOREM TypeCorrect == Spec => []TypeOK
<1>1. IInv => TypeOK
  BY DEF IInv
<1>2. QED
  BY <1>1, Invariance, PTL

\* "the disk can't be filled": the spool never holds more than MaxFiles files or more
\* than MaxBytes bytes, however sends, evictions, removals and crashes interleave.
THEOREM WithinCapsHolds == Spec => []WithinCaps
<1>1. IInv => WithinCaps
  BY DEF IInv
<1>2. QED
  BY <1>1, Invariance, PTL

-----------------------------------------------------------------------------
(* What can leave the directory *)

\* Only three operations make a batch leave the directory.
LEMMA OnlyRemovals ==
  ASSUME IInv, [Next]_vars, NEW i \in DOMAIN dir, Gone(i)
  PROVE  /\ Evict \/ Quarantine \/ Ack
         /\ pc = "enforce" => Evict
<1> USE DEF Gone, DirIds
<1>1. (dir' = dir) => FALSE
  OBVIOUS
<1>2. ~Commit
  BY CommitProperties
<1>3. ~Rot
  BY RotProperties
<1>4. ~(Tick \/ SendOk \/ SendErr \/ LetThrough \/ WriteTmp \/ StoreFails
        \/ Take \/ DrainEnd \/ ReplayOk \/ ReplayErr)
  BY <1>1 DEF Tick, SendOk, SendErr, LetThrough, WriteTmp, StoreFails, Take,
              DrainEnd, ReplayOk, ReplayErr, disk
<1>5. ~(ReadFails \/ Crash \/ Network \/ DiskSpace \/ Remount \/ ClockBack \/ Settle)
  BY <1>1 DEF ReadFails, Crash, Network, DiskSpace, Remount, ClockBack, Settle, disk
<1>6. ~UNCHANGED vars
  BY <1>1 DEF vars
<1>7. Evict \/ Quarantine \/ Ack
  BY <1>2, <1>3, <1>4, <1>5, <1>6 DEF Next, Loop, World
<1>8. QED
  BY <1>7 DEF Quarantine, Ack

\* Eviction takes a critical batch only when no bulk batch is left.
THEOREM ShedBulkFirstHolds == Spec => ShedBulkFirst
<1> DEFINE A == pc = "enforce" =>
                  \A i \in DOMAIN dir : Gone(i) /\ dir[i].tier = "c" =>
                    \A j \in DOMAIN dir : dir[j].tier = "c"
<1>1. IInv /\ [Next]_vars => [A]_vars
  <2> SUFFICES ASSUME IInv, [Next]_vars, pc = "enforce",
                      NEW i \in DOMAIN dir, Gone(i), dir[i].tier = "c",
                      NEW j \in DOMAIN dir
               PROVE  dir[j].tier = "c"
    OBVIOUS
  <2>1. Evict
    BY OnlyRemovals
  <2>2. PICK v \in DOMAIN dir : Victim(v) /\ Unlink(v)
    BY <2>1 DEF Evict
  <2>3. v = i
    BY <2>2, UnlinkProperties DEF IInv
  <2>4. dir[j].tier # "b"
    BY <2>2, <2>3 DEF Victim
  <2>5. dir[j].tier \in Tiers
    <3>1. dir[j] \in File
      BY LenProperties, ElementOfSeq DEF IInv, TypeOK
    <3>2. QED
      BY <3>1 DEF File
  <2>6. QED
    BY <2>4, <2>5 DEF Tiers
<1>2. QED
  BY <1>1, Invariance, PTL DEF Spec, ShedBulkFirst

\* A stored batch leaves the directory only by eviction, by corruption, or
\* because the server has it.
THEOREM LeavesForCauseHolds == Spec => LeavesForCause
<1> DEFINE A == \A i \in DOMAIN dir : Gone(i) =>
                  \/ pc = "enforce" /\ OverLimits
                  \/ ~dir[i].good
                  \/ dir[i].id \in accepted
<1>1. IInv /\ [Next]_vars => [A]_vars
  <2> SUFFICES ASSUME IInv, [Next]_vars, NEW i \in DOMAIN dir, Gone(i)
               PROVE  \/ pc = "enforce" /\ OverLimits
                      \/ ~dir[i].good
                      \/ dir[i].id \in accepted
    OBVIOUS
  <2>1. CASE Evict
    BY <2>1 DEF Evict
  <2>2. ASSUME Unlink(1), dir # <<>>
        PROVE  i = 1
    <3>1. 1 \in DOMAIN dir
      BY <2>2, LenProperties, EmptySeq DEF IInv, TypeOK
    <3>2. QED
      BY <2>2, <3>1, UnlinkProperties DEF IInv
  <2>3. CASE Quarantine
    BY <2>2, <2>3 DEF Quarantine
  <2>4. CASE Ack
    BY <2>2, <2>4 DEF Ack, IInv, HeldIsFirst
  <2>5. QED
    BY <2>1, <2>3, <2>4, OnlyRemovals
<1>2. QED
  BY <1>1, Invariance, PTL DEF Spec, LeavesForCause

-----------------------------------------------------------------------------
(* The order of replay *)

\* While the clock runs forward, drain_spool replays the oldest batch that decodes.
THEOREM ReplayOldestFirstHolds == Spec => ReplayOldestFirst
<1> DEFINE A == pc = "drain" /\ pc' = "replay" /\ ~stepped =>
                  Decodable(Batch'.id) /\ Oldest(Batch'.id)
<1>1. IInv /\ [Next]_vars => [A]_vars
  <2> SUFFICES ASSUME IInv, [Next]_vars, pc = "drain", pc' = "replay", ~stepped
               PROVE  Decodable(Batch'.id) /\ Oldest(Batch'.id)
    BY Zenon
  <2>1. Take
    BY DEF Next, Loop, World, Tick, SendOk, SendErr, Evict, LetThrough, WriteTmp,
       StoreFails, Commit, Quarantine, DrainEnd, ReplayOk, ReplayErr, Ack, ReadFails,
       Crash, Rot, Network, DiskSpace, Remount, ClockBack, Settle, vars
  <2>2. dir \in Seq(File) /\ dir # <<>> /\ Len(dir) \in Nat
    BY <2>1, LenProperties DEF Take, IInv, TypeOK
  <2>3. 1 \in DOMAIN dir /\ Head(dir) = dir[1]
    BY <2>2, EmptySeq, LenProperties
  <2>4. Batch'.id = dir[1].id /\ dir[1].good
    BY <2>1, <2>3 DEF Take, Batch
  <2>5. 1 \in DOMAIN age /\ age[1] = dir[1].id
    <3>1. Len(age) = Len(dir) /\ age[1] = dir[1].id /\ age \in Seq(Ids)
      BY <2>3 DEF IInv, NamedByAge, TypeOK
    <3>2. 1 \in 1..Len(dir)
      BY <2>2, <2>3, LenProperties
    <3>3. QED
      BY <3>1, <3>2, LenProperties
  <2>6. \A j \in 1..(1 - 1) : ~Decodable(age[j])
    OBVIOUS
  <2>7. QED
    BY <2>3, <2>4, <2>5, <2>6 DEF Decodable, Oldest
<1>2. QED
  BY <1>1, Invariance, PTL DEF Spec, ReplayOldestFirst
=============================================================================
