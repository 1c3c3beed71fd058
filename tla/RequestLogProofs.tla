-------------------------- MODULE RequestLogProofs --------------------------
(***************************************************************************)
(* Proofs about RequestLog, for every limit, ring, file and set of sizes.  *)
(* Facts about sums and suffixes are proved by looking for the smallest    *)
(* counterexample.                                                         *)
(***************************************************************************)
EXTENDS RequestLog, SequenceTheorems, FiniteSetTheorems, WellFoundedInduction, TLAPS

\* A set of numbers has a smallest member.
LEMMA SmallestIn ==
    ASSUME NEW T \in SUBSET Nat, T # {}
    PROVE  Min(T) \in T /\ \A y \in T : Min(T) <= y
<1> DEFINE Less == {ss \in Nat \X Nat : ss[1] < ss[2]}
<1>1. IsWellFoundedOn(Less, Nat)
  BY NatLessThanWellFounded, Zenon DEF OpToRel
<1>2. PICK x \in T : \A y \in T : ~(<<y, x>> \in Less)
  <2> HIDE DEF Less
  <2> QED
    BY <1>1, WFMin
<1>3. ASSUME NEW y \in T PROVE x <= y
  <2>1. x \in Nat /\ y \in Nat /\ ~(<<y, x>> \in Less)
    BY <1>2
  <2>2. <<y, x>> \in Less <=> y < x
    <3>1. <<y, x>> \in Nat \X Nat /\ <<y, x>>[1] = y /\ <<y, x>>[2] = x
      BY <2>1
    <3> QED
      BY <3>1, Zenon DEF Less
  <2> HIDE DEF Less
  <2> QED
    BY <2>1, <2>2
<1> QED
  BY <1>3 DEF Min

-----------------------------------------------------------------------------
(* Lengths. *)

\* f is the length of every beginning of s.
SumsUp(s, f) ==
    /\ f \in [0..Len(s) -> Nat]
    /\ f[0] = 0
    /\ \A i \in 1..Len(s) : f[i] = f[i - 1] + s[i].size

\* Lines have a length.
LEMMA LineSizes ==
    ASSUME NEW s \in Seq(Line)
    PROVE  Len(s) \in Nat /\ \A i \in 1..Len(s) : s[i] \in Line /\ s[i].size \in Nat /\ s[i].id \in Nat
<1>1. Len(s) \in Nat /\ \A i \in 1..Len(s) : s[i] \in Line
  OBVIOUS
<1> QED
  BY <1>1 DEF Line

\* Every sequence of lines can be added up.
LEMMA SumExists ==
    ASSUME NEW s \in Seq(Line)
    PROVE  \E f : SumsUp(s, f)
<1> DEFINE Partial(n) == \E f \in [0..n -> Nat] : f[0] = 0 /\ \A i \in 1..n : f[i] = f[i - 1] + s[i].size
<1> DEFINE T == {n \in 0..Len(s) : ~Partial(n)}
<1>0. Len(s) \in Nat /\ \A i \in 1..Len(s) : s[i].size \in Nat
  BY LineSizes
<1>1. ASSUME T # {} PROVE FALSE
  <2>1. Min(T) \in T /\ \A y \in T : Min(T) <= y
    <3>1. T \in SUBSET Nat
      BY <1>0
    <3> HIDE DEF T
    <3> QED
      BY <1>1, <3>1, SmallestIn
  <2>2. PICK m \in 0..Len(s) : ~Partial(m) /\ \A y \in 0..Len(s) : ~Partial(y) => m <= y
    BY <2>1
  <2>3. m # 0
    <3> DEFINE z == [i \in 0..0 |-> 0]
    <3>1. z \in [0..0 -> Nat] /\ z[0] = 0 /\ \A i \in 1..0 : z[i] = z[i - 1] + s[i].size
      OBVIOUS
    <3>2. Partial(0)
      BY <3>1
    <3> QED
      BY <2>2, <3>2
  <2>4. m - 1 \in 0..Len(s) /\ m \in 1..Len(s) /\ m \in Nat
    BY <1>0, <2>2, <2>3
  <2>5. Partial(m - 1)
    <3> HIDE DEF Partial
    <3> QED
      BY <2>2, <2>4
  <2>6. PICK f \in [0..(m - 1) -> Nat] :
           f[0] = 0 /\ \A i \in 1..(m - 1) : f[i] = f[i - 1] + s[i].size
    BY <2>5
  <2> DEFINE g == [i \in 0..m |-> IF i = m THEN f[m - 1] + s[m].size ELSE f[i]]
  <2>7. g \in [0..m -> Nat] /\ g[0] = 0
    BY <1>0, <2>4, <2>6
  <2>8. ASSUME NEW i \in 1..m PROVE g[i] = g[i - 1] + s[i].size
    BY <1>0, <2>4, <2>6
  <2>9. Partial(m)
    BY <2>7, <2>8
  <2> QED
    BY <2>2, <2>9
<1>2. Partial(Len(s))
  BY <1>0, <1>1
<1> QED
  BY <1>2 DEF SumsUp

\* Bytes is what that comes to.
LEMMA BytesSum ==
    ASSUME NEW s \in Seq(Line), NEW f, SumsUp(s, f)
    PROVE  Bytes(s) = f[Len(s)]
<1> DEFINE Fix(h) == h = [i \in 0..Len(s) |-> IF i = 0 THEN 0 ELSE h[i - 1] + s[i].size]
<1>0. Len(s) \in Nat /\ \A i \in 1..Len(s) : s[i].size \in Nat
  BY LineSizes
<1>1. Bytes(s) = (CHOOSE h : Fix(h))[Len(s)]
  BY DEF Bytes
<1>2. Fix(f)
  <2>1. \A i \in 0..Len(s) : f[i] = IF i = 0 THEN 0 ELSE f[i - 1] + s[i].size
    BY <1>0 DEF SumsUp
  <2>2. f = [i \in 0..Len(s) |-> f[i]]
    BY DEF SumsUp
  <2> QED
    BY <2>1, <2>2
<1> DEFINE h == CHOOSE k : Fix(k)
<1>3. Fix(h)
  <2> HIDE DEF Fix
  <2> QED
    BY <1>2
<1> HIDE DEF h
<1>4. DOMAIN h = 0..Len(s) /\ h[0] = 0 /\ \A i \in 1..Len(s) : h[i] = h[i - 1] + s[i].size
  BY <1>0, <1>3
<1> DEFINE T == {i \in 0..Len(s) : h[i] # f[i]}
<1>5. ASSUME T # {} PROVE FALSE
  <2>1. Min(T) \in T /\ \A y \in T : Min(T) <= y
    <3>1. T \in SUBSET Nat
      BY <1>0
    <3> HIDE DEF T
    <3> QED
      BY <1>5, <3>1, SmallestIn
  <2>2. PICK m \in 0..Len(s) : h[m] # f[m] /\ \A y \in 0..Len(s) : h[y] # f[y] => m <= y
    BY <2>1
  <2>3. m # 0
    BY <1>4, <2>2 DEF SumsUp
  <2>4. m \in 1..Len(s) /\ m - 1 \in 0..Len(s) /\ m \in Nat
    BY <1>0, <2>2, <2>3
  <2>5. h[m - 1] = f[m - 1]
    BY <2>2, <2>4
  <2> QED
    BY <1>4, <2>2, <2>4, <2>5 DEF SumsUp
<1>6. h[Len(s)] = f[Len(s)]
  BY <1>0, <1>5
<1> QED
  BY <1>1, <1>6 DEF h

\* t is the part of s that begins behind p lines.
PartAt(t, s, p) == p + Len(t) <= Len(s) /\ \A i \in 1..Len(t) : t[i] = s[p + i]

\* g adds up n numbers as f does behind the first p.
AddsAlike(g, f, p, n) == \A i \in 0..n : g[i] = f[p + i] - f[p]

\* A part t of s, which begins behind p lines, adds up as it does within s.
LEMMA SumsOfPart ==
    ASSUME NEW s \in Seq(Line), NEW f, SumsUp(s, f), NEW t \in Seq(Line), NEW g, SumsUp(t, g),
           NEW p \in Nat, PartAt(t, s, p)
    PROVE  AddsAlike(g, f, p, Len(t))
<1> USE DEF PartAt, AddsAlike
<1> DEFINE T == {i \in 0..Len(t) : g[i] # f[p + i] - f[p]}
<1>0. Len(s) \in Nat /\ Len(t) \in Nat /\ \A i \in 1..Len(s) : s[i].size \in Nat
  BY LineSizes
<1>a. ASSUME NEW i \in 0..Len(t) PROVE g[i] \in Nat /\ f[p + i] \in Nat /\ f[p] \in Nat
  <2>1. p + i \in 0..Len(s) /\ p \in 0..Len(s)
    BY <1>0
  <2> QED
    BY <2>1 DEF SumsUp
<1>1. ASSUME T # {} PROVE FALSE
  <2>1. Min(T) \in T /\ \A y \in T : Min(T) <= y
    <3>1. T \in SUBSET Nat
      BY <1>0
    <3> HIDE DEF T
    <3> QED
      BY <1>1, <3>1, SmallestIn
  <2>2. PICK m \in 0..Len(t) : /\ g[m] # f[p + m] - f[p]
                              /\ \A y \in 0..Len(t) : g[y] # f[p + y] - f[p] => m <= y
    BY <2>1
  <2>3. m # 0
    <3>1. p + 0 = p /\ f[p] - f[p] = 0 /\ g[0] = 0
      BY <1>0, <1>a DEF SumsUp
    <3> QED
      BY <2>2, <3>1
  <2>4. /\ m \in 1..Len(t) /\ m - 1 \in 0..Len(t) /\ p + m \in 1..Len(s)
        /\ p + (m - 1) = (p + m) - 1 /\ ~(m <= m - 1)
    BY <1>0, <2>2, <2>3
  <2>5. g[m - 1] = f[p + (m - 1)] - f[p]
    BY <2>2, <2>4
  <2>6. /\ g[m] = g[m - 1] + t[m].size /\ t[m] = s[p + m]
        /\ f[p + m] = f[(p + m) - 1] + s[p + m].size
    BY <2>4 DEF SumsUp
  <2>7. /\ g[m - 1] \in Nat /\ f[p + (m - 1)] \in Nat /\ f[p] \in Nat /\ s[p + m].size \in Nat
    BY <1>0, <1>a, <2>4
  <2>8. f[(p + m) - 1] = f[p + (m - 1)]
    BY <2>4
  <2>9. g[m] = f[p + m] - f[p]
    <3>1. g[m] = g[m - 1] + s[p + m].size /\ f[p + m] = f[p + (m - 1)] + s[p + m].size
      BY <2>6, <2>8
    <3>2. PICK v \in Nat, w \in Nat, x \in Nat, y \in Nat :
             v = g[m - 1] /\ w = f[p + (m - 1)] /\ x = f[p] /\ y = s[p + m].size
      BY <2>7, Zenon
    <3>3. g[m] = v + y /\ f[p + m] = w + y /\ v = w - x
      BY <2>5, <3>1, <3>2, Zenon
    <3>4. v + y = (w + y) - x
      BY <3>3
    <3> QED
      BY <3>2, <3>3, <3>4, Zenon
  <2> QED
    BY <2>2, <2>9
<1> QED
  BY <1>1

\* A file has a length, and it starts with none.
LEMMA BytesType ==
    ASSUME NEW s \in Seq(Line)
    PROVE  Bytes(s) \in Nat /\ (s = << >> => Bytes(s) = 0)
<1>1. PICK f : SumsUp(s, f)
  BY SumExists
<1>2. Bytes(s) = f[Len(s)]
  BY <1>1, BytesSum
<1> QED
  BY <1>1, <1>2, LineSizes DEF SumsUp

\* A new line makes it longer by the line's length.
LEMMA BytesAppend ==
    ASSUME NEW s \in Seq(Line), NEW e \in Line
    PROVE  Append(s, e) \in Seq(Line) /\ Bytes(Append(s, e)) = Bytes(s) + e.size
<1> DEFINE t == Append(s, e)
<1>0. /\ t \in Seq(Line) /\ Len(t) = Len(s) + 1 /\ t[Len(s) + 1] = e
      /\ \A i \in 1..Len(s) : t[i] = s[i]
  BY AppendProperties
<1>a. Len(s) \in Nat /\ e.size \in Nat
  BY DEF Line
<1> HIDE DEF t
<1>1. PICK f : SumsUp(s, f)
  BY SumExists
<1>2. PICK g : SumsUp(t, g)
  BY <1>0, SumExists
<1>3. Bytes(s) = f[Len(s)] /\ Bytes(t) = g[Len(s) + 1]
  BY <1>0, <1>1, <1>2, BytesSum
<1>4. /\ Len(s) \in 0..Len(s) /\ 0 + Len(s) = Len(s) /\ 0 + Len(s) <= Len(t)
      /\ \A i \in 1..Len(s) : s[i] = t[0 + i]
  BY <1>0, <1>a
<1>5. f[Len(s)] = g[0 + Len(s)] - g[0]
  <2>1. PartAt(s, t, 0)
    BY <1>0, <1>4 DEF PartAt
  <2>2. AddsAlike(f, g, 0, Len(s))
    BY <1>0, <1>1, <1>2, <2>1, SumsOfPart
  <2> QED
    BY <1>4, <2>2 DEF AddsAlike
<1>6. g[Len(s) + 1] = g[Len(s)] + e.size /\ g[0] = 0 /\ g[Len(s)] \in Nat
  <2>1. Len(s) + 1 \in 1..Len(t) /\ (Len(s) + 1) - 1 = Len(s) /\ Len(s) \in 0..Len(t)
    BY <1>0, <1>a
  <2> QED
    BY <1>0, <1>2, <2>1 DEF SumsUp
<1> QED
  BY <1>0, <1>a, <1>3, <1>4, <1>5, <1>6 DEF t

\* What is left from line k on.
LEMMA NewerIs ==
    ASSUME NEW S, NEW s \in Seq(S), NEW k \in 1..(Len(s) + 1)
    PROVE  /\ Newer(s, k) \in Seq(S) /\ Len(Newer(s, k)) = Len(s) - k + 1
           /\ \A i \in 1..(Len(s) - k + 1) : Newer(s, k)[i] = s[k + i - 1]
<1>1. Len(s) \in Nat /\ k \in Nat /\ k >= 1 /\ \A j \in k..Len(s) : s[j] \in S
  OBVIOUS
<1>2. /\ SubSeq(s, k, Len(s)) \in Seq(S)
      /\ Len(SubSeq(s, k, Len(s))) = IF k <= Len(s) THEN Len(s) - k + 1 ELSE 0
      /\ \A i \in 1..(Len(s) - k + 1) : SubSeq(s, k, Len(s))[i] = s[k + i - 1]
  BY <1>1, SubSeqProperties
<1> QED
  BY <1>1, <1>2 DEF Newer

\* What comes before it.
LEMMA OlderIs ==
    ASSUME NEW S, NEW s \in Seq(S), NEW k \in 0..Len(s)
    PROVE  /\ SubSeq(s, 1, k) \in Seq(S) /\ Len(SubSeq(s, 1, k)) = k
           /\ \A i \in 1..k : SubSeq(s, 1, k)[i] = s[i]
<1>1. Len(s) \in Nat /\ k \in Nat /\ k <= Len(s) /\ \A j \in 1..k : s[j] \in S
  OBVIOUS
<1>2. /\ SubSeq(s, 1, k) \in Seq(S)
      /\ Len(SubSeq(s, 1, k)) = IF 1 <= k THEN k - 1 + 1 ELSE 0
      /\ \A i \in 1..(k - 1 + 1) : SubSeq(s, 1, k)[i] = s[1 + i - 1]
  BY <1>1, SubSeqProperties
<1> QED
  BY <1>1, <1>2

\* Both together are the file.
LEMMA BytesSplit ==
    ASSUME NEW s \in Seq(Line), NEW k \in 1..(Len(s) + 1)
    PROVE  /\ Bytes(SubSeq(s, 1, k - 1)) \in Nat /\ Bytes(Newer(s, k)) \in Nat
           /\ Bytes(SubSeq(s, 1, k - 1)) + Bytes(Newer(s, k)) = Bytes(s)
<1> DEFINE n == Len(s)
<1> DEFINE a == SubSeq(s, 1, k - 1)
<1> DEFINE b == Newer(s, k)
<1>0. n \in Nat /\ k \in Nat /\ k >= 1 /\ k <= n + 1 /\ k - 1 \in 0..n
  OBVIOUS
<1>1. a \in Seq(Line) /\ Len(a) = k - 1 /\ \A i \in 1..(k - 1) : a[i] = s[i]
  BY <1>0, OlderIs
<1>2. b \in Seq(Line) /\ Len(b) = n - k + 1 /\ \A i \in 1..(n - k + 1) : b[i] = s[k + i - 1]
  BY NewerIs
<1> HIDE DEF a, b
<1>3. PICK f : SumsUp(s, f)
  BY SumExists
<1>4. PICK g : SumsUp(a, g)
  BY <1>1, SumExists
<1>5. PICK h : SumsUp(b, h)
  BY <1>2, SumExists
<1>6. Bytes(s) = f[n] /\ Bytes(a) = g[k - 1] /\ Bytes(b) = h[n - k + 1]
  BY <1>1, <1>2, <1>3, <1>4, <1>5, BytesSum
<1>7. g[k - 1] = f[0 + (k - 1)] - f[0]
  <2>1. 0 + Len(a) <= n /\ k - 1 \in 0..Len(a) /\ \A i \in 1..Len(a) : a[i] = s[0 + i]
    BY <1>0, <1>1
  <2>2. PartAt(a, s, 0)
    BY <1>0, <1>1, <2>1 DEF PartAt
  <2>3. AddsAlike(g, f, 0, Len(a))
    BY <1>1, <1>3, <1>4, <2>2, SumsOfPart
  <2> QED
    BY <2>1, <2>3 DEF AddsAlike
<1>8. h[Len(b)] = f[n] - f[k - 1]
  <2>1. PICK q \in Nat : q = k - 1
    BY <1>0
  <2>2. q + Len(b) = n /\ q + Len(b) <= n /\ Len(b) \in 0..Len(b) /\ \A i \in 1..Len(b) : k + i - 1 = q + i
    BY <1>0, <1>2, <2>1
  <2>3. \A i \in 1..Len(b) : b[i] = s[q + i]
    BY <1>2, <2>2
  <2>4. h[Len(b)] = f[q + Len(b)] - f[q]
    <3>1. PartAt(b, s, q)
      BY <1>2, <2>2, <2>3 DEF PartAt
    <3>2. AddsAlike(h, f, q, Len(b))
      BY <1>2, <1>3, <1>5, <3>1, SumsOfPart
    <3> QED
      BY <2>2, <3>2 DEF AddsAlike
  <2> QED
    BY <2>1, <2>2, <2>4
<1>9. /\ f[n] \in Nat /\ g[k - 1] \in Nat /\ h[Len(b)] \in Nat /\ f[0] = 0 /\ f[k - 1] \in Nat
      /\ 0 + (k - 1) = k - 1 /\ h[Len(b)] = h[n - k + 1]
  <2>1. n \in 0..n /\ k - 1 \in 0..Len(a) /\ Len(b) \in 0..Len(b) /\ k - 1 \in 0..n
    BY <1>0, <1>1, <1>2
  <2>2. f[n] \in Nat /\ f[0] = 0 /\ f[k - 1] \in Nat
    BY <1>3, <2>1 DEF SumsUp
  <2>3. g[k - 1] \in Nat
    BY <1>4, <2>1 DEF SumsUp
  <2>4. h[Len(b)] \in Nat
    BY <1>5, <2>1 DEF SumsUp
  <2> QED
    BY <1>0, <1>2, <2>2, <2>3, <2>4
<1> QED
  BY <1>6, <1>7, <1>8, <1>9 DEF a, b

\* A file of one line.
LEMMA BytesOne ==
    ASSUME NEW s \in Seq(Line), Len(s) = 1
    PROVE  Bytes(s) = s[1].size
<1>1. PICK f : SumsUp(s, f)
  BY SumExists
<1>2. Bytes(s) = f[1]
  BY <1>1, BytesSum
<1>3. f[1] = f[1 - 1] + s[1].size /\ f[0] = 0 /\ s[1].size \in Nat
  BY <1>1, LineSizes DEF SumsUp
<1> QED
  BY <1>2, <1>3

-----------------------------------------------------------------------------
(* Ends of sequences. *)

\* t is what s ends with.
EndOf(t, s) == Len(t) <= Len(s) /\ \A i \in 1..Len(t) : t[i] = s[Len(s) - Len(t) + i]

\* s and t end alike, as far as the shorter one goes.
Agree(s, t) == \A i \in Nat : i < Len(s) /\ i < Len(t) => s[Len(s) - i] = t[Len(t) - i]

Increasing(s) == \A i, j \in 1..Len(s) : i < j => s[i] < s[j]

Below(s, x) == \A i \in 1..Len(s) : s[i] < x

UpTo(s, x) == \A i \in 1..Len(s) : s[i] <= x

\* A sequence ends with what is newer than any of its members.
LEMMA NewerIsEnd ==
    ASSUME NEW S, NEW s \in Seq(S), NEW k \in 1..(Len(s) + 1)
    PROVE  EndOf(Newer(s, k), s)
<1>1. /\ Newer(s, k) \in Seq(S) /\ Len(Newer(s, k)) = Len(s) - k + 1
      /\ \A i \in 1..(Len(s) - k + 1) : Newer(s, k)[i] = s[k + i - 1]
  BY NewerIs
<1>2. Len(s) \in Nat /\ k \in Nat /\ k >= 1
  OBVIOUS
<1>3. \A i \in 1..(Len(s) - k + 1) : k + i - 1 = Len(s) - (Len(s) - k + 1) + i
  BY <1>2
<1>4. Len(Newer(s, k)) <= Len(s)
  BY <1>1, <1>2
<1>5. ASSUME NEW i \in 1..Len(Newer(s, k))
      PROVE  Newer(s, k)[i] = s[Len(s) - Len(Newer(s, k)) + i]
  BY <1>1, <1>3
<1> QED
  BY <1>4, <1>5 DEF EndOf

\* Newest too is an end of the sequence, and not empty if the sequence is not.
LEMMA NewestIsEnd ==
    ASSUME NEW S, NEW s \in Seq(S), NEW n \in Nat \ {0}
    PROVE  /\ Newest(s, n) \in Seq(S) /\ EndOf(Newest(s, n), s)
           /\ Len(s) > 0 => Len(Newest(s, n)) > 0
<1>1. Len(s) \in Nat
  OBVIOUS
<1>2. CASE Len(s) > n
  <2>1. Len(s) - n + 1 \in 1..(Len(s) + 1)
    BY <1>1, <1>2
  <2>2. /\ Newer(s, Len(s) - n + 1) \in Seq(S)
        /\ Len(Newer(s, Len(s) - n + 1)) = Len(s) - (Len(s) - n + 1) + 1
        /\ EndOf(Newer(s, Len(s) - n + 1), s)
    BY <2>1, NewerIs, NewerIsEnd
  <2>3. Len(s) - (Len(s) - n + 1) + 1 = n
    BY <1>1
  <2> QED
    BY <1>2, <2>2, <2>3 DEF Newest
<1>3. CASE ~(Len(s) > n)
  BY <1>1, <1>3 DEF Newest, EndOf
<1> QED
  BY <1>2, <1>3

\* An end of an end is an end.
LEMMA EndOfEnd ==
    ASSUME NEW S, NEW s \in Seq(S), NEW t \in Seq(S), NEW u \in Seq(S), EndOf(t, s), EndOf(u, t)
    PROVE  EndOf(u, s)
<1>1. Len(s) \in Nat /\ Len(t) \in Nat /\ Len(u) \in Nat /\ Len(u) <= Len(t) /\ Len(t) <= Len(s)
  BY DEF EndOf
<1>2. ASSUME NEW i \in 1..Len(u) PROVE u[i] = s[Len(s) - Len(u) + i]
  <2>0. Len(t) - Len(u) + i \in 1..Len(t)
    BY <1>1
  <2>1. PICK j \in 1..Len(t) : j = Len(t) - Len(u) + i
    BY <2>0
  <2>2. u[i] = t[j] /\ t[j] = s[Len(s) - Len(t) + j]
    BY <2>1 DEF EndOf
  <2>3. Len(s) - Len(t) + j = Len(s) - Len(u) + i
    BY <1>1, <2>1
  <2> QED
    BY <2>2, <2>3
<1> QED
  BY <1>1, <1>2 DEF EndOf

\* Both may grow by the same member.
LEMMA EndOfAppend ==
    ASSUME NEW S, NEW s \in Seq(S), NEW t \in Seq(S), NEW x \in S, EndOf(t, s)
    PROVE  EndOf(Append(t, x), Append(s, x))
<1>1. Len(s) \in Nat /\ Len(t) \in Nat /\ Len(t) <= Len(s)
  BY DEF EndOf
<1>2. /\ Len(Append(s, x)) = Len(s) + 1 /\ Len(Append(t, x)) = Len(t) + 1
      /\ Append(s, x)[Len(s) + 1] = x /\ Append(t, x)[Len(t) + 1] = x
      /\ \A i \in 1..Len(s) : Append(s, x)[i] = s[i]
      /\ \A i \in 1..Len(t) : Append(t, x)[i] = t[i]
  BY AppendProperties
<1>3. ASSUME NEW i \in 1..(Len(t) + 1) PROVE Append(t, x)[i] = Append(s, x)[Len(s) - Len(t) + i]
  <2>1. CASE i = Len(t) + 1
    <3>1. Len(s) - Len(t) + i = Len(s) + 1
      BY <1>1, <2>1
    <3> QED
      BY <1>2, <2>1, <3>1
  <2>2. CASE i # Len(t) + 1
    <3>0. Len(s) - Len(t) + i \in 1..Len(s) /\ i \in 1..Len(t)
      BY <1>1, <2>2
    <3>1. PICK j \in 1..Len(s) : j = Len(s) - Len(t) + i /\ i \in 1..Len(t)
      BY <3>0
    <3>2. t[i] = s[j]
      BY <3>1 DEF EndOf
    <3> QED
      BY <1>2, <3>1, <3>2
  <2> QED
    BY <2>1, <2>2
<1>4. (Len(s) + 1) - (Len(t) + 1) = Len(s) - Len(t) /\ Len(t) + 1 <= Len(s) + 1
  BY <1>1
<1> QED
  BY <1>2, <1>3, <1>4 DEF EndOf

\* What ends a sequence is ordered and bounded as it is, and has its last member.
LEMMA EndOfKeeps ==
    ASSUME NEW s \in Seq(Nat), NEW t \in Seq(Nat), EndOf(t, s), NEW x \in Nat
    PROVE  /\ Increasing(s) => Increasing(t)
           /\ Below(s, x) => Below(t, x)
           /\ UpTo(s, x) => UpTo(t, x)
           /\ Len(t) > 0 => Len(s) > 0 /\ t[Len(t)] = s[Len(s)]
<1>1. Len(s) \in Nat /\ Len(t) \in Nat /\ Len(t) <= Len(s)
  BY DEF EndOf
<1>2. ASSUME NEW i \in 1..Len(t) PROVE \E k \in 1..Len(s) : k = Len(s) - Len(t) + i /\ t[i] = s[k]
  BY <1>1 DEF EndOf
<1>3. Increasing(s) => Increasing(t)
  BY <1>1, <1>2 DEF Increasing
<1>4. (Below(s, x) => Below(t, x)) /\ (UpTo(s, x) => UpTo(t, x))
  BY <1>1, <1>2 DEF Below, UpTo
<1>5. ASSUME Len(t) > 0 PROVE Len(s) > 0 /\ t[Len(t)] = s[Len(s)]
  <2>1. Len(t) \in 1..Len(t) /\ Len(s) - Len(t) + Len(t) = Len(s) /\ Len(s) > 0
    BY <1>1, <1>5
  <2>2. t[Len(t)] = s[Len(s) - Len(t) + Len(t)]
    BY <2>1 DEF EndOf
  <2> QED
    BY <2>1, <2>2
<1> QED
  BY <1>3, <1>4, <1>5

\* A newer member keeps the order.
LEMMA AppendKeeps ==
    ASSUME NEW s \in Seq(Nat), NEW x \in Nat, Below(s, x)
    PROVE  /\ Append(s, x) \in Seq(Nat) /\ Len(Append(s, x)) = Len(s) + 1
           /\ Append(s, x)[Len(s) + 1] = x
           /\ Increasing(s) => Increasing(Append(s, x))
           /\ UpTo(Append(s, x), x)
<1>1. /\ Append(s, x) \in Seq(Nat) /\ Len(Append(s, x)) = Len(s) + 1 /\ Append(s, x)[Len(s) + 1] = x
      /\ \A i \in 1..Len(s) : Append(s, x)[i] = s[i]
  BY AppendProperties
<1>2. Len(s) \in Nat /\ \A i \in 1..Len(s) : s[i] \in Nat
  OBVIOUS
<1>3. ASSUME NEW i \in 1..(Len(s) + 1)
      PROVE  Append(s, x)[i] <= x /\ (i = Len(s) + 1 \/ (i \in 1..Len(s) /\ Append(s, x)[i] = s[i] /\ s[i] < x))
  BY <1>1, <1>2 DEF Below
<1>4. UpTo(Append(s, x), x)
  BY <1>1, <1>3 DEF UpTo
<1>5. Increasing(s) => Increasing(Append(s, x))
  <2> SUFFICES ASSUME Increasing(s), NEW i \in 1..(Len(s) + 1), NEW j \in 1..(Len(s) + 1), i < j
               PROVE  Append(s, x)[i] < Append(s, x)[j]
    BY <1>1 DEF Increasing
  <2>1. i \in 1..Len(s) /\ Append(s, x)[i] = s[i] /\ s[i] < x
    BY <1>2, <1>3
  <2>2. CASE j = Len(s) + 1
    BY <1>1, <2>1, <2>2
  <2>3. CASE j # Len(s) + 1
    BY <1>2, <1>3, <2>1, <2>3 DEF Increasing
  <2> QED
    BY <2>2, <2>3
<1> QED
  BY <1>1, <1>4, <1>5

\* Sequences that end alike still do when one of them loses its oldest members,
LEMMA AgreeEnd ==
    ASSUME NEW s \in Seq(Nat), NEW t \in Seq(Nat), NEW u \in Seq(Nat), Agree(s, t)
    PROVE  (EndOf(u, s) => Agree(u, t)) /\ (EndOf(u, t) => Agree(s, u))
<1>1. Len(s) \in Nat /\ Len(t) \in Nat /\ Len(u) \in Nat
  OBVIOUS
<1>2. ASSUME NEW v \in Seq(Nat), EndOf(u, v), NEW i \in Nat, i < Len(u)
      PROVE  i < Len(v) /\ u[Len(u) - i] = v[Len(v) - i]
  <2>1. Len(v) \in Nat /\ Len(u) <= Len(v)
    BY <1>2 DEF EndOf
  <2>0. Len(u) - i \in 1..Len(u)
    BY <1>1, <1>2
  <2>2. PICK k \in 1..Len(u) : k = Len(u) - i
    BY <2>0
  <2>3. u[k] = v[Len(v) - Len(u) + k]
    BY <1>2, <2>2 DEF EndOf
  <2>4. Len(v) - Len(u) + k = Len(v) - i
    BY <1>1, <2>1, <2>2
  <2> QED
    BY <1>1, <1>2, <2>1, <2>2, <2>3, <2>4
<1>3. EndOf(u, s) => Agree(u, t)
  BY <1>1, <1>2 DEF Agree
<1>4. EndOf(u, t) => Agree(s, u)
  BY <1>1, <1>2 DEF Agree
<1> QED
  BY <1>3, <1>4

\* or when both get the same new one.
LEMMA AgreeAppend ==
    ASSUME NEW s \in Seq(Nat), NEW t \in Seq(Nat), NEW x \in Nat, Agree(s, t)
    PROVE  Agree(Append(s, x), Append(t, x))
<1>1. Len(s) \in Nat /\ Len(t) \in Nat
  OBVIOUS
<1>2. /\ Len(Append(s, x)) = Len(s) + 1 /\ Len(Append(t, x)) = Len(t) + 1
      /\ Append(s, x)[Len(s) + 1] = x /\ Append(t, x)[Len(t) + 1] = x
      /\ \A i \in 1..Len(s) : Append(s, x)[i] = s[i]
      /\ \A i \in 1..Len(t) : Append(t, x)[i] = t[i]
  BY AppendProperties
<1>3. ASSUME NEW i \in Nat, i < Len(s) + 1, i < Len(t) + 1
      PROVE  Append(s, x)[Len(s) + 1 - i] = Append(t, x)[Len(t) + 1 - i]
  <2>1. CASE i = 0
    <3>1. Len(s) + 1 - i = Len(s) + 1 /\ Len(t) + 1 - i = Len(t) + 1
      BY <1>1, <2>1
    <3> QED
      BY <1>2, <3>1
  <2>2. CASE i # 0
    <3>1. PICK j \in Nat : i = j + 1 /\ j < Len(s) /\ j < Len(t)
      BY <1>1, <1>3, <2>2
    <3>2. /\ Len(s) + 1 - i = Len(s) - j /\ Len(t) + 1 - i = Len(t) - j
          /\ Len(s) - j \in 1..Len(s) /\ Len(t) - j \in 1..Len(t)
      BY <1>1, <3>1
    <3>3. s[Len(s) - j] = t[Len(t) - j]
      BY <3>1 DEF Agree
    <3> QED
      BY <1>2, <3>2, <3>3
  <2> QED
    BY <2>1, <2>2
<1> QED
  BY <1>2, <1>3 DEF Agree

\* IsSuffix is the same, seen from the other end.
LEMMA EndIsSuffix ==
    ASSUME NEW s \in Seq(Nat), NEW t \in Seq(Nat), EndOf(s, t)
    PROVE  IsSuffix(s, t)
<1> DEFINE n == Len(s)
<1> DEFINE a == Reverse(s)
<1> DEFINE b == Reverse(t)
<1>0. n \in Nat /\ Len(t) \in Nat /\ n <= Len(t)
  BY DEF EndOf
<1>1. /\ a = [i \in 1..n |-> s[(n - i) + 1]]
      /\ b = [i \in 1..Len(t) |-> t[(Len(t) - i) + 1]]
  BY DEF Reverse
<1>2. a \in Seq(Nat) /\ Len(a) = n /\ b \in Seq(Nat) /\ Len(b) = Len(t)
  <2>1. \A i \in 1..n : (n - i) + 1 \in 1..n /\ s[(n - i) + 1] \in Nat
    BY <1>0
  <2>2. \A i \in 1..Len(t) : (Len(t) - i) + 1 \in 1..Len(t) /\ t[(Len(t) - i) + 1] \in Nat
    BY <1>0
  <2> QED
    BY <1>0, <1>1, <2>1, <2>2
<1>3. ASSUME NEW i \in 1..n PROVE a[i] = b[i]
  <2>0. (n - i) + 1 \in 1..n
    BY <1>0
  <2>1. PICK j \in 1..n : j = (n - i) + 1
    BY <2>0
  <2>2. Len(t) - n + j = (Len(t) - i) + 1 /\ i \in 1..Len(t)
    BY <1>0, <2>1
  <2>3. s[j] = t[Len(t) - n + j]
    BY <2>1 DEF EndOf
  <2> QED
    BY <1>1, <2>1, <2>2, <2>3
<1> HIDE DEF a, b
<1>4. SubSeq(a, 1, n) = SubSeq(b, 1, n)
  <2>0. n \in 0..Len(a) /\ n \in 0..Len(b)
    BY <1>0, <1>2
  <2>1. /\ SubSeq(a, 1, n) \in Seq(Nat) /\ Len(SubSeq(a, 1, n)) = n
        /\ \A i \in 1..n : SubSeq(a, 1, n)[i] = a[i]
    BY <1>2, <2>0, OlderIs
  <2>2. /\ SubSeq(b, 1, n) \in Seq(Nat) /\ Len(SubSeq(b, 1, n)) = n
        /\ \A i \in 1..n : SubSeq(b, 1, n)[i] = b[i]
    BY <1>2, <2>0, OlderIs
  <2> QED
    BY <1>3, <2>1, <2>2, SeqEqual
<1>5. IsPrefix(a, b)
  BY <1>0, <1>2, <1>4 DEF IsPrefix
<1> QED
  BY <1>5 DEF IsSuffix, a, b

\* If two sequences end alike, one of them ends the other.
LEMMA AgreeIsSuffix ==
    ASSUME NEW s \in Seq(Nat), NEW t \in Seq(Nat), Agree(s, t)
    PROVE  IsSuffix(s, t) \/ IsSuffix(t, s)
<1>1. Len(s) \in Nat /\ Len(t) \in Nat
  OBVIOUS
<1>2. ASSUME NEW u \in Seq(Nat), NEW v \in Seq(Nat), Agree(u, v), Len(u) <= Len(v) PROVE EndOf(u, v)
  <2>1. ASSUME NEW i \in 1..Len(u) PROVE u[i] = v[Len(v) - Len(u) + i]
    <3>0. Len(u) - i \in Nat /\ Len(u) - i < Len(u) /\ Len(u) - i < Len(v)
      BY <1>2
    <3>1. PICK j \in Nat : j = Len(u) - i /\ j < Len(u) /\ j < Len(v)
      BY <3>0
    <3>2. u[Len(u) - j] = v[Len(v) - j]
      BY <1>2, <3>1 DEF Agree
    <3>3. Len(u) - j = i /\ Len(v) - j = Len(v) - Len(u) + i
      BY <3>1
    <3> QED
      BY <3>2, <3>3
  <2> QED
    BY <1>2, <2>1 DEF EndOf
<1>3. Agree(t, s)
  BY DEF Agree
<1> QED
  BY <1>1, <1>2, <1>3, EndIsSuffix

-----------------------------------------------------------------------------
(* The inductive invariant. *)

\* The ring as it will be once the entry that is on file already joins it.
RingToBe == IF pc = "renamed" /\ cur # NoEntry THEN Append(ring, cur.id) ELSE ring

\* Where an entry is in hand, it is the newest; where none is and the log is not in
\* use, nothing has been numbered.
InHand ==
    /\ pc \in {"down", "load", "idle"} => cur = NoEntry
    /\ pc \in {"append", "write"} => cur # NoEntry
    /\ cur = NoEntry /\ pc # "idle" => ring = << >> /\ nextID = 0
    /\ cur # NoEntry =>
          /\ cur.size \in Sizes /\ cur.id = nextID /\ cur.id > 0
          /\ Below(ring, cur.id)
          /\ pc # "renamed" => Below(IDs(lines), cur.id)
          /\ pc = "renamed" => Len(lines) > 0 /\ lines[Len(lines)].id = cur.id
          /\ pc # "append" /\ MaxBytes > 0 => cur.size <= MaxBytes
    /\ pc = "idle" => UpTo(IDs(lines), nextID) /\ UpTo(ring, nextID)

\* The last line is never too long to be read back, an interrupted line behind it or not.
LastFits == MaxBytes > 0 /\ Len(lines) > 0 => lines[Len(lines)].size + tail <= MaxBytes

\* Ring and file end alike as long as no warning is shown.
EndAlike == ~warned => Agree(RingToBe, IDs(lines))

\* A report holds off whoever wants to change the file.
ReportLocks == reading # NoReport => pc \in {"idle", "append"} /\ reading = IDs(Retained)

LogIInv ==
    /\ LogTypeOK
    /\ Increasing(IDs(lines)) /\ Increasing(ring)
    /\ InHand /\ LastFits /\ EndAlike /\ ReportLocks
    /\ pc = "write" => open /\ tail <= 0

-----------------------------------------------------------------------------
(* What the file holds. *)

\* The IDs of a sequence of lines.
LEMMA IDsAre ==
    ASSUME NEW s \in Seq(Line)
    PROVE  IDs(s) \in Seq(Nat) /\ Len(IDs(s)) = Len(s) /\ \A i \in 1..Len(s) : IDs(s)[i] = s[i].id
<1>1. Len(s) \in Nat /\ \A i \in 1..Len(s) : s[i].id \in Nat
  BY LineSizes
<1> QED
  BY <1>1 DEF IDs

\* They grow and shrink with it.
LEMMA IDsAppend ==
    ASSUME NEW s \in Seq(Line), NEW e \in Line
    PROVE  IDs(Append(s, e)) = Append(IDs(s), e.id)
<1>1. /\ Append(s, e) \in Seq(Line) /\ Len(Append(s, e)) = Len(s) + 1 /\ Append(s, e)[Len(s) + 1] = e
      /\ \A i \in 1..Len(s) : Append(s, e)[i] = s[i]
  BY AppendProperties
<1>2. e.id \in Nat /\ Len(s) \in Nat
  BY DEF Line
<1>3. /\ IDs(s) \in Seq(Nat) /\ Len(IDs(s)) = Len(s) /\ \A i \in 1..Len(s) : IDs(s)[i] = s[i].id
      /\ IDs(Append(s, e)) \in Seq(Nat) /\ Len(IDs(Append(s, e))) = Len(s) + 1
      /\ \A i \in 1..(Len(s) + 1) : IDs(Append(s, e))[i] = Append(s, e)[i].id
  BY <1>1, IDsAre
<1>4. /\ Append(IDs(s), e.id) \in Seq(Nat) /\ Len(Append(IDs(s), e.id)) = Len(s) + 1
      /\ Append(IDs(s), e.id)[Len(s) + 1] = e.id
      /\ \A i \in 1..Len(s) : Append(IDs(s), e.id)[i] = IDs(s)[i]
  BY <1>2, <1>3, AppendProperties
<1>5. ASSUME NEW i \in 1..(Len(s) + 1) PROVE IDs(Append(s, e))[i] = Append(IDs(s), e.id)[i]
  <2>1. CASE i = Len(s) + 1
    BY <1>1, <1>3, <1>4, <2>1
  <2>2. CASE i # Len(s) + 1
    <3>1. i \in 1..Len(s)
      BY <1>2, <2>2
    <3> QED
      BY <1>1, <1>3, <1>4, <3>1
  <2> QED
    BY <2>1, <2>2
<1> QED
  BY <1>3, <1>4, <1>5, SeqEqual

\* An end of the lines has an end of their IDs.
LEMMA IDsEnd ==
    ASSUME NEW s \in Seq(Line), NEW t \in Seq(Line), EndOf(t, s)
    PROVE  EndOf(IDs(t), IDs(s))
<1>1. /\ Len(IDs(s)) = Len(s) /\ \A i \in 1..Len(s) : IDs(s)[i] = s[i].id
      /\ Len(IDs(t)) = Len(t) /\ \A i \in 1..Len(t) : IDs(t)[i] = t[i].id
  BY IDsAre
<1>2. Len(s) \in Nat /\ Len(t) \in Nat /\ Len(t) <= Len(s)
  BY DEF EndOf
<1>3. ASSUME NEW i \in 1..Len(t) PROVE IDs(t)[i] = IDs(s)[Len(s) - Len(t) + i]
  <2>1. Len(s) - Len(t) + i \in 1..Len(s)
    BY <1>2
  <2>2. t[i] = s[Len(s) - Len(t) + i]
    BY DEF EndOf
  <2> QED
    BY <1>1, <2>1, <2>2
<1> QED
  BY <1>1, <1>2, <1>3 DEF EndOf

\* What is read back is an end of the file, and there is something if there was.
LEMMA RetainedIs ==
    ASSUME LogTypeOK
    PROVE  /\ Retained \in Seq(Line) /\ EndOf(Retained, lines)
           /\ LastFits /\ Len(lines) > 0 => Len(Retained) > 0
<1> DEFINE after(i) == FileSize - Bytes(SubSeq(lines, 1, i - 1))
<1> DEFINE inside == {i \in 1..Len(lines) : MaxBytes = 0 \/ after(i) <= MaxBytes}
<1>0. lines \in Seq(Line) /\ Len(lines) \in Nat /\ tail \in Int
  BY DEF LogTypeOK
<1>1. Retained = IF inside = {} THEN << >> ELSE Newer(lines, Min(inside))
  BY DEF Retained
<1>2. inside \in SUBSET (1..Len(lines)) /\ inside \in SUBSET Nat
  BY <1>0
<1>3. ASSUME LastFits, Len(lines) > 0 PROVE inside # {}
  <2> DEFINE n == Len(lines)
  <2>1. n \in 1..n /\ n \in 1..(n + 1) /\ n \in Nat
    BY <1>0, <1>3
  <2>2. /\ Bytes(SubSeq(lines, 1, n - 1)) \in Nat
        /\ Bytes(SubSeq(lines, 1, n - 1)) + Bytes(Newer(lines, n)) = Bytes(lines)
    BY <1>0, <2>1, BytesSplit
  <2>3. Bytes(Newer(lines, n)) = lines[n].size
    <3>1. /\ Newer(lines, n) \in Seq(Line) /\ Len(Newer(lines, n)) = n - n + 1
          /\ \A i \in 1..(n - n + 1) : Newer(lines, n)[i] = lines[n + i - 1]
      BY <1>0, <2>1, NewerIs
    <3>2. n - n + 1 = 1 /\ n + 1 - 1 = n
      BY <2>1
    <3>3. Len(Newer(lines, n)) = 1 /\ Newer(lines, n)[1] = lines[n]
      BY <3>1, <3>2
    <3> QED
      BY <3>1, <3>3, BytesOne
  <2>4. lines[n].size \in Nat /\ Bytes(lines) \in Nat
    BY <1>0, <2>1, LineSizes, BytesType
  <2>5. after(n) <= MaxBytes \/ MaxBytes = 0
    <3>1. MaxBytes \in Nat /\ (MaxBytes > 0 => lines[n].size + tail <= MaxBytes)
      BY <1>3, RequestLogAssumption DEF LastFits
    <3>2. FileSize = Bytes(lines) + tail /\ FileSize \in Int
      BY <1>0, <2>4 DEF FileSize
    <3> HIDE DEF n
    <3>3. PICK b \in Nat : b = Bytes(SubSeq(lines, 1, n - 1))
      BY <2>2
    <3>4. b + lines[n].size = Bytes(lines) /\ after(n) = FileSize - b
      BY <2>2, <2>3, <3>3
    <3>5. FileSize - b <= MaxBytes \/ MaxBytes = 0
      <4>1. PICK last \in Nat : last = lines[n].size
        BY <2>4
      <4>2. FileSize = b + last + tail /\ (MaxBytes > 0 => last + tail <= MaxBytes)
        BY <3>1, <3>2, <3>4, <4>1
      <4> QED
        BY <1>0, <3>1, <3>2, <3>3, <4>1, <4>2
    <3> QED
      BY <3>4, <3>5
  <2> QED
    BY <2>1, <2>5
<1>4. CASE inside = {}
  <2>1. Retained = << >>
    BY <1>1, <1>4
  <2> QED
    BY <1>0, <1>3, <1>4, <2>1 DEF EndOf
<1>5. CASE inside # {}
  <2>1. Min(inside) \in inside
    <3> HIDE DEF inside
    <3> QED
      BY <1>2, <1>5, SmallestIn
  <2>2. PICK k \in 1..Len(lines) : k = Min(inside)
    BY <1>2, <2>1
  <2>3. Retained = Newer(lines, k) /\ k \in 1..(Len(lines) + 1)
    BY <1>0, <1>1, <1>5, <2>2
  <2>4. Retained \in Seq(Line) /\ Len(Retained) = Len(lines) - k + 1 /\ EndOf(Retained, lines)
    BY <1>0, <2>3, NewerIs, NewerIsEnd
  <2> QED
    BY <1>0, <2>2, <2>4
<1> QED
  BY <1>4, <1>5

\* What a compaction chooses from.
ToCompact == IF cur = NoEntry THEN Retained ELSE Append(Retained, cur)

\* What a compaction writes: an end of what is there and of the entry in hand, not
\* empty if they are not, and within the limit.
LEMMA CompactedIs ==
    ASSUME LogTypeOK
    PROVE  /\ ToCompact \in Seq(Line)
           /\ Compacted \in Seq(Line) /\ EndOf(Compacted, ToCompact)
           /\ (\A i \in 1..Len(Compacted) : Compacted[i].size <= MaxBytes) => Bytes(Compacted) <= MaxBytes
<1> DEFINE target == MaxBytes - MaxBytes \div 4
<1> DEFINE all == ToCompact
<1> DEFINE fit == {i \in 1..Len(all) : i = Len(all) \/ Bytes(Newer(all, i)) <= target}
<1>0. all \in Seq(Line) /\ Len(all) \in Nat
  BY RetainedIs, AppendProperties DEF LogTypeOK, ToCompact
<1>1. Compacted = IF fit = {} THEN << >> ELSE Newer(all, Min(fit))
  BY DEF Compacted, ToCompact
<1>2. fit \in SUBSET Nat /\ fit \in SUBSET (1..Len(all))
  BY <1>0
<1>t. MaxBytes \in Nat /\ target <= MaxBytes /\ target \in Int
  BY RequestLogAssumption
<1>3. CASE fit = {}
  <2>1. Compacted = << >>
    BY <1>1, <1>3
  <2>2. << >> \in Seq(Line) /\ Len(<< >>) = 0
    OBVIOUS
  <2>3. Bytes(<< >>) = 0
    BY <2>2, BytesType
  <2>4. EndOf(<< >>, all)
    <3> HIDE DEF all
    <3> QED
      BY <1>0, <2>2 DEF EndOf
  <2>5. Bytes(Compacted) <= MaxBytes
    BY <1>t, <2>1, <2>3
  <2>6. Compacted \in Seq(Line) /\ EndOf(Compacted, all)
    <3> HIDE DEF all
    <3> QED
      BY <2>1, <2>2, <2>4
  <2> QED
    BY <1>0, <2>5, <2>6
<1>4. CASE fit # {}
  <2>1. Min(fit) \in fit
    <3> HIDE DEF fit
    <3> QED
      BY <1>2, <1>4, SmallestIn
  <2>2. PICK k \in 1..Len(all) : k = Min(fit) /\ (k = Len(all) \/ Bytes(Newer(all, k)) <= target)
    BY <2>1
  <2>3. Compacted = Newer(all, k) /\ k \in 1..(Len(all) + 1)
    BY <1>0, <1>1, <1>4, <2>2
  <2> HIDE DEF fit, all
  <2>4. Compacted \in Seq(Line) /\ Len(Compacted) = Len(all) - k + 1 /\ EndOf(Compacted, all)
    BY <1>0, <2>3, NewerIs, NewerIsEnd
  <2>5. ASSUME \A i \in 1..Len(Compacted) : Compacted[i].size <= MaxBytes
        PROVE  Bytes(Compacted) <= MaxBytes
    <3>1. CASE k = Len(all)
      <4>1. Len(Compacted) = 1
        BY <1>0, <2>4, <3>1
      <4> QED
        BY <2>4, <2>5, <4>1, BytesOne
    <3>2. CASE Bytes(Newer(all, k)) <= target
      BY <1>t, <2>3, <2>4, <3>2, BytesType
    <3> QED
      BY <2>2, <3>1, <3>2
  <2> QED
    BY <1>0, <2>4, <2>5 DEF all
<1> QED
  BY <1>3, <1>4
-----------------------------------------------------------------------------
(* The steps. *)

\* What the invariant says of the file alone.
FilePart ==
    /\ lines \in Seq(Line)
    /\ tail \in Nat \cup {-1} /\ (lines = << >> => tail # -1)
    /\ Increasing(IDs(lines)) /\ LastFits

\* A file that is left alone holds what it held.
LEMMA SameFile ==
    ASSUME LogIInv, UNCHANGED <<lines, tail>>
    PROVE  FilePart' /\ Retained' = Retained
<1>1. Retained' = Retained
  BY DEF Retained, FileSize
<1>2. Increasing(IDs(lines')) /\ LastFits'
  BY DEF LogIInv, LastFits
<1> QED
  BY <1>1, <1>2 DEF FilePart, LogIInv, LogTypeOK

\* Bounds on sequences of IDs.
LEMMA Bounds ==
    ASSUME NEW s \in Seq(Nat), NEW n \in Nat
    PROVE  /\ UpTo(s, n) => Below(s, n + 1)
           /\ Below(s, n) => UpTo(s, n)
           /\ Increasing(s) /\ Len(s) > 0 /\ s[Len(s)] = n => UpTo(s, n)
           /\ Len(s) = 0 => Increasing(s) /\ Below(s, n) /\ UpTo(s, n)
<1>0. Len(s) \in Nat /\ \A i \in 1..Len(s) : s[i] \in Nat
  OBVIOUS
<1>1. ASSUME UpTo(s, n) PROVE Below(s, n + 1)
  BY <1>0, <1>1 DEF UpTo, Below
<1>2. ASSUME Below(s, n) PROVE UpTo(s, n)
  BY <1>0, <1>2 DEF UpTo, Below
<1>3. ASSUME Increasing(s), Len(s) > 0, s[Len(s)] = n PROVE UpTo(s, n)
  <2> SUFFICES ASSUME NEW i \in 1..Len(s) PROVE s[i] <= n
    BY DEF UpTo
  <2>1. CASE i = Len(s)
    BY <1>0, <1>3, <2>1
  <2>2. CASE i < Len(s)
    <3>1. Len(s) \in 1..Len(s)
      BY <1>0, <1>3
    <3>2. s[i] < s[Len(s)]
      BY <1>3, <2>2, <3>1 DEF Increasing
    <3> QED
      BY <1>0, <1>3, <3>2
  <2> QED
    BY <1>0, <2>1, <2>2
<1>4. ASSUME Len(s) = 0 PROVE Increasing(s) /\ Below(s, n) /\ UpTo(s, n)
  BY <1>4 DEF Increasing, Below, UpTo
<1> QED
  BY <1>1, <1>2, <1>3, <1>4

\* An empty sequence agrees with every other, and a sequence with its end.
LEMMA Agreeing ==
    ASSUME NEW s \in Seq(Nat), NEW t \in Seq(Nat)
    PROVE  /\ Len(s) = 0 \/ Len(t) = 0 => Agree(s, t)
           /\ EndOf(t, s) => Agree(t, s)
<1>0. Len(s) \in Nat /\ Len(t) \in Nat
  OBVIOUS
<1>1. ASSUME Len(s) = 0 \/ Len(t) = 0 PROVE Agree(s, t)
  BY <1>0, <1>1 DEF Agree
<1>2. Agree(s, s)
  BY DEF Agree
<1> QED
  BY <1>1, <1>2, AgreeEnd

\* No line is longer than its file.
LEMMA LastBytes ==
    ASSUME NEW s \in Seq(Line), Len(s) > 0
    PROVE  s[Len(s)].size <= Bytes(s)
<1>0. Len(s) \in Nat /\ Len(s) \in 1..(Len(s) + 1) /\ Len(s) \in 1..Len(s)
  OBVIOUS
<1>1. PICK n \in Nat : n = Len(s) /\ n > 0
  BY <1>0
<1>2. Newer(s, n) \in Seq(Line) /\ Len(Newer(s, n)) = 1 /\ Newer(s, n)[1] = s[n]
  <2>1. n \in 1..(Len(s) + 1) /\ 1 \in 1..(Len(s) - n + 1) /\ n + 1 - 1 = n /\ Len(s) - n + 1 = 1
    BY <1>0, <1>1
  <2>2. /\ Newer(s, n) \in Seq(Line) /\ Len(Newer(s, n)) = Len(s) - n + 1
        /\ \A i \in 1..(Len(s) - n + 1) : Newer(s, n)[i] = s[n + i - 1]
    BY <2>1, NewerIs
  <2> QED
    BY <2>1, <2>2
<1>3. Bytes(Newer(s, n)) = s[n].size
  BY <1>2, BytesOne
<1>4. Bytes(SubSeq(s, 1, n - 1)) \in Nat /\ Bytes(Newer(s, n)) \in Nat
      /\ Bytes(SubSeq(s, 1, n - 1)) + Bytes(Newer(s, n)) = Bytes(s)
  BY <1>0, <1>1, BytesSplit
<1> QED
  BY <1>1, <1>3, <1>4

\* The entry being added is well formed, and its size is the log's.
LEMMA EntryOK ==
    ASSUME LogIInv, cur # NoEntry
    PROVE  /\ cur \in Line /\ cur.id \in Nat /\ cur.size \in Nat /\ cur.size > 1
           /\ cur.id = nextID /\ cur.id > 0 /\ Below(ring, cur.id)
           /\ pc # "append" /\ MaxBytes > 0 => cur.size <= MaxBytes
           /\ pc # "renamed" => Below(IDs(lines), cur.id)
<1>1. cur \in Line /\ cur.size \in Sizes
  BY DEF LogIInv, LogTypeOK, InHand
<1>2. cur.id \in Nat /\ cur.size \in Nat /\ cur.size > 1
  BY <1>1, RequestLogAssumption DEF Line
<1> QED
  BY <1>1, <1>2 DEF LogIInv, InHand

\* The end of add, with whatever has become of the file.
LEMMA FinishAddInv ==
    ASSUME LogIInv, cur # NoEntry, reading = NoReport, NEW err \in BOOLEAN, FinishAdd(err),
           open' \in BOOLEAN, FilePart', UpTo(IDs(lines'), cur.id),
           ~err /\ ~warned => Agree(Append(ring, cur.id), IDs(lines'))
    PROVE  LogIInv'
<1>0. ring \in Seq(Nat) /\ cur.id \in Nat /\ Below(ring, cur.id) /\ Increasing(ring) /\ nextID = cur.id
      /\ RingLimit \in Nat \ {0} /\ lines' \in Seq(Line) /\ warned \in BOOLEAN
  BY EntryOK, RequestLogAssumption DEF LogIInv, LogTypeOK, FilePart
<1> DEFINE longer == Append(ring, cur.id)
<1>1. longer \in Seq(Nat) /\ Increasing(longer) /\ UpTo(longer, cur.id)
  BY <1>0, AppendKeeps
<1>2. IDs(lines') \in Seq(Nat)
  BY <1>0, IDsAre
<1> HIDE DEF longer
<1>3. ring' = Newest(longer, RingLimit)
  BY DEF FinishAdd, longer
<1>4. ring' \in Seq(Nat) /\ EndOf(ring', longer)
  BY <1>0, <1>1, <1>3, NewestIsEnd
<1>5. Increasing(ring') /\ UpTo(ring', cur.id)
  BY <1>0, <1>1, <1>4, EndOfKeeps
<1>6. ~warned' => Agree(ring', IDs(lines'))
  BY <1>1, <1>2, <1>4, AgreeEnd DEF FinishAdd, longer
<1>7. /\ cur' = NoEntry /\ pc' = "idle" /\ nextID' = cur.id /\ reading' = NoReport
      /\ warned' \in BOOLEAN
  BY <1>0 DEF FinishAdd, Goto
<1>8. LogTypeOK'
  <2>1. NoEntry \in Line /\ NoReport \in Seq(Nat)
    BY DEF NoEntry, Line, NoReport
  <2> QED
    BY <1>0, <1>4, <1>7, <2>1 DEF LogTypeOK, FilePart
<1>9. InHand'
  BY <1>5, <1>7 DEF InHand
<1>10. EndAlike'
  BY <1>6, <1>7 DEF EndAlike, RingToBe
<1>11. ReportLocks'
  BY <1>7 DEF ReportLocks
<1> QED
  BY <1>5, <1>7, <1>8, <1>9, <1>10, <1>11 DEF LogIInv, FilePart
\* A write that stops early, or the process with it, leaves a file that can be read.
LEMMA PartialWriteKeeps ==
    ASSUME LogIInv, pc = "write", Fits, PartialWrite
    PROVE  FilePart' /\ UpTo(IDs(lines'), cur.id)
<1>0. /\ cur # NoEntry /\ cur \in Line /\ cur.id \in Nat /\ cur.size \in Nat /\ cur.size > 1
      /\ MaxBytes > 0 => cur.size <= MaxBytes
      /\ Below(IDs(lines), cur.id)
  BY EntryOK DEF LogIInv, InHand
<1>1. lines \in Seq(Line) /\ tail \in {0, -1} /\ MaxBytes \in Nat
      /\ Increasing(IDs(lines)) /\ LastFits /\ (lines = << >> => tail # -1)
  BY RequestLogAssumption DEF LogIInv, LogTypeOK
<1>2. IDs(lines) \in Seq(Nat)
  BY <1>1, IDsAre
<1>3. UpTo(IDs(lines), cur.id)
  BY <1>0, <1>2, Bounds
<1>4. CASE UNCHANGED <<lines, tail>>
  <2>1. LastFits'
    BY <1>1, <1>4 DEF LastFits
  <2> QED
    BY <1>1, <1>3, <1>4, <2>1 DEF FilePart
<1>5. CASE lines' = lines /\ tail' \in 0..(cur.size - 2)
  <2>1. MaxBytes > 0 /\ Len(lines) > 0 => lines[Len(lines)].size + tail' <= MaxBytes
    <3> SUFFICES ASSUME MaxBytes > 0, Len(lines) > 0
                 PROVE  lines[Len(lines)].size + tail' <= MaxBytes
      OBVIOUS
    <3>1. Bytes(lines) \in Nat
      BY <1>1, BytesType
    <3>2. Bytes(lines) + cur.size <= MaxBytes
      BY <1>0, <1>1, <3>1 DEF Fits, FileSize
    <3>3. lines[Len(lines)].size <= Bytes(lines) /\ lines[Len(lines)].size \in Nat
      BY <1>1, LastBytes, LineSizes
    <3> QED
      BY <1>0, <1>1, <1>5, <3>1, <3>2, <3>3
  <2>2. LastFits'
    BY <1>5, <1>1, <2>1 DEF LastFits
  <2>3. tail' \in Nat
    BY <1>0, <1>5
  <2> QED
    BY <1>1, <1>3, <1>5, <2>2, <2>3 DEF FilePart
<1>6. CASE lines' = Append(lines, cur) /\ tail' = -1
  <2>1. lines' \in Seq(Line) /\ Len(lines') = Len(lines) + 1 /\ lines'[Len(lines')] = cur /\ lines' # << >>
    BY <1>0, <1>1, <1>6, AppendProperties
  <2>2. IDs(lines') = Append(IDs(lines), cur.id)
    BY <1>0, <1>1, <1>6, IDsAppend
  <2>3. Increasing(IDs(lines')) /\ UpTo(IDs(lines'), cur.id)
    BY <1>0, <1>1, <1>2, <2>2, AppendKeeps
  <2>4. LastFits'
    <3>1. MaxBytes > 0 => cur.size + -1 <= MaxBytes
      BY <1>0, <1>1
    <3> QED
      BY <1>6, <2>1, <3>1 DEF LastFits
  <2> QED
    BY <1>6, <2>1, <2>3, <2>4 DEF FilePart
<1> QED
  BY <1>0, <1>4, <1>5, <1>6 DEF PartialWrite

\* add numbers an entry behind all that are kept.
LEMMA AddInv ==
    ASSUME LogIInv, NEW size \in Sizes, Add(size)
    PROVE  LogIInv'
<1>0. FilePart' /\ Retained' = Retained
  BY SameFile DEF Add
<1>1. nextID \in Nat /\ nextID + 1 \in Nat /\ size \in Nat /\ MaxBytes \in Nat /\ ring \in Seq(Nat)
      /\ lines \in Seq(Line)
  BY RequestLogAssumption DEF LogIInv, LogTypeOK
<1>2. UpTo(IDs(lines), nextID) /\ UpTo(ring, nextID) /\ IDs(lines) \in Seq(Nat)
  BY <1>1, IDsAre DEF LogIInv, InHand, Add
<1>3. Below(IDs(lines), nextID + 1) /\ Below(ring, nextID + 1)
  BY <1>1, <1>2, Bounds
<1>4. /\ pc = "idle" /\ pc' = "append" /\ cur' = [id |-> nextID + 1, size |-> size]
      /\ nextID' = nextID + 1 /\ lines' = lines /\ tail' = tail /\ open' = open
      /\ warned' = warned /\ ring' = ring /\ reading' = reading
  BY DEF Add, Goto
<1>5. cur'.id = nextID + 1 /\ cur'.size = size /\ cur' \in Line /\ cur' # NoEntry
  BY <1>1, <1>4 DEF Line, NoEntry
<1>6. LogTypeOK'
  BY <1>1, <1>4, <1>5 DEF LogIInv, LogTypeOK
<1>7. InHand'
  BY <1>1, <1>3, <1>4, <1>5 DEF InHand
<1>8. EndAlike'
  BY <1>4 DEF LogIInv, EndAlike, RingToBe
<1>9. ReportLocks'
  BY <1>0, <1>4 DEF LogIInv, ReportLocks
<1> QED
  BY <1>0, <1>4, <1>6, <1>7, <1>8, <1>9 DEF LogIInv, FilePart

\* append gives up, and add keeps the entry in memory with a warning.
LEMMA AppendRefusedInv ==
    ASSUME LogIInv, AppendRefused
    PROVE  LogIInv'
<1>0. FilePart'
  BY SameFile DEF AppendRefused
<1>1. cur # NoEntry /\ cur.id \in Nat /\ Below(IDs(lines), cur.id) /\ IDs(lines) \in Seq(Nat)
  BY EntryOK, IDsAre DEF LogIInv, LogTypeOK, InHand, AppendRefused
<1>2. UpTo(IDs(lines'), cur.id)
  BY <1>1, Bounds DEF AppendRefused
<1>3. reading = NoReport /\ FinishAdd(TRUE) /\ open' \in BOOLEAN /\ TRUE \in BOOLEAN
  BY DEF AppendRefused, LogIInv, LogTypeOK
<1> QED
  BY <1>0, <1>1, <1>2, <1>3, FinishAddInv

\* repairTail cuts off an interrupted line, with a warning.
LEMMA RepairTailInv ==
    ASSUME LogIInv, RepairTail
    PROVE  LogIInv'
<1>1. /\ pc = "append" /\ reading = NoReport /\ open /\ (MaxBytes = 0 \/ cur.size <= MaxBytes)
      /\ tail' = (IF tail > 0 THEN 0 ELSE tail)
      /\ warned' = (warned \/ tail > 0) /\ pc' = "write"
      /\ lines' = lines /\ open' = open /\ ring' = ring /\ nextID' = nextID /\ cur' = cur
      /\ reading' = reading
  BY DEF RepairTail, Goto
<1>2. LogTypeOK' /\ tail' <= 0 /\ tail' <= tail
  BY <1>1 DEF LogIInv, LogTypeOK
<1>3. InHand'
  BY <1>1, RequestLogAssumption DEF LogIInv, InHand
<1>4. LastFits'
  <2> SUFFICES ASSUME MaxBytes > 0, Len(lines) > 0
               PROVE  lines[Len(lines)].size + tail' <= MaxBytes
    BY <1>1 DEF LastFits
  <2>1. lines[Len(lines)].size \in Nat /\ tail \in Int /\ tail' \in Int
    BY <1>2, LineSizes DEF LogIInv, LogTypeOK
  <2>2. lines[Len(lines)].size + tail <= MaxBytes
    BY DEF LogIInv, LastFits
  <2> QED
    BY <1>2, <2>1, <2>2, RequestLogAssumption
<1>5. EndAlike'
  BY <1>1 DEF LogIInv, EndAlike, RingToBe
<1>6. ReportLocks'
  BY <1>1 DEF ReportLocks
<1> QED
  BY <1>1, <1>2, <1>3, <1>4, <1>5, <1>6 DEF LogIInv

\* append writes the entry: ring and file get it together.
LEMMA WriteInv ==
    ASSUME LogIInv, Write
    PROVE  LogIInv'
<1>1. /\ pc = "write" /\ lines' = Append(lines, cur) /\ tail' = 0 /\ open' = open
      /\ FinishAdd(FALSE) /\ FALSE \in BOOLEAN
  BY DEF Write
<1>2. /\ cur # NoEntry /\ cur \in Line /\ cur.id \in Nat
      /\ MaxBytes > 0 => cur.size <= MaxBytes
      /\ Below(IDs(lines), cur.id)
  BY <1>1, EntryOK DEF LogIInv, InHand
<1>3. lines \in Seq(Line) /\ Increasing(IDs(lines)) /\ ring \in Seq(Nat) /\ open' \in BOOLEAN
      /\ reading = NoReport
  BY <1>1 DEF LogIInv, LogTypeOK, ReportLocks
<1>4. IDs(lines) \in Seq(Nat)
  BY <1>3, IDsAre
<1>5. lines' \in Seq(Line) /\ Len(lines') = Len(lines) + 1 /\ lines'[Len(lines')] = cur
  BY <1>1, <1>2, <1>3, AppendProperties
<1>6. IDs(lines') = Append(IDs(lines), cur.id)
  BY <1>1, <1>2, <1>3, IDsAppend
<1>7. Increasing(IDs(lines')) /\ UpTo(IDs(lines'), cur.id)
  BY <1>2, <1>3, <1>4, <1>6, AppendKeeps
<1>8. LastFits'
  <2>1. cur.size \in Nat /\ (MaxBytes > 0 => cur.size + 0 <= MaxBytes)
    BY <1>2, RequestLogAssumption DEF Line
  <2> QED
    BY <1>1, <1>5, <2>1 DEF LastFits
<1>9. FilePart'
  BY <1>1, <1>5, <1>7, <1>8 DEF FilePart
<1>10. ~warned => Agree(Append(ring, cur.id), IDs(lines'))
  <2>1. ~warned => Agree(ring, IDs(lines))
    BY <1>1 DEF LogIInv, EndAlike, RingToBe
  <2> QED
    BY <1>2, <1>3, <1>4, <1>6, <2>1, AgreeAppend
<1> QED
  BY <1>1, <1>2, <1>3, <1>7, <1>9, <1>10, FinishAddInv

\* A failed write leaves a warning behind.
LEMMA WriteFailsInv ==
    ASSUME LogIInv, WriteFails
    PROVE  LogIInv'
<1>1. pc = "write" /\ Fits /\ PartialWrite /\ FinishAdd(TRUE) /\ TRUE \in BOOLEAN /\ open' \in BOOLEAN
  BY DEF WriteFails, LogIInv, LogTypeOK
<1>2. FilePart' /\ UpTo(IDs(lines'), cur.id)
  BY <1>1, PartialWriteKeeps
<1>3. cur # NoEntry /\ reading = NoReport
  BY <1>1 DEF LogIInv, InHand, ReportLocks
<1> QED
  BY <1>1, <1>2, <1>3, FinishAddInv

\* append turns to compaction with the entry in hand.
LEMMA StartCompactInv ==
    ASSUME LogIInv, StartCompact
    PROVE  LogIInv'
<1>1. /\ pc = "write" /\ pc' = "compact" /\ lines' = lines /\ tail' = tail /\ open' = open
      /\ warned' = warned /\ ring' = ring /\ nextID' = nextID /\ cur' = cur /\ reading' = reading
  BY DEF StartCompact, Goto
<1>2. reading = NoReport /\ cur # NoEntry
  BY <1>1 DEF LogIInv, ReportLocks, InHand
<1>3. LogTypeOK' /\ InHand'
  BY <1>1, <1>2 DEF LogIInv, LogTypeOK, InHand
<1>4. LastFits' /\ EndAlike'
  BY <1>1 DEF LogIInv, LastFits, EndAlike, RingToBe
<1> QED
  BY <1>1, <1>2, <1>3, <1>4 DEF LogIInv, ReportLocks
\* compact returns: to add, or at startup to the loading of the file.
LEMMA FinishCompactInv ==
    ASSUME LogIInv, pc \in {"compact", "renamed"}, NEW err \in BOOLEAN, FinishCompact(err),
           open' \in BOOLEAN, UNCHANGED <<lines, tail>>, pc = "compact" => err
    PROVE  LogIInv'
<1>0. FilePart' /\ Retained' = Retained /\ reading = NoReport
  BY SameFile DEF LogIInv, ReportLocks
<1>1. lines \in Seq(Line) /\ lines' = lines /\ Increasing(IDs(lines)) /\ warned \in BOOLEAN
  BY DEF LogIInv, LogTypeOK
<1>2. IDs(lines) \in Seq(Nat) /\ Len(IDs(lines)) = Len(lines)
  BY <1>1, IDsAre
<1>3. CASE cur # NoEntry
  <2>1. cur.id \in Nat /\ FinishAdd(err)
    BY <1>3, EntryOK DEF FinishCompact
  <2>2. UpTo(IDs(lines'), cur.id)
    <3>1. CASE pc = "compact"
      BY <1>1, <1>2, <1>3, <2>1, <3>1, EntryOK, Bounds
    <3>2. CASE pc = "renamed"
      <4>1. Len(lines) > 0 /\ lines[Len(lines)].id = cur.id
        BY <1>3, <3>2 DEF LogIInv, InHand
      <4>2. Len(lines) \in 1..Len(lines)
        BY <1>1, <4>1
      <4>3. IDs(lines)[Len(lines)] = cur.id
        BY <1>1, <4>1, <4>2, IDsAre
      <4> QED
        BY <1>1, <1>2, <2>1, <4>1, <4>3, Bounds
    <3> QED
      BY <3>1, <3>2
  <2>3. ~err /\ ~warned => Agree(Append(ring, cur.id), IDs(lines'))
    BY <1>1, <1>3 DEF LogIInv, EndAlike, RingToBe
  <2> QED
    BY <1>0, <1>3, <2>1, <2>2, <2>3, FinishAddInv
<1>4. CASE cur = NoEntry
  <2>1. /\ warned' = (warned \/ err) /\ pc' = "load" /\ ring' = ring /\ nextID' = nextID
        /\ cur' = cur /\ reading' = reading
    BY <1>4 DEF FinishCompact, Goto
  <2>a. ring = << >> /\ nextID = 0
    BY <1>4 DEF LogIInv, InHand
  <2>2. ring = << >> /\ nextID = 0 /\ Len(ring) = 0 /\ ring \in Seq(Nat)
    BY <2>a
  <2>3. LogTypeOK'
    BY <1>1, <2>1 DEF LogIInv, LogTypeOK
  <2>4. InHand'
    BY <1>4, <2>1, <2>2 DEF InHand
  <2>5. EndAlike'
    BY <1>1, <1>2, <2>1, <2>2, Agreeing DEF EndAlike, RingToBe
  <2> QED
    BY <1>0, <2>1, <2>3, <2>4, <2>5 DEF LogIInv, FilePart, ReportLocks
<1> QED
  BY <1>3, <1>4

\* A compaction that fails leaves the log as it was, and a warning.
LEMMA CompactFailsInv ==
    ASSUME LogIInv, CompactFails
    PROVE  LogIInv'
<1>1. pc = "compact" /\ FinishCompact(TRUE) /\ TRUE \in BOOLEAN /\ UNCHANGED <<lines, tail>>
  BY DEF CompactFails
<1>2. open' \in BOOLEAN
  BY DEF CompactFails, LogIInv, LogTypeOK
<1> QED
  BY <1>1, <1>2, FinishCompactInv

\* The end of a compaction.
LEMMA ReopenInv ==
    ASSUME LogIInv, Reopen
    PROVE  LogIInv'
<1>1. pc = "renamed" /\ open' \in BOOLEAN /\ UNCHANGED <<lines, tail>>
  BY DEF Reopen
<1>2. PICK err \in BOOLEAN : FinishCompact(err)
  BY <1>1 DEF Reopen
<1> QED
  BY <1>1, <1>2, FinishCompactInv

\* What is to be compacted has increasing IDs, ends with the entry in hand, and agrees
\* with the ring that has it.
LEMMA ToCompactIs ==
    ASSUME LogIInv, pc = "compact"
    PROVE  /\ ToCompact \in Seq(Line) /\ IDs(ToCompact) \in Seq(Nat) /\ Increasing(IDs(ToCompact))
           /\ cur # NoEntry =>
                 /\ Len(ToCompact) > 0 /\ IDs(ToCompact)[Len(ToCompact)] = cur.id
                 /\ ~warned => Agree(Append(ring, cur.id), IDs(ToCompact))
           /\ cur = NoEntry => EndOf(ToCompact, lines)
<1>1. LogTypeOK /\ lines \in Seq(Line) /\ ring \in Seq(Nat) /\ Increasing(IDs(lines))
  BY DEF LogIInv, LogTypeOK
<1>2. Retained \in Seq(Line) /\ EndOf(Retained, lines)
  BY <1>1, RetainedIs
<1>3. IDs(lines) \in Seq(Nat) /\ IDs(Retained) \in Seq(Nat) /\ EndOf(IDs(Retained), IDs(lines))
  BY <1>1, <1>2, IDsAre, IDsEnd
<1>4. Increasing(IDs(Retained))
  BY <1>1, <1>3, EndOfKeeps
<1>5. CASE cur = NoEntry
  <2>1. ToCompact = Retained
    BY <1>5 DEF ToCompact
  <2> QED
    BY <1>2, <1>3, <1>4, <1>5, <2>1
<1>6. CASE cur # NoEntry
  <2>1. ToCompact = Append(Retained, cur)
    BY <1>6 DEF ToCompact
  <2>2. cur \in Line /\ cur.id \in Nat /\ Below(IDs(lines), cur.id)
    BY <1>6, EntryOK
  <2>3. Below(IDs(Retained), cur.id)
    BY <1>3, <2>2, EndOfKeeps
  <2>4. ToCompact \in Seq(Line) /\ Len(ToCompact) = Len(Retained) + 1 /\ Len(Retained) \in Nat
    BY <1>2, <2>1, <2>2, AppendProperties
  <2>5. IDs(ToCompact) = Append(IDs(Retained), cur.id) /\ Len(IDs(Retained)) = Len(Retained)
    BY <1>2, <2>1, <2>2, IDsAppend, IDsAre
  <2>6. /\ IDs(ToCompact) \in Seq(Nat) /\ Increasing(IDs(ToCompact))
        /\ IDs(ToCompact)[Len(IDs(Retained)) + 1] = cur.id
    BY <1>3, <1>4, <2>2, <2>3, <2>5, AppendKeeps
  <2>7. ~warned => Agree(Append(ring, cur.id), IDs(ToCompact))
    <3>1. ~warned => Agree(ring, IDs(lines))
      BY DEF LogIInv, EndAlike, RingToBe
    <3>2. ~warned => Agree(ring, IDs(Retained))
      BY <1>1, <1>3, <3>1, AgreeEnd
    <3> QED
      BY <1>1, <1>3, <2>2, <2>5, <3>2, AgreeAppend
  <2> QED
    BY <1>6, <2>4, <2>5, <2>6, <2>7
<1> QED
  BY <1>5, <1>6

\* The rename: the file ends with the entry in hand before the ring does.
LEMMA ReplaceInv ==
    ASSUME LogIInv, Replace
    PROVE  LogIInv'
<1>1. /\ pc = "compact" /\ Compacted # << >> /\ lines' = Compacted /\ tail' = 0
      /\ \A i \in 1..Len(Compacted) : Compacted[i].size <= MaxBytes
      /\ open' = FALSE /\ pc' = "renamed" /\ warned' = warned /\ ring' = ring /\ nextID' = nextID
      /\ cur' = cur /\ reading' = reading
  BY DEF Replace, Goto
<1>2. LogTypeOK /\ ring \in Seq(Nat) /\ reading = NoReport
  BY <1>1 DEF LogIInv, LogTypeOK, ReportLocks
<1>3. ToCompact \in Seq(Line) /\ Compacted \in Seq(Line) /\ EndOf(Compacted, ToCompact)
  BY <1>2, CompactedIs
<1>4. /\ IDs(ToCompact) \in Seq(Nat) /\ Increasing(IDs(ToCompact))
      /\ cur # NoEntry =>
            /\ Len(ToCompact) > 0 /\ IDs(ToCompact)[Len(ToCompact)] = cur.id
            /\ ~warned => Agree(Append(ring, cur.id), IDs(ToCompact))
  BY <1>1, ToCompactIs
<1>5. /\ IDs(Compacted) \in Seq(Nat) /\ EndOf(IDs(Compacted), IDs(ToCompact))
      /\ Len(IDs(Compacted)) = Len(Compacted) /\ Len(IDs(ToCompact)) = Len(ToCompact)
  BY <1>3, IDsAre, IDsEnd
<1>6. Len(Compacted) \in Nat /\ Len(Compacted) > 0 /\ Len(Compacted) \in 1..Len(Compacted)
  BY <1>1, <1>3
<1>7. Increasing(IDs(lines'))
  BY <1>1, <1>4, <1>5, EndOfKeeps
<1>8. cur # NoEntry => lines'[Len(lines')].id = cur.id
  <2>1. IDs(Compacted)[Len(Compacted)] = IDs(ToCompact)[Len(ToCompact)]
    BY <1>4, <1>5, <1>6, EndOfKeeps
  <2>2. IDs(Compacted)[Len(Compacted)] = Compacted[Len(Compacted)].id
    BY <1>3, <1>6, IDsAre
  <2> QED
    BY <1>1, <1>4, <2>1, <2>2
<1>9. LogTypeOK'
  BY <1>1, <1>3 DEF LogIInv, LogTypeOK
<1>10. InHand'
  BY <1>1, <1>6, <1>8 DEF LogIInv, InHand
<1>11. LastFits'
  <2>1. Compacted[Len(Compacted)].size \in Nat
    BY <1>3, <1>6, LineSizes
  <2>2. Compacted[Len(Compacted)].size + 0 <= MaxBytes
    BY <1>1, <1>6, <2>1, RequestLogAssumption
  <2> QED
    BY <1>1, <2>2 DEF LastFits
<1>12. EndAlike'
  <2>1. CASE cur = NoEntry
    <3>1. Len(ring) = 0 /\ RingToBe' = ring
      BY <1>1, <2>1 DEF LogIInv, InHand, RingToBe
    <3> QED
      BY <1>1, <1>2, <1>5, <3>1, Agreeing DEF EndAlike
  <2>2. CASE cur # NoEntry
    <3>1. RingToBe' = Append(ring, cur.id)
      BY <1>1, <2>2 DEF RingToBe
    <3>2. Append(ring, cur.id) \in Seq(Nat)
      BY <1>2, <2>2, EntryOK, AppendProperties
    <3>3. ~warned => Agree(Append(ring, cur.id), IDs(Compacted))
      BY <1>4, <1>5, <2>2, <3>2, AgreeEnd
    <3> QED
      BY <1>1, <3>1, <3>3 DEF EndAlike
  <2> QED
    BY <2>1, <2>2
<1> QED
  BY <1>1, <1>2, <1>7, <1>9, <1>10, <1>11, <1>12 DEF LogIInv, ReportLocks
\* An empty sequence, as file or as ring.
LEMMA Empty ==
    ASSUME NEW n \in Nat
    PROVE  /\ << >> \in Seq(Line) /\ << >> \in Seq(Nat) /\ IDs(<< >>) = << >> /\ Len(<< >>) = 0
           /\ Increasing(<< >>) /\ UpTo(<< >>, n) /\ Below(<< >>, n)
           /\ \A s \in Seq(Nat) : Agree(<< >>, s) /\ Agree(s, << >>)
<1>1. << >> \in Seq(Line) /\ << >> \in Seq(Nat) /\ Len(<< >>) = 0
  OBVIOUS
<1>2. IDs(<< >>) = << >>
  <2>1. IDs(<< >>) \in Seq(Nat) /\ Len(IDs(<< >>)) = 0
    BY <1>1, IDsAre
  <2> QED
    BY <2>1
<1> QED
  BY <1>1, <1>2, Bounds, Agreeing

\* clear empties the file, and the ring with it, or leaves ring and warning alone.
LEMMA ClearLogInv ==
    ASSUME LogIInv, ClearLog
    PROVE  LogIInv'
<1>1. /\ pc = "idle" /\ reading = NoReport /\ lines' = << >> /\ tail' = 0
      /\ open' = open /\ nextID' = nextID /\ pc' = pc /\ cur' = cur /\ reading' = reading
      /\ (ring' = << >> /\ warned' = FALSE) \/ (ring' = ring /\ warned' = warned)
  BY DEF ClearLog
<1>2. nextID \in Nat /\ ring \in Seq(Nat) /\ UpTo(ring, nextID) /\ Increasing(ring) /\ cur = NoEntry
  BY <1>1 DEF LogIInv, LogTypeOK, InHand
<1>3. IDs(lines') = << >> /\ Len(lines') = 0 /\ Increasing(IDs(lines')) /\ UpTo(IDs(lines'), nextID)
      /\ \A s \in Seq(Nat) : Agree(s, IDs(lines'))
  BY <1>1, <1>2, Empty
<1>4. ring' \in Seq(Nat) /\ UpTo(ring', nextID) /\ Increasing(ring')
  BY <1>1, <1>2, Empty
<1>5. LogTypeOK'
  <2>1. lines' \in Seq(Line) /\ tail' \in Nat \cup {-1} /\ tail' # -1
    BY <1>1
  <2>2. open \in BOOLEAN /\ warned' \in BOOLEAN /\ cur \in Line /\ reading \in Seq(Nat)
    BY <1>1 DEF LogIInv, LogTypeOK
  <2> QED
    BY <1>1, <1>2, <1>4, <2>1, <2>2 DEF LogTypeOK
<1>6. InHand'
  BY <1>1, <1>2, <1>3, <1>4 DEF InHand
<1>7. LastFits'
  BY <1>3 DEF LastFits
<1>8. EndAlike'
  BY <1>1, <1>3, <1>4 DEF EndAlike, RingToBe
<1> QED
  BY <1>1, <1>3, <1>4, <1>5, <1>6, <1>7, <1>8 DEF LogIInv, ReportLocks

\* Reports come and go, and the file is closed under late handlers.
LEMMA ReportInv ==
    ASSUME LogIInv, StartReport \/ FinishReport \/ CloseLog \/ UNCHANGED logVars
    PROVE  LogIInv'
<1>1. /\ lines' = lines /\ tail' = tail /\ open' \in {open, FALSE} /\ warned' = warned /\ ring' = ring
      /\ nextID' = nextID /\ pc' = pc /\ cur' = cur
      /\ open' = open \/ pc = "idle"
  BY DEF StartReport, FinishReport, CloseLog, logVars
<1>2. FilePart' /\ Retained' = Retained
  BY <1>1, SameFile
<1>3. IDs(Retained) \in Seq(Nat) /\ NoReport \in Seq(Nat)
  BY RetainedIs, IDsAre DEF LogIInv, NoReport
<1>4. /\ reading' \in Seq(Nat)
      /\ reading' # NoReport => pc \in {"idle", "append"} /\ reading' = IDs(Retained)
  BY <1>3 DEF StartReport, FinishReport, CloseLog, logVars, LogIInv, LogTypeOK, ReportLocks
<1>5. LogTypeOK'
  BY <1>1, <1>4 DEF LogIInv, LogTypeOK
<1>6. InHand' /\ EndAlike'
  BY <1>1 DEF LogIInv, InHand, EndAlike, RingToBe
<1>7. ReportLocks'
  BY <1>1, <1>2, <1>4 DEF ReportLocks
<1> QED
  BY <1>1, <1>2, <1>5, <1>6, <1>7 DEF LogIInv, FilePart

\* The process dies, and leaves a file that can be read.
LEMMA CrashInv ==
    ASSUME LogIInv, Crash
    PROVE  LogIInv'
<1>1. /\ pc' = "down" /\ open' = FALSE /\ warned' = FALSE /\ ring' = << >> /\ nextID' = 0
      /\ cur' = NoEntry /\ reading' = NoReport
  BY DEF Crash, Forget, Goto
<1>2. FilePart'
  BY SameFile, PartialWriteKeeps DEF Crash
<1>3. lines' \in Seq(Line) /\ NoEntry \in Line /\ NoReport \in Seq(Nat)
  BY <1>2 DEF FilePart, NoEntry, Line, NoReport
<1>4. ring' \in Seq(Nat) /\ Increasing(ring') /\ Agree(ring', IDs(lines'))
  BY <1>1, <1>3, Empty, IDsAre
<1>5. LogTypeOK'
  BY <1>1, <1>2, <1>3, <1>4 DEF LogTypeOK, FilePart
<1>6. InHand'
  BY <1>1 DEF InHand
<1>7. EndAlike'
  BY <1>1, <1>4 DEF EndAlike, RingToBe
<1> QED
  BY <1>1, <1>2, <1>4, <1>5, <1>6, <1>7 DEF LogIInv, FilePart, ReportLocks

\* The file is opened.
LEMMA OpenLogInv ==
    ASSUME LogIInv, OpenLog
    PROVE  LogIInv'
<1>1. /\ pc = "down" /\ pc' \in {"compact", "load"} /\ open' = TRUE
      /\ lines' = lines /\ tail' = tail /\ warned' = warned /\ ring' = ring /\ nextID' = nextID
      /\ cur' = cur /\ reading' = reading
  BY DEF OpenLog, Goto
<1>2. cur = NoEntry /\ reading = NoReport
  BY <1>1 DEF LogIInv, InHand, ReportLocks
<1>3. FilePart'
  BY <1>1, SameFile
<1>4. LogTypeOK'
  BY <1>1 DEF LogIInv, LogTypeOK
<1>5. InHand'
  BY <1>1, <1>2 DEF LogIInv, InHand
<1>6. EndAlike'
  BY <1>1, <1>2 DEF LogIInv, EndAlike, RingToBe
<1> QED
  BY <1>1, <1>2, <1>3, <1>4, <1>5, <1>6 DEF LogIInv, FilePart, ReportLocks

\* Numbering goes on behind the newest ID of an increasing sequence.
LEMMA NumberingIs ==
    ASSUME NEW s \in Seq(Nat), Increasing(s)
    PROVE  /\ Max({0} \cup ToSet(s)) \in Nat
           /\ UpTo(s, Max({0} \cup ToSet(s)))
           /\ Len(s) > 0 => Max({0} \cup ToSet(s)) = s[Len(s)]
<1> DEFINE T == {0} \cup ToSet(s)
<1>0. Len(s) \in Nat /\ \A i \in 1..Len(s) : s[i] \in Nat
  OBVIOUS
<1>1. T \in SUBSET Nat /\ \A x : x \in T <=> x = 0 \/ \E i \in 1..Len(s) : x = s[i]
  BY <1>0 DEF ToSet
<1>2. PICK m \in Nat : m \in T /\ UpTo(s, m) /\ (Len(s) > 0 => m = s[Len(s)])
  <2>1. CASE Len(s) = 0
    <3>1. 0 \in T
      OBVIOUS
    <3>2. UpTo(s, 0)
      BY <2>1 DEF UpTo
    <3>3. 0 \in Nat /\ ~(Len(s) > 0)
      BY <2>1
    <3> QED
      BY <3>1, <3>2, <3>3
  <2>2. CASE Len(s) > 0
    <3>1. Len(s) \in 1..Len(s)
      BY <1>0, <2>2
    <3>2. s[Len(s)] \in Nat /\ s[Len(s)] \in T
      BY <1>0, <1>1, <3>1
    <3>3. UpTo(s, s[Len(s)])
      BY <2>2, <3>2, Bounds
    <3> QED
      BY <2>2, <3>2, <3>3
  <2> QED
    BY <1>0, <2>1, <2>2
<1>3. \A y \in T : m >= y
  BY <1>0, <1>1, <1>2 DEF UpTo
<1> HIDE DEF T
<1>4. Max(T) = m
  <2>1. \E x \in T : \A y \in T : x >= y
    BY <1>2, <1>3
  <2>2. Max(T) \in T /\ \A y \in T : Max(T) >= y
    BY <2>1 DEF Max
  <2>3. PICK x \in Nat : x = Max(T) /\ x >= m /\ m >= x
    BY <1>1, <1>2, <1>3, <2>2
  <2> QED
    BY <2>3
<1> QED
  BY <1>2, <1>4 DEF T

\* The file is read back: the ring is its end, and numbering goes on behind it.
LEMMA LoadInv ==
    ASSUME LogIInv, Load
    PROVE  LogIInv'
<1>1. /\ pc = "load" /\ pc' = "idle" /\ ring' = Newest(IDs(Retained), RingLimit)
      /\ nextID' = Max({0} \cup ToSet(IDs(Retained)))
      /\ lines' = lines /\ tail' = tail /\ open' = open /\ warned' = warned
      /\ cur' = cur /\ reading' = reading
  BY DEF Load, Goto
<1>2. LogTypeOK /\ lines \in Seq(Line) /\ Increasing(IDs(lines)) /\ LastFits /\ cur = NoEntry
      /\ reading = NoReport /\ RingLimit \in Nat \ {0}
  BY <1>1, RequestLogAssumption DEF LogIInv, LogTypeOK, InHand, ReportLocks
<1>3. Retained \in Seq(Line) /\ EndOf(Retained, lines) /\ (Len(lines) > 0 => Len(Retained) > 0)
  BY <1>2, RetainedIs
<1>4. /\ IDs(lines) \in Seq(Nat) /\ IDs(Retained) \in Seq(Nat) /\ EndOf(IDs(Retained), IDs(lines))
      /\ Len(IDs(lines)) = Len(lines) /\ Len(IDs(Retained)) = Len(Retained)
  BY <1>2, <1>3, IDsAre, IDsEnd
<1>5. Increasing(IDs(Retained))
  BY <1>2, <1>4, EndOfKeeps
<1>6. /\ nextID' \in Nat /\ UpTo(IDs(Retained), nextID')
      /\ Len(IDs(Retained)) > 0 => nextID' = IDs(Retained)[Len(IDs(Retained))]
  BY <1>1, <1>4, <1>5, NumberingIs
<1>7. UpTo(IDs(lines), nextID')
  <2>0. Len(lines) \in Nat
    BY <1>2
  <2>1. CASE Len(lines) = 0
    BY <1>4, <1>6, <2>1, Bounds
  <2>2. CASE Len(lines) > 0
    <3>1. nextID' = IDs(lines)[Len(IDs(lines))]
      BY <1>3, <1>4, <1>6, <2>2, EndOfKeeps
    <3> QED
      BY <1>2, <1>4, <1>6, <2>2, <3>1, Bounds
  <2> QED
    BY <2>0, <2>1, <2>2
<1>8. ring' \in Seq(Nat) /\ EndOf(ring', IDs(Retained))
  BY <1>1, <1>2, <1>4, NewestIsEnd
<1>9. Increasing(ring') /\ UpTo(ring', nextID')
  BY <1>4, <1>5, <1>6, <1>8, EndOfKeeps
<1>10. Agree(ring', IDs(lines))
  BY <1>4, <1>8, EndOfEnd, Agreeing
<1>11. LogTypeOK'
  BY <1>1, <1>2, <1>6, <1>8 DEF LogTypeOK
<1>12. InHand'
  BY <1>1, <1>2, <1>7, <1>9 DEF InHand
<1>13. EndAlike'
  BY <1>1, <1>10 DEF EndAlike, RingToBe
<1>14. FilePart'
  BY <1>1, SameFile
<1> QED
  BY <1>1, <1>2, <1>9, <1>11, <1>12, <1>13, <1>14 DEF LogIInv, FilePart, ReportLocks

\* The files that an earlier broker may have left.
LEMMA LogInitInv ==
    ASSUME LogInit
    PROVE  LogIInv
<1>0. PICK f \in Files : lines = f.lines /\ tail = f.tail
  BY DEF LogInit
<1>1. /\ open = FALSE /\ warned = FALSE /\ ring = << >> /\ nextID = 0 /\ pc = "down"
      /\ cur = NoEntry /\ reading = NoReport
  BY DEF LogInit
<1>2. /\ lines \in Seq([id : Nat \ {0}, size : Nat \ {0}])
      /\ tail \in Nat \cup {-1} /\ (lines = << >> => tail # -1)
  BY <1>0, RequestLogAssumption
<1>3. lines \in Seq(Line)
  <2>a. \A r \in [id : Nat \ {0}, size : Nat \ {0}] : r \in Line
    BY DEF Line
  <2> DEFINE R == [id : Nat \ {0}, size : Nat \ {0}]
  <2> HIDE DEF R
  <2>b. lines \in Seq(R) /\ \A r \in R : r \in Line
    BY <1>2, <2>a DEF R
  <2> QED
    BY <2>b
<1>4. Increasing(IDs(lines))
  <2>1. IDs(lines) \in Seq(Nat) /\ Len(IDs(lines)) = Len(lines) /\ \A i \in 1..Len(lines) : IDs(lines)[i] = lines[i].id
    BY <1>3, IDsAre
  <2>2. \A i, j \in 1..Len(lines) : i < j => lines[i].id < lines[j].id
    BY <1>0, RequestLogAssumption
  <2> QED
    BY <2>1, <2>2 DEF Increasing
<1>5. LastFits
  <2> SUFFICES ASSUME MaxBytes > 0, Len(lines) > 0
               PROVE  lines[Len(lines)].size + tail <= MaxBytes
    BY DEF LastFits
  <2>1. lines # << >>
    BY <1>3
  <2> QED
    BY <1>0, <2>1, NewestFits DEF Last
<1>6. NoEntry \in Line /\ NoReport \in Seq(Nat)
  BY DEF NoEntry, Line, NoReport
<1>7. ring \in Seq(Nat) /\ Increasing(ring) /\ Agree(ring, IDs(lines))
  BY <1>1, <1>3, Empty, IDsAre
<1>8. LogTypeOK
  BY <1>1, <1>2, <1>3, <1>6, <1>7 DEF LogTypeOK
<1>9. InHand
  BY <1>1 DEF InHand
<1>10. EndAlike
  BY <1>1, <1>7 DEF EndAlike, RingToBe
<1> QED
  BY <1>1, <1>4, <1>5, <1>7, <1>8, <1>9, <1>10 DEF LogIInv, ReportLocks

\* Every step of the log keeps the invariant.
LEMMA LogStepInv ==
    ASSUME LogIInv, [LogNext]_logVars
    PROVE  LogIInv'
<1>1. ASSUME Adding PROVE LogIInv'
  BY <1>1, AddInv, AppendRefusedInv, RepairTailInv, WriteInv, WriteFailsInv, StartCompactInv DEF Adding
<1> QED
  BY <1>1, CompactFailsInv, ReplaceInv, ReopenInv, ClearLogInv, ReportInv, CrashInv, OpenLogInv, LoadInv
     DEF LogNext

-----------------------------------------------------------------------------
(* What holds of the log. *)

\* The inductive invariant holds in every reachable state of the request log.
THEOREM LogIInvHolds == LogSpec => []LogIInv
<1>1. LogInit => LogIInv
  BY LogInitInv
<1>2. LogIInv /\ [LogNext]_logVars => LogIInv'
  BY LogStepInv
<1> QED
  BY <1>1, <1>2, PTL DEF LogSpec

\* IDs increase along file and ring, across crashes, clears, compactions and restarts,
\* and the next is newer; nothing is written to a closed or torn file.
THEOREM LogInvHolds == LogSpec => []LogInv
<1>1. LogIInv => LogInv
  <2> SUFFICES ASSUME LogIInv PROVE LogInv
    OBVIOUS
  <2>1. lines \in Seq(Line) /\ ring \in Seq(Nat) /\ nextID \in Nat
    BY DEF LogIInv, LogTypeOK
  <2>2. IDs(lines) \in Seq(Nat) /\ Len(IDs(lines)) = Len(lines) /\ \A i \in 1..Len(lines) : IDs(lines)[i] = lines[i].id
    BY <2>1, IDsAre
  <2>3. \A i, j \in 1..Len(lines) : i < j => lines[i].id < lines[j].id
    BY <2>2 DEF LogIInv, Increasing
  <2>4. pc \in {"idle", "append", "write"} => UpTo(IDs(lines), nextID) /\ UpTo(ring, nextID)
    <3>1. CASE pc = "idle"
      BY <3>1 DEF LogIInv, InHand
    <3>2. CASE pc \in {"append", "write"}
      <4>1. cur # NoEntry
        BY <3>2 DEF LogIInv, InHand
      <4>2. nextID = cur.id /\ Below(ring, cur.id) /\ Below(IDs(lines), cur.id)
        BY <3>2, <4>1, EntryOK
      <4> QED
        BY <2>1, <2>2, <4>2, Bounds
    <3> QED
      BY <3>1, <3>2
  <2>5. pc \in {"idle", "append", "write"} =>
           \A id \in ToSet(IDs(lines)) \cup ToSet(ring) : id <= nextID
    BY <2>4 DEF UpTo, ToSet
  <2>6. IdsIncrease
    BY <2>3, <2>5 DEF IdsIncrease, LogIInv, Increasing
  <2> QED
    BY <2>6 DEF LogInv, LogIInv
<1> QED
  BY <1>1, LogIInvHolds, PTL

\* As long as no warning is shown, of the dashboard's list and the file one ends with
\* the other: a crash, a failed write or compaction never makes them differ in silence.
THEOREM MemoryMatchesFileHolds == LogSpec => []MemoryMatchesFile
<1>1. LogIInv => MemoryMatchesFile
  <2> SUFFICES ASSUME LogIInv, pc = "idle", ~warned
               PROVE  IsSuffix(ring, IDs(lines)) \/ IsSuffix(IDs(lines), ring)
    BY DEF MemoryMatchesFile
  <2>1. ring \in Seq(Nat) /\ IDs(lines) \in Seq(Nat)
    BY IDsAre DEF LogIInv, LogTypeOK
  <2>2. Agree(ring, IDs(lines))
    BY DEF LogIInv, EndAlike, RingToBe
  <2> QED
    BY <2>1, <2>2, AgreeIsSuffix
<1> QED
  BY <1>1, LogIInvHolds, PTL

\* No clear, repair or compaction changes the file under a report that reads it.
THEOREM ReportIsConsistentHolds == LogSpec => []ReportIsConsistent
<1>1. LogIInv => ReportIsConsistent
  BY DEF LogIInv, ReportLocks, ReportIsConsistent
<1> QED
  BY <1>1, LogIInvHolds, PTL
-----------------------------------------------------------------------------
(* The limit. *)

\* An entry that Fits, fits behind all that the file holds.
LEMMA RoomForEntry ==
    ASSUME LogIInv, pc = "write", Fits, MaxBytes > 0
    PROVE  Bytes(lines) \in Nat /\ Bytes(lines) + cur.size <= MaxBytes
<1>1. Bytes(lines) \in Nat /\ tail \in {0, -1}
  BY BytesType DEF LogIInv, LogTypeOK
<1>2. cur.size \in Nat
  BY EntryOK DEF LogIInv, InHand
<1> QED
  BY <1>1, <1>2, RequestLogAssumption DEF Fits, FileSize

\* A file that is left alone keeps its size, which is a number.
LEMMA SameSize ==
    ASSUME LogIInv, UNCHANGED <<lines, tail>>
    PROVE  FileSize' <= FileSize
<1>1. Bytes(lines) \in Nat /\ tail \in Int
  BY BytesType DEF LogIInv, LogTypeOK
<1>2. FileSize \in Int
  BY <1>1 DEF FileSize
<1>3. FileSize' = FileSize
  BY DEF FileSize
<1> QED
  BY <1>2, <1>3

\* Whatever is written of an entry that Fits, the file stays within its limit.
LEMMA PartialWriteSize ==
    ASSUME LogIInv, pc = "write", Fits, PartialWrite, MaxBytes > 0
    PROVE  FileSize' <= MaxBytes \/ FileSize' <= FileSize
<1>1. Bytes(lines) \in Nat /\ Bytes(lines) + cur.size <= MaxBytes
  BY RoomForEntry
<1>2. cur \in Line /\ cur.size \in Nat /\ cur.size > 1 /\ MaxBytes \in Nat /\ lines \in Seq(Line)
  BY EntryOK, RequestLogAssumption DEF LogIInv, InHand, LogTypeOK
<1>3. CASE UNCHANGED <<lines, tail>>
  BY <1>3, SameSize
<1>4. CASE lines' = lines /\ tail' \in 0..(cur.size - 2)
  <2>1. Bytes(lines') = Bytes(lines)
    BY <1>4
  <2> QED
    BY <1>1, <1>2, <1>4, <2>1 DEF FileSize
<1>5. CASE lines' = Append(lines, cur) /\ tail' = -1
  <2>1. Bytes(lines') = Bytes(lines) + cur.size
    BY <1>2, <1>5, BytesAppend
  <2>2. FileSize' = Bytes(lines') - 1
    BY <1>5 DEF FileSize
  <2> QED
    BY <1>1, <1>2, <2>1, <2>2
<1> QED
  BY <1>2, <1>3, <1>4, <1>5 DEF PartialWrite

\* No step lets the file grow past its limit.
LEMMA StepSize ==
    ASSUME LogIInv, LogNext, MaxBytes > 0
    PROVE  FileSize' <= MaxBytes \/ FileSize' <= FileSize
<1>0. /\ lines \in Seq(Line) /\ tail \in Int /\ Bytes(lines) \in Nat
      /\ MaxBytes \in Nat
  BY BytesType, RequestLogAssumption DEF LogIInv, LogTypeOK
<1>1. CASE UNCHANGED <<lines, tail>>
  BY <1>1, SameSize
<1>2. CASE RepairTail
  <2>1. lines' = lines /\ tail' = IF tail > 0 THEN 0 ELSE tail
    BY <1>2 DEF RepairTail
  <2>2. CASE tail > 0
    <3>1. FileSize = Bytes(lines) + tail /\ FileSize' = Bytes(lines) + 0
      BY <2>1, <2>2 DEF FileSize
    <3> QED
      BY <1>0, <2>2, <3>1
  <2>3. CASE ~(tail > 0)
    BY <2>1, <2>3, SameSize
  <2> QED
    BY <2>2, <2>3
<1>3. CASE Write
  <2>1. lines' = Append(lines, cur) /\ tail' = 0 /\ pc = "write" /\ Fits
    BY <1>3 DEF Write
  <2>2. cur \in Line
    BY <2>1, EntryOK DEF LogIInv, InHand
  <2>3. FileSize' = Bytes(lines') /\ Bytes(lines') = Bytes(lines) + cur.size
    <3>1. FileSize' = Bytes(lines') + 0
      BY <2>1 DEF FileSize
    <3>2. Bytes(lines') = Bytes(lines) + cur.size /\ cur.size \in Nat
      BY <1>0, <2>1, <2>2, BytesAppend DEF Line
    <3> QED
      BY <1>0, <3>1, <3>2
  <2> QED
    BY <2>1, <2>3, RoomForEntry
<1>4. CASE pc = "write" /\ Fits /\ PartialWrite
  BY <1>4, PartialWriteSize
<1>5. CASE Replace
  <2>1. lines' = Compacted /\ tail' = 0 /\ \A i \in 1..Len(Compacted) : Compacted[i].size <= MaxBytes
    BY <1>5 DEF Replace
  <2>2. Bytes(Compacted) <= MaxBytes
    BY <2>1, CompactedIs DEF LogIInv
  <2>3. FileSize' = Bytes(Compacted)
    <3>1. FileSize' = Bytes(Compacted) + 0
      BY <2>1 DEF FileSize
    <3>2. Bytes(Compacted) \in Nat
      BY CompactedIs, BytesType DEF LogIInv
    <3> QED
      BY <3>1, <3>2
  <2> QED
    BY <2>2, <2>3
<1>6. CASE ClearLog
  <2>1. lines' = << >> /\ tail' = 0
    BY <1>6 DEF ClearLog
  <2>2. FileSize' = Bytes(<< >>) + 0
    BY <2>1 DEF FileSize
  <2>3. Bytes(<< >>) = 0
    <3>1. << >> \in Seq(Line)
      OBVIOUS
    <3> QED
      BY <3>1, BytesType
  <2> QED
    BY <1>0, <2>2, <2>3
<1> QED
  BY <1>1, <1>2, <1>3, <1>4, <1>5, <1>6
     DEF LogNext, Adding, Add, AppendRefused, WriteFails, StartCompact, CompactFails, Reopen,
         StartReport, FinishReport, CloseLog, Crash, OpenLog, Load

\* The file never grows past its limit, whatever is repaired, separated, partly
\* written or compacted; one that was too long already only shrinks.
THEOREM NeverGrowsPastLimitHolds == LogSpec => NeverGrowsPastLimit
<1> DEFINE Limited == MaxBytes > 0 /\ FileSize' > MaxBytes => FileSize' <= FileSize
<1>1. LogIInv /\ LogIInv' /\ [LogNext]_logVars => [Limited]_logVars
  <2> SUFFICES ASSUME LogIInv, LogIInv', LogNext, MaxBytes > 0, FileSize' > MaxBytes
               PROVE  FileSize' <= FileSize
    OBVIOUS
  <2>1. FileSize' \in Int /\ MaxBytes \in Int
    <3>1. Bytes(lines') \in Nat /\ tail' \in Int
      BY BytesType DEF LogIInv, LogTypeOK
    <3> QED
      BY <3>1, RequestLogAssumption DEF FileSize
  <2>2. FileSize' <= MaxBytes \/ FileSize' <= FileSize
    BY StepSize
  <2> QED
    BY <2>1, <2>2
<1> QED
  BY <1>1, LogIInvHolds, PTL DEF LogSpec, NeverGrowsPastLimit
-----------------------------------------------------------------------------
(* The log implements the history that its readers are promised. *)

\* Both modules mean the same by the end of a sequence.
LEMMA SuffixAlike ==
    \A s, t : History!IsSuffix(s, t) <=> IsSuffix(s, t)
BY DEF IsSuffix, IsPrefix, Reverse, History!IsSuffix, History!IsPrefix, History!Reverse

\* The newest request of the history, and whether one is pending.
LEMMA HistoryIs ==
    ASSUME LogIInv
    PROVE  /\ IDs(lines) \in Seq(Nat) /\ warned \in BOOLEAN /\ cur.id \in Nat
           /\ cur = NoEntry => cur.id = 0
           /\ cur # NoEntry => cur.id > 0
           /\ cur # NoEntry /\ pc # "renamed" => cur.id > History!Newest
           /\ cur # NoEntry /\ pc = "renamed" => cur.id = History!Newest
           /\ pc = "idle" => nextID + 1 > History!Newest /\ nextID \in Nat
<1>1. /\ lines \in Seq(Line) /\ warned \in BOOLEAN /\ nextID \in Nat /\ cur.id \in Nat
      /\ IDs(lines) \in Seq(Nat) /\ Len(IDs(lines)) = Len(lines)
  BY IDsAre DEF LogIInv, LogTypeOK, Line
<1>2. cur = NoEntry => cur.id = 0
  BY DEF NoEntry
<1>3. cur # NoEntry => cur.id > 0
  BY EntryOK
<1>4. CASE Len(lines) = 0
  <2>1. History!Newest = 0
    BY <1>1, <1>4 DEF History!Newest
  <2>2. pc # "renamed" \/ cur = NoEntry
    BY <1>4 DEF LogIInv, InHand
  <2> QED
    BY <1>1, <1>2, <1>3, <2>1, <2>2
<1>5. CASE Len(lines) > 0
  <2>1. PICK n \in 1..Len(lines) : n = Len(lines)
    BY <1>1, <1>5
  <2>2. IDs(lines) # << >> /\ History!Newest = IDs(lines)[n]
    BY <1>1, <1>5, <2>1 DEF History!Newest, History!Last
  <2>3. IDs(lines)[n] = lines[n].id /\ IDs(lines)[n] \in Nat
    BY <1>1, <2>1, IDsAre
  <2>4. cur # NoEntry /\ pc # "renamed" => cur.id > IDs(lines)[n]
    <3>1. cur # NoEntry /\ pc # "renamed" => Below(IDs(lines), cur.id)
      BY EntryOK
    <3> QED
      BY <1>1, <2>1, <2>3, <3>1 DEF Below
  <2>5. cur # NoEntry /\ pc = "renamed" => cur.id = IDs(lines)[n]
    BY <2>1, <2>3 DEF LogIInv, InHand
  <2>6. pc = "idle" => nextID >= IDs(lines)[n]
    <3>1. pc = "idle" => UpTo(IDs(lines), nextID)
      BY DEF LogIInv, InHand
    <3> QED
      BY <1>1, <2>1, <2>3, <3>1 DEF UpTo
  <2> QED
    BY <1>1, <1>2, <1>3, <2>2, <2>3, <2>4, <2>5, <2>6
<1> QED
  BY <1>1, <1>4, <1>5

\* An entry joins the file, which may lose its oldest lines.
LEMMA EntryStored ==
    ASSUME LogIInv, cur # NoEntry, pc # "renamed", lines' \in Seq(Line), lines' # << >>,
           EndOf(IDs(lines'), Append(IDs(lines), cur.id)), cur' \in {cur, NoEntry}, warned => warned'
    PROVE  History!Store
<1>1. IDs(lines) \in Seq(Nat) /\ cur.id \in Nat /\ cur.id > History!Newest
  BY HistoryIs
<1>2. Append(IDs(lines), cur.id) \in Seq(Nat) /\ IDs(lines') \in Seq(Nat) /\ IDs(lines') # << >>
  <2>1. IDs(lines') \in Seq(Nat) /\ Len(IDs(lines')) = Len(lines') /\ Len(lines') # 0
    BY IDsAre
  <2> QED
    BY <1>1, <2>1, AppendProperties
<1>3. IsSuffix(IDs(lines'), Append(IDs(lines), cur.id))
  BY <1>2, EndIsSuffix
<1>4. cur'.id \in {cur.id, 0}
  BY DEF NoEntry
<1> QED
  BY <1>1, <1>2, <1>3, <1>4, SuffixAlike DEF History!Store, History!LosesOldest

\* What is appended to the file is stored.
LEMMA LineStored ==
    ASSUME LogIInv, cur # NoEntry, pc # "renamed", lines' = Append(lines, cur), cur' = NoEntry,
           warned => warned'
    PROVE  History!Store
<1>1. lines \in Seq(Line) /\ cur \in Line /\ cur.id \in Nat
  BY EntryOK DEF LogIInv, LogTypeOK
<1>2. lines' \in Seq(Line) /\ lines' # << >>
  BY <1>1, AppendProperties
<1>3. IDs(lines') = Append(IDs(lines), cur.id) /\ IDs(lines') \in Seq(Nat)
  BY <1>1, <1>2, IDsAppend, IDsAre
<1>4. EndOf(IDs(lines'), Append(IDs(lines), cur.id))
  <2>1. \A s \in Seq(Nat) : EndOf(s, s)
    BY DEF EndOf
  <2> QED
    BY <1>3, <2>1
<1> QED
  BY <1>2, <1>4, EntryStored

\* An entry is done with, and the file left alone.
LEMMA EntrySettled ==
    ASSUME LogIInv, cur # NoEntry, NEW err \in BOOLEAN, FinishAdd(err), lines' = lines,
           err \/ pc = "renamed"
    PROVE  History!Settle
<1>1. cur.id # 0 /\ cur'.id = 0 /\ warned' = (warned \/ err) /\ IDs(lines') = IDs(lines)
  BY HistoryIs DEF FinishAdd, NoEntry
<1>2. cur.id = History!Newest \/ warned'
  BY <1>1, HistoryIs
<1> QED
  BY <1>1, <1>2 DEF History!Settle

\* A failed or finished compaction settles the entry, or shows a warning at most.
LEMMA CompactionSettled ==
    ASSUME LogIInv, NEW err \in BOOLEAN, FinishCompact(err), lines' = lines, err \/ pc = "renamed"
    PROVE  History!Settle \/ History!Warn \/ UNCHANGED History!historyVars
<1>1. CASE cur # NoEntry
  BY <1>1, EntrySettled DEF FinishCompact
<1>2. CASE cur = NoEntry
  <2>1. cur' = cur /\ warned' = (warned \/ err) /\ warned \in BOOLEAN
    BY <1>2, HistoryIs DEF FinishCompact
  <2> QED
    BY <2>1 DEF History!Warn, History!historyVars
<1> QED
  BY <1>1, <1>2

\* The rename of a compaction stores the entry in hand, or trims the history.
LEMMA ReplaceStores ==
    ASSUME LogIInv, Replace
    PROVE  History!Store \/ History!Trim
<1>1. /\ pc = "compact" /\ Compacted # << >> /\ lines' = Compacted /\ cur' = cur /\ warned' = warned
  BY DEF Replace
<1>2. LogTypeOK /\ lines \in Seq(Line) /\ IDs(lines) \in Seq(Nat)
  BY HistoryIs DEF LogIInv, LogTypeOK
<1>3. ToCompact \in Seq(Line) /\ Compacted \in Seq(Line) /\ EndOf(Compacted, ToCompact)
  BY <1>2, CompactedIs
<1>4. IDs(Compacted) \in Seq(Nat) /\ EndOf(IDs(Compacted), IDs(ToCompact)) /\ Len(IDs(Compacted)) = Len(Compacted)
  BY <1>3, IDsAre, IDsEnd
<1>5. Retained \in Seq(Line) /\ EndOf(Retained, lines)
  BY <1>2, RetainedIs
<1>6. IDs(Retained) \in Seq(Nat) /\ EndOf(IDs(Retained), IDs(lines))
  BY <1>2, <1>5, IDsAre, IDsEnd
<1>7. CASE cur # NoEntry
  <2>1. cur \in Line /\ cur.id \in Nat
    BY <1>7, EntryOK
  <2>2. IDs(ToCompact) = Append(IDs(Retained), cur.id)
    BY <1>5, <1>7, <2>1, IDsAppend DEF ToCompact
  <2>3. /\ Append(IDs(Retained), cur.id) \in Seq(Nat) /\ Append(IDs(lines), cur.id) \in Seq(Nat)
        /\ EndOf(Append(IDs(Retained), cur.id), Append(IDs(lines), cur.id))
    BY <1>2, <1>6, <2>1, EndOfAppend, AppendProperties
  <2>4. EndOf(IDs(Compacted), Append(IDs(lines), cur.id))
    BY <1>4, <2>2, <2>3, EndOfEnd
  <2>5. lines' \in Seq(Line) /\ lines' # << >> /\ EndOf(IDs(lines'), Append(IDs(lines), cur.id))
    BY <1>1, <1>3, <2>4
  <2> QED
    BY <1>1, <1>7, <2>5, EntryStored
<1>8. CASE cur = NoEntry
  <2>1. ToCompact = Retained
    BY <1>8 DEF ToCompact
  <2>2. EndOf(IDs(Compacted), IDs(lines))
    BY <1>2, <1>4, <1>6, <2>1, EndOfEnd
  <2>3. IsSuffix(IDs(lines'), IDs(lines))
    BY <1>1, <1>2, <1>4, <2>2, EndIsSuffix
  <2>4. IDs(lines') # << >> /\ IDs(lines) # << >>
    <3>1. Len(Compacted) > 0 /\ Len(IDs(lines)) > 0
      BY <1>1, <1>2, <1>3, <1>4, <2>2 DEF EndOf
    <3> QED
      BY <1>1, <1>2, <1>4, <3>1
  <2> QED
    BY <1>1, <2>3, <2>4, SuffixAlike DEF History!Trim, History!LosesOldest
<1> QED
  BY <1>7, <1>8

\* A process that dies loses at most the request being recorded.
LEMMA CrashStops ==
    ASSUME LogIInv, Crash
    PROVE  History!Stop
<1>1. cur'.id = 0 /\ warned' = FALSE
  BY DEF Crash, Forget, NoEntry
<1>2. CASE lines' = lines
  BY <1>1, <1>2 DEF History!Stop
<1>3. CASE pc = "write" /\ lines' = Append(lines, cur)
  <2>1. cur # NoEntry /\ cur \in Line /\ lines \in Seq(Line)
    BY <1>3, EntryOK DEF LogIInv, InHand, LogTypeOK
  <2>2. IDs(lines') = Append(IDs(lines), cur.id)
    BY <1>3, <2>1, IDsAppend
  <2>3. cur.id # 0 /\ ~(cur.id <= History!Newest)
    <3>1. cur.id \in Nat /\ cur.id > 0 /\ cur.id > History!Newest
      BY <1>3, <2>1, HistoryIs
    <3>2. History!Newest \in Int
      <4>1. IDs(lines) \in Seq(Nat)
        BY <2>1, IDsAre
      <4> QED
        BY <4>1 DEF History!Newest, History!Last
    <3> QED
      BY <3>1, <3>2
  <2> QED
    BY <1>1, <2>2, <2>3 DEF History!Stop
<1> QED
  BY <1>2, <1>3 DEF Crash, PartialWrite

\* Every step of the log is a step of the history, or none.
LEMMA LogStepRefines ==
    ASSUME LogIInv, [LogNext]_logVars
    PROVE  [History!HistoryNext]_(History!historyVars)
<1>0. TRUE \in BOOLEAN /\ warned \in BOOLEAN
  BY HistoryIs
<1>1. CASE UNCHANGED <<lines, cur, warned>>
  BY <1>1 DEF History!historyVars
<1>2. ASSUME NEW size \in Sizes, Add(size) PROVE History!Accept
  <2>1. pc = "idle" /\ lines' = lines /\ warned' = warned /\ cur' = [id |-> nextID + 1, size |-> size]
    BY <1>2 DEF Add
  <2>2. cur = NoEntry
    BY <2>1 DEF LogIInv, InHand
  <2>3. cur.id = 0 /\ cur'.id = nextID + 1 /\ nextID + 1 > History!Newest
    BY <2>1, <2>2, HistoryIs
  <2> QED
    BY <2>1, <2>3 DEF History!Accept
<1>3. ASSUME AppendRefused PROVE History!Settle
  <2>1. cur # NoEntry /\ FinishAdd(TRUE) /\ lines' = lines
    BY <1>3 DEF AppendRefused, LogIInv, InHand
  <2> QED
    BY <1>0, <2>1, EntrySettled
<1>4. ASSUME RepairTail PROVE History!Warn \/ UNCHANGED History!historyVars
  <2>1. lines' = lines /\ cur' = cur /\ warned' = (warned \/ tail > 0)
    BY <1>4 DEF RepairTail
  <2> QED
    BY <1>0, <2>1 DEF History!Warn, History!historyVars
<1>5. ASSUME Write PROVE History!Store
  <2>1. cur # NoEntry /\ pc # "renamed" /\ lines' = Append(lines, cur) /\ cur' = NoEntry
        /\ (warned => warned')
    BY <1>5 DEF Write, FinishAdd, LogIInv, InHand
  <2> QED
    BY <2>1, LineStored
<1>6. ASSUME WriteFails PROVE History!Store \/ History!Settle
  <2>1. cur # NoEntry /\ pc # "renamed" /\ cur' = NoEntry /\ (warned => warned') /\ FinishAdd(TRUE)
    BY <1>6 DEF WriteFails, FinishAdd, LogIInv, InHand
  <2>2. lines' = lines \/ lines' = Append(lines, cur)
    BY <1>6 DEF WriteFails, PartialWrite
  <2> QED
    BY <1>0, <2>1, <2>2, LineStored, EntrySettled
<1>7. ASSUME CompactFails \/ Reopen
      PROVE  History!Settle \/ History!Warn \/ UNCHANGED History!historyVars
  <2>1. PICK err \in BOOLEAN : FinishCompact(err) /\ (err \/ pc = "renamed")
    BY <1>0, <1>7 DEF CompactFails, Reopen
  <2>2. lines' = lines
    BY <1>7 DEF CompactFails, Reopen
  <2> QED
    BY <2>1, <2>2, CompactionSettled
<1>8. ASSUME ClearLog PROVE History!Clear
  <2>1. pc = "idle" /\ lines' = << >> /\ cur' = cur /\ warned' \in {warned, FALSE}
    BY <1>8 DEF ClearLog
  <2>2. cur.id = 0 /\ IDs(lines') = << >>
    BY <2>1, HistoryIs, Empty DEF LogIInv, InHand
  <2> QED
    BY <2>1, <2>2 DEF History!Clear
<1>9. CASE UNCHANGED logVars
  BY <1>1, <1>9 DEF logVars
<1>10. ASSUME StartCompact \/ StartReport \/ FinishReport \/ CloseLog \/ OpenLog \/ Load
       PROVE  UNCHANGED History!historyVars
  BY <1>1, <1>10 DEF StartCompact, StartReport, FinishReport, CloseLog, OpenLog, Load, History!historyVars
<1> QED
  BY <1>2, <1>3, <1>4, <1>5, <1>6, <1>7, <1>8, <1>9, <1>10, ReplaceStores, CrashStops
     DEF LogNext, Adding, History!HistoryNext

\* The log implements the history that its readers are promised: entries are only lost
\* oldest first, by clearing or with a warning, and a crash loses at most the request
\* being recorded, wherever in append or compact it strikes.
THEOREM LogImplementsHistory == LogSpec => ImplementsHistory
<1>1. LogInit => History!HistoryInit
  <2> SUFFICES ASSUME LogInit PROVE History!HistoryInit
    OBVIOUS
  <2>1. Increasing(IDs(lines))
    BY LogInitInv DEF LogIInv
  <2>2. cur.id = 0 /\ warned = FALSE
    BY DEF LogInit, NoEntry
  <2> QED
    BY <2>1, <2>2 DEF History!HistoryInit, Increasing
<1>2. LogIInv /\ [LogNext]_logVars => [History!HistoryNext]_(History!historyVars)
  BY LogStepRefines
<1> QED
  BY <1>1, <1>2, LogIInvHolds, PTL DEF LogSpec, ImplementsHistory, History!HistorySpec
=============================================================================
