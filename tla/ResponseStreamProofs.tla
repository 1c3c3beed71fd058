------------------------ MODULE ResponseStreamProofs ------------------------
(***************************************************************************)
(* Proofs about ResponseStream, for every stream, every size of its reads  *)
(* and every point at which it breaks off. First induction over numbers,   *)
(* stated with sets, and loops; then the framer against its reference, the *)
(* translator, and the handler.                                            *)
(***************************************************************************)
EXTENDS ResponseStream, SequenceTheorems, FiniteSetTheorems, WellFoundedInduction, TLAPS

-----------------------------------------------------------------------------
(* Induction. *)

\* A set of numbers has a smallest member.
LEMMA SmallestIn ==
    ASSUME NEW T \in SUBSET Nat, T # {}
    PROVE  \E x \in T : \A y \in T : x <= y
<1> DEFINE Less == {ss \in Nat \X Nat : ss[1] < ss[2]}
<1>1. IsWellFoundedOn(Less, Nat)
  BY NatLessThanWellFounded, Zenon DEF OpToRel
<1>2. PICK x \in T : \A y \in T : ~(<<y, x>> \in Less)
  <2> HIDE DEF Less
  <2> QED
    BY <1>1, WFMin
<1>3. ASSUME NEW y \in T PROVE x <= y
  <2>1. x \in Nat /\ y \in Nat /\ ~(<<y, x>> \in Less)
    BY <1>2
  <2>2. <<y, x>> \in Less <=> y < x
    <3>1. <<y, x>> \in Nat \X Nat /\ <<y, x>>[1] = y /\ <<y, x>>[2] = x
      BY <2>1
    <3> QED
      BY <3>1, Zenon DEF Less
  <2> HIDE DEF Less
  <2> QED
    BY <2>1, <2>2
<1> QED
  BY <1>3

\* What holds at 0 and from each number to the next holds up to n.
LEMMA UpTo ==
    ASSUME NEW n \in Nat, NEW T, 0 \in T, \A i \in 1..n : i - 1 \in T => i \in T
    PROVE  \A i \in 0..n : i \in T
<1> DEFINE U == {i \in 0..n : i \notin T}
<1>1. ASSUME U # {} PROVE FALSE
  <2>1. U \in SUBSET Nat
    OBVIOUS
  <2>2. PICK x \in U : \A y \in U : x <= y
    <3> HIDE DEF U
    <3> QED
      BY <1>1, <2>1, SmallestIn
  <2>3. x \in Nat /\ x <= n /\ x \notin T /\ x # 0
    BY <2>2
  <2>4. x \in 1..n /\ x - 1 \in 0..n /\ ~(x <= x - 1)
    BY <2>3
  <2>5. x - 1 \in T
    BY <2>2, <2>4
  <2> QED
    BY <2>3, <2>4, <2>5
<1> QED
  BY <1>1

\* The largest member of a set of numbers that a number bounds.
LEMMA MaxOf ==
    ASSUME NEW n \in Nat, NEW T \in SUBSET (0..n), NEW x \in T, \A y \in T : y <= x
    PROVE  Max(T) = x
<1>1. \A y \in T : x >= y
  OBVIOUS
<1> DEFINE m == Max(T)
<1>2. m \in T /\ \A y \in T : m >= y
  BY <1>1 DEF Max
<1> HIDE DEF m
<1>3. m \in Nat /\ x \in Nat /\ m >= x /\ x >= m
  BY <1>1, <1>2
<1>4. m = x
  BY <1>3
<1> QED
  BY <1>4 DEF m

\* There is one.
LEMMA LargestIn ==
    ASSUME NEW n \in Nat, NEW T \in SUBSET (0..n), T # {}
    PROVE  \E x \in T : \A y \in T : y <= x
<1> DEFINE U == {n - y : y \in T}
<1>1. \A y \in T : y \in Nat /\ y <= n /\ n - y \in Nat
  OBVIOUS
<1>2. U \in SUBSET Nat /\ U # {}
  BY <1>1
<1>3. PICK u \in U : \A v \in U : u <= v
  <2> HIDE DEF U
  <2> QED
    BY <1>2, SmallestIn
<1>4. PICK x \in T : u = n - x
  BY <1>3
<1>5. ASSUME NEW y \in T PROVE y <= x
  <2>1. n - y \in U
    OBVIOUS
  <2>2. n - x <= n - y
    BY <1>3, <1>4, <2>1
  <2> QED
    BY <2>2
<1> QED
  BY <1>5

\* The turns of a loop that runs n times, each time from S to S, and what it makes of s.
Loops(n, S) == [1..n -> [S -> S]]

Run(f, n, S, s, g) == f \in [0..n -> S] /\ f[0] = s /\ \A i \in 1..n : f[i] = g[i][f[i - 1]]

\* Such a loop has a result.
LEMMA LoopRuns ==
    ASSUME NEW n \in Nat, NEW S, NEW s \in S, NEW g \in Loops(n, S)
    PROVE  \E f : Run(f, n, S, s, g)
<1>1. g \in [1..n -> [S -> S]]
  BY DEF Loops
<1> DEFINE Partial(k) == \E f \in [0..k -> S] : f[0] = s /\ \A i \in 1..k : f[i] = g[i][f[i - 1]]
<1> DEFINE T == {k \in 0..n : Partial(k)}
<1>2. 0 \in T
  <2> DEFINE z == [i \in 0..0 |-> s]
  <2>1. z \in [0..0 -> S] /\ z[0] = s /\ \A i \in 1..0 : z[i] = g[i][z[i - 1]]
    OBVIOUS
  <2>2. Partial(0)
    BY <2>1
  <2> QED
    BY <2>2
<1>3. ASSUME NEW k \in 1..n, k - 1 \in T PROVE k \in T
  <2>1. k \in Nat /\ k - 1 \in Nat /\ k - 1 \in 0..(k - 1) /\ k - 1 < k
    OBVIOUS
  <2>2. PICK f \in [0..(k - 1) -> S] : f[0] = s /\ \A i \in 1..(k - 1) : f[i] = g[i][f[i - 1]]
    BY <1>3
  <2>3. f[k - 1] \in S /\ g[k][f[k - 1]] \in S
    BY <1>1, <2>1, <2>2
  <2> DEFINE h == [i \in 0..k |-> IF i = k THEN g[k][f[k - 1]] ELSE f[i]]
  <2>4. h \in [0..k -> S] /\ h[0] = s
    BY <2>1, <2>2, <2>3
  <2>5. ASSUME NEW i \in 1..k PROVE h[i] = g[i][h[i - 1]]
    <3>1. i - 1 \in 0..(k - 1) /\ i - 1 \in 0..k /\ i \in 0..k /\ i - 1 # k
      BY <2>1
    <3>2. h[i - 1] = f[i - 1]
      BY <3>1
    <3>3. CASE i = k
      BY <3>1, <3>2, <3>3
    <3>4. CASE i # k
      <4>1. i \in 1..(k - 1) /\ h[i] = f[i]
        BY <2>1, <3>1, <3>4
      <4> QED
        BY <2>2, <3>2, <4>1
    <3> QED
      BY <3>3, <3>4
  <2>6. Partial(k)
    <3> HIDE DEF h
    <3> QED
      BY <2>4, <2>5
  <2> HIDE DEF Partial, h
  <2> QED
    BY <2>6
<1>4. n \in T
  <2> HIDE DEF T
  <2>1. \A i \in 0..n : i \in T
    BY <1>2, <1>3, UpTo
  <2> QED
    BY <2>1
<1> QED
  BY <1>4 DEF Run

-----------------------------------------------------------------------------
(* Lines of a text. *)

Octets == Seq(Words)

Texts == Seq(Octets)

\* s is where a line begins that goes on, or ends, at position i.
Begins(text, s, i) ==
    /\ s \in 1..i
    /\ s = 1 \/ text[s - 1] = "n"
    /\ \A j \in (s + 1)..i : text[j - 1] # "n"

\* LineStart is such a place.
LEMMA StartOf ==
    ASSUME NEW text, NEW i \in Nat \ {0}
    PROVE  Begins(text, LineStart(text, i), i)
<1> DEFINE T == {j \in 1..i : j = 1 \/ text[j - 1] = "n"}
<1>1. T \in SUBSET (0..i) /\ 1 \in T
  OBVIOUS
<1>2. PICK x \in T : \A y \in T : y <= x
  <2> HIDE DEF T
  <2> QED
    BY <1>1, LargestIn
<1>3. LineStart(text, i) = x
  <2>1. Max(T) = x
    <3> HIDE DEF T
    <3> QED
      BY <1>1, <1>2, MaxOf
  <2> QED
    BY <2>1 DEF LineStart
<1>4. x \in 1..i /\ (x = 1 \/ text[x - 1] = "n")
  BY <1>2
<1>5. ASSUME NEW j \in (x + 1)..i PROVE text[j - 1] # "n"
  <2>1. j \in 1..i /\ ~(j <= x)
    BY <1>4
  <2> QED
    BY <1>2, <2>1
<1> QED
  BY <1>3, <1>4, <1>5 DEF Begins

\* And the only one.
LEMMA StartIs ==
    ASSUME NEW text, NEW i \in Nat \ {0}, NEW s, Begins(text, s, i)
    PROVE  LineStart(text, i) = s
<1> DEFINE T == {j \in 1..i : j = 1 \/ text[j - 1] = "n"}
<1>1. T \in SUBSET (0..i) /\ s \in T /\ s \in Nat
  BY DEF Begins
<1>2. ASSUME NEW y \in T, ~(y <= s) PROVE FALSE
  <2>1. y \in (s + 1)..i /\ y # 1
    BY <1>1, <1>2
  <2>2. text[y - 1] # "n"
    BY <2>1 DEF Begins
  <2> QED
    BY <2>1, <2>2
<1>3. Max(T) = s
  <2>1. \A y \in T : y <= s
    BY <1>2
  <2> HIDE DEF T
  <2> QED
    BY <1>1, <2>1, MaxOf
<1> QED
  BY <1>3 DEF LineStart

\* A part of a text.
LEMMA PartOf ==
    ASSUME NEW S, NEW t \in Seq(S), NEW a \in Nat \ {0}, NEW b \in Nat, a <= b + 1, b <= Len(t)
    PROVE  /\ SubSeq(t, a, b) \in Seq(S) /\ Len(SubSeq(t, a, b)) = b - a + 1
           /\ \A i \in 1..(b - a + 1) : SubSeq(t, a, b)[i] = t[a + i - 1]
<1>1. Len(t) \in Nat /\ \A j \in a..b : t[j] \in S
  OBVIOUS
<1>2. SubSeq(t, a, b) = [i \in 1..(b - a + 1) |-> t[a + i - 1]] /\ b - a + 1 \in Nat
  BY <1>1
<1>3. \A i \in 1..(b - a + 1) : a + i - 1 \in a..b
  OBVIOUS
<1> QED
  BY <1>1, <1>2, <1>3

\* The line end and the byte before it are cut off.
LEMMA TrimType ==
    ASSUME NEW l \in Octets
    PROVE  TrimCR(l) \in Octets
<1>1. CASE l # << >> /\ Last(l) = "r"
  <2>1. Len(l) \in Nat /\ Len(l) > 0
    BY <1>1 DEF Octets
  <2>2. SubSeq(l, 1, Len(l) - 1) \in Octets
    <3>1. Len(l) - 1 \in Nat /\ 1 <= Len(l) - 1 + 1 /\ Len(l) - 1 <= Len(l)
      BY <2>1
    <3> QED
      BY <3>1, PartOf DEF Octets
  <2> QED
    BY <1>1, <2>2 DEF TrimCR, Front
<1>2. CASE ~(l # << >> /\ Last(l) = "r")
  BY <1>2 DEF TrimCR
<1> QED
  BY <1>1, <1>2

\* What a data line says.
LEMMA DataType ==
    ASSUME NEW l \in Octets, IsData(l)
    PROVE  DataOf(l) \in Octets
<1> DEFINE value == SubSeq(l, 3, Len(l))
<1>1. Len(l) \in Nat /\ Len(l) >= 2
  BY DEF IsData, Octets
<1>2. value \in Octets
  <2>1. 3 <= Len(l) + 1
    BY <1>1
  <2> QED
    BY <1>1, <2>1, PartOf DEF Octets
<1> HIDE DEF value
<1>3. value # << >> => Tail(value) \in Octets
  BY <1>2 DEF Octets
<1>4. DataOf(l) = IF value # << >> /\ Head(value) = " " THEN Tail(value) ELSE value
  BY DEF DataOf, value
<1> QED
  BY <1>2, <1>3, <1>4

\* A line of a text.
LEMMA LineType ==
    ASSUME NEW text \in Octets, NEW i \in 1..Len(text)
    PROVE  LineAt(text, i) \in Octets
<1> DEFINE s == LineStart(text, i)
<1>1. i \in Nat \ {0} /\ i - 1 \in Nat /\ i - 1 <= Len(text) /\ Len(text) \in Nat
  BY DEF Octets
<1>2. s \in 1..i
  BY <1>1, StartOf DEF Begins
<1>3. s \in Nat \ {0} /\ s <= i - 1 + 1
  BY <1>1, <1>2
<1> HIDE DEF s
<1>4. SubSeq(text, s, i - 1) \in Octets
  BY <1>1, <1>3, PartOf DEF Octets
<1>5. LineAt(text, i) = TrimCR(SubSeq(text, s, i - 1))
  BY DEF LineAt, s
<1> QED
  BY <1>4, <1>5, TrimType

-----------------------------------------------------------------------------
(* The reference, position by position. *)

Readings == [events : Texts, open : Texts]

Silence == [events |-> << >>, open |-> << >>]

\* One position more is a reading again.
LEMMA SaidType ==
    ASSUME NEW text \in Octets, NEW i \in 1..Len(text), NEW before \in Readings
    PROVE  Said(text, i, before) \in Readings
<1> DEFINE line == LineAt(text, i)
<1> DEFINE data == IF before.open = << >> THEN DataOf(line) ELSE before.open[1] \o <<"n">> \o DataOf(line)
<1>1. line \in Octets
  BY LineType
<1>2. before.events \in Texts /\ before.open \in Texts
  BY DEF Readings
<1> HIDE DEF line
<1>3. CASE text[i] # "n"
  <2>1. Said(text, i, before) = before
    BY <1>3 DEF Said
  <2> QED
    BY <2>1
<1>4. CASE text[i] = "n" /\ line = << >>
  <2>1. Said(text, i, before) = [events |-> before.events \o before.open, open |-> << >>]
    BY <1>4 DEF Said, line
  <2>2. before.events \o before.open \in Texts /\ << >> \in Texts
    BY <1>2 DEF Texts
  <2> QED
    BY <2>1, <2>2 DEF Readings
<1>5. CASE text[i] = "n" /\ line # << >>
  <2>1. Said(text, i, before) = IF IsData(line) THEN [before EXCEPT !.open = <<data>>] ELSE before
    BY <1>5 DEF Said, line
  <2>2. ASSUME IsData(line) PROVE <<data>> \in Texts
    <3>1. DataOf(line) \in Octets
      BY <1>1, <2>2, DataType
    <3>2. ASSUME before.open # << >> PROVE before.open[1] \o <<"n">> \o DataOf(line) \in Octets
      <4>1. before.open[1] \in Octets
        <5>1. Len(before.open) \in Nat /\ Len(before.open) > 0
          BY <1>2, <3>2 DEF Texts
        <5> QED
          BY <1>2, <5>1 DEF Texts
      <4>2. <<"n">> \in Octets
        <5>1. "n" \in Words
          BY StreamAssumption
        <5> QED
          BY <5>1 DEF Octets
      <4>3. before.open[1] \o <<"n">> \in Octets
        BY <4>1, <4>2 DEF Octets
      <4> QED
        BY <3>1, <4>3 DEF Octets
    <3>3. data \in Octets
      BY <3>1, <3>2
    <3> HIDE DEF data
    <3> QED
      BY <3>3 DEF Texts
  <2> HIDE DEF data
  <2>3. CASE IsData(line)
    BY <2>1, <2>2, <2>3 DEF Readings
  <2>4. CASE ~IsData(line)
    BY <2>1, <2>4
  <2> QED
    BY <2>3, <2>4
<1> QED
  BY <1>3, <1>4, <1>5

\* Reading is the loop over the positions of a text.
LEMMA ReadingIs ==
    ASSUME NEW text \in Octets
    PROVE  /\ Reading(text)[0] = Silence
           /\ \A i \in 1..Len(text) : Reading(text)[i] = Said(text, i, Reading(text)[i - 1])
           /\ \A i \in 0..Len(text) : Reading(text)[i] \in Readings
<1> DEFINE n == Len(text)
<1> DEFINE Fix(h) == h = [i \in 0..n |-> IF i = 0 THEN Silence ELSE Said(text, i, h[i - 1])]
<1> DEFINE g == [i \in 1..n |-> [u \in Readings |-> Said(text, i, u)]]
<1>1. n \in Nat /\ Silence \in Readings
  BY DEF Octets, Silence, Readings, Texts
<1>2. g \in Loops(n, Readings)
  BY SaidType DEF Loops
<1>3. PICK f : Run(f, n, Readings, Silence, g)
  <2> HIDE DEF g, n
  <2> QED
    BY <1>1, <1>2, LoopRuns
<1>4. Fix(f)
  <2>1. ASSUME NEW i \in 0..n PROVE f[i] = IF i = 0 THEN Silence ELSE Said(text, i, f[i - 1])
    <3>1. CASE i = 0
      BY <1>3, <3>1 DEF Run
    <3>2. CASE i # 0
      <4>1. i \in 1..n /\ i - 1 \in 0..n
        BY <1>1, <3>2
      <4>2. f[i - 1] \in Readings /\ f[i] = g[i][f[i - 1]]
        BY <1>3, <4>1 DEF Run
      <4> QED
        BY <3>2, <4>1, <4>2
    <3> QED
      BY <3>1, <3>2
  <2>2. f = [i \in 0..n |-> f[i]]
    BY <1>3 DEF Run
  <2> DEFINE e == [i \in 0..n |-> IF i = 0 THEN Silence ELSE Said(text, i, f[i - 1])]
  <2>3. e = [i \in 0..n |-> e[i]]
    OBVIOUS
  <2>4. ASSUME NEW i \in 0..n PROVE f[i] = e[i]
    BY <2>1
  <2>5. f = e
    <3> HIDE DEF e, n, g
    <3> QED
      BY <2>2, <2>3, <2>4
  <2> QED
    BY <2>5
<1>5. Reading(text) = CHOOSE h : Fix(h)
  BY DEF Reading, Silence
<1> DEFINE r == Reading(text)
<1>6. Fix(r)
  <2> HIDE DEF Fix
  <2> QED
    BY <1>4, <1>5
<1> HIDE DEF r
<1>7. r[0] = Silence /\ \A i \in 1..n : r[i] = Said(text, i, r[i - 1])
  BY <1>1, <1>6
<1>8. \A i \in 0..n : r[i] \in Readings
  <2> DEFINE T == {i \in 0..n : r[i] \in Readings}
  <2>1. 0 \in T
    BY <1>1, <1>7
  <2>2. ASSUME NEW i \in 1..n, i - 1 \in T PROVE i \in T
    BY <1>1, <1>7, <2>2, SaidType
  <2>3. \A i \in 0..n : i \in T
    <3> HIDE DEF T, n
    <3> QED
      BY <1>1, <2>1, <2>2, UpTo
  <2> QED
    BY <2>3
<1> QED
  BY <1>7, <1>8 DEF r

\* Texts that agree up to a position say the same up to it.
LEMMA SameReading ==
    ASSUME NEW s \in Octets, NEW t \in Octets, NEW n \in Nat, n <= Len(s), n <= Len(t),
           \A i \in 1..n : s[i] = t[i]
    PROVE  \A i \in 0..n : Reading(s)[i] = Reading(t)[i]
<1> DEFINE T == {i \in 0..n : Reading(s)[i] = Reading(t)[i]}
<1>1. Len(s) \in Nat /\ Len(t) \in Nat
  BY DEF Octets
<1>2. 0 \in T
  BY ReadingIs
<1>3. ASSUME NEW i \in 1..n, i - 1 \in T PROVE i \in T
  <2>1. i \in 1..Len(s) /\ i \in 1..Len(t) /\ i \in Nat \ {0} /\ i - 1 \in Nat
    BY <1>1
  <2>2. s[i] = t[i] /\ Reading(s)[i - 1] = Reading(t)[i - 1]
    BY <1>3
  <2>3. LineAt(s, i) = LineAt(t, i)
    <3> DEFINE b == LineStart(t, i)
    <3>1. Begins(t, b, i)
      BY <2>1, StartOf
    <3> HIDE DEF b
    <3>2. b \in 1..i /\ \A j \in 2..i : s[j - 1] = t[j - 1]
      BY <2>1, <3>1 DEF Begins
    <3>3. Begins(s, b, i)
      <4>1. b = 1 \/ s[b - 1] = "n"
        BY <3>1, <3>2 DEF Begins
      <4>2. ASSUME NEW j \in (b + 1)..i PROVE s[j - 1] # "n"
        <5>1. j \in 2..i /\ t[j - 1] # "n"
          BY <3>1, <3>2, <4>2 DEF Begins
        <5> QED
          BY <3>2, <5>1
      <4> QED
        BY <3>2, <4>1, <4>2 DEF Begins
    <3>4. LineStart(s, i) = b
      BY <2>1, <3>3, StartIs
    <3>5. SubSeq(s, b, i - 1) = SubSeq(t, b, i - 1)
      <4>1. b \in Nat \ {0} /\ b <= i - 1 + 1 /\ i - 1 <= Len(s) /\ i - 1 <= Len(t)
        BY <2>1, <3>2
      <4>2. /\ SubSeq(s, b, i - 1) \in Octets /\ Len(SubSeq(s, b, i - 1)) = i - 1 - b + 1
            /\ \A k \in 1..(i - 1 - b + 1) : SubSeq(s, b, i - 1)[k] = s[b + k - 1]
        BY <2>1, <4>1, PartOf DEF Octets
      <4>3. /\ SubSeq(t, b, i - 1) \in Octets /\ Len(SubSeq(t, b, i - 1)) = i - 1 - b + 1
            /\ \A k \in 1..(i - 1 - b + 1) : SubSeq(t, b, i - 1)[k] = t[b + k - 1]
        BY <2>1, <4>1, PartOf DEF Octets
      <4>4. \A k \in 1..(i - 1 - b + 1) : b + k - 1 \in 1..n
        BY <2>1, <4>1
      <4>5. \A k \in 1..(i - 1 - b + 1) : SubSeq(s, b, i - 1)[k] = SubSeq(t, b, i - 1)[k]
        BY <4>2, <4>3, <4>4
      <4> QED
        BY <4>2, <4>3, <4>5, SeqEqual DEF Octets
    <3> QED
      BY <3>4, <3>5 DEF LineAt, b
  <2>4. Said(s, i, Reading(s)[i - 1]) = Said(t, i, Reading(t)[i - 1])
    BY <2>2, <2>3 DEF Said
  <2>5. Reading(s)[i] = Reading(t)[i]
    BY <2>1, <2>4, ReadingIs
  <2> QED
    BY <2>5
<1>4. \A i \in 0..n : i \in T
  <2> HIDE DEF T
  <2> QED
    BY <1>2, <1>3, UpTo
<1> QED
  BY <1>4

\* A text without a line end says nothing more.
LEMMA QuietReading ==
    ASSUME NEW text \in Octets, NEW a \in Nat, NEW b \in Nat, a <= b, b <= Len(text),
           \A i \in (a + 1)..b : text[i] # "n"
    PROVE  Reading(text)[b] = Reading(text)[a]
<1> DEFINE n == b - a
<1> DEFINE T == {k \in 0..n : Reading(text)[a + k] = Reading(text)[a]}
<1>1. n \in Nat /\ Len(text) \in Nat /\ a + n = b
  BY DEF Octets
<1>2. 0 \in T
  BY <1>1
<1>3. ASSUME NEW k \in 1..n, k - 1 \in T PROVE k \in T
  <2>1. /\ a + k \in 1..Len(text) /\ (a + k) - 1 = a + (k - 1) /\ a + k \in (a + 1)..b
    BY <1>1
  <2>2. Reading(text)[a + k] = Said(text, a + k, Reading(text)[a + (k - 1)])
    BY <2>1, ReadingIs
  <2>3. Said(text, a + k, Reading(text)[a + (k - 1)]) = Reading(text)[a + (k - 1)]
    BY <2>1 DEF Said
  <2>4. Reading(text)[a + (k - 1)] = Reading(text)[a]
    BY <1>3
  <2> QED
    BY <2>2, <2>3, <2>4
<1>4. \A k \in 0..n : k \in T
  <2> HIDE DEF T, n
  <2> QED
    BY <1>1, <1>2, <1>3, UpTo
<1>5. n \in 0..n
  BY <1>1
<1>6. Reading(text)[a + n] = Reading(text)[a]
  BY <1>4, <1>5
<1> QED
  BY <1>1, <1>6

\* s comes first in t.
Leads(s, t) == Len(s) <= Len(t) /\ \A k \in 1..Len(s) : s[k] = t[k]

\* As IsPrefix has it.
LEMMA LeadsIsPrefix ==
    ASSUME NEW s \in Texts, NEW t \in Texts, Leads(s, t)
    PROVE  IsPrefix(s, t)
<1> DEFINE n == Len(s)
<1>1. n \in Nat /\ Len(t) \in Nat /\ n <= Len(t) /\ 1 \in Nat \ {0} /\ 1 <= n + 1
  BY DEF Texts, Leads
<1>2. /\ SubSeq(s, 1, n) \in Texts /\ Len(SubSeq(s, 1, n)) = n - 1 + 1
      /\ \A i \in 1..(n - 1 + 1) : SubSeq(s, 1, n)[i] = s[1 + i - 1]
  BY <1>1, PartOf DEF Texts
<1>3. /\ SubSeq(t, 1, n) \in Texts /\ Len(SubSeq(t, 1, n)) = n - 1 + 1
      /\ \A i \in 1..(n - 1 + 1) : SubSeq(t, 1, n)[i] = t[1 + i - 1]
  <2> HIDE DEF n
  <2> QED
    BY <1>1, PartOf DEF Texts
<1>4. \A i \in 1..(n - 1 + 1) : SubSeq(s, 1, n)[i] = SubSeq(t, 1, n)[i]
  <2>1. ASSUME NEW i \in 1..(n - 1 + 1) PROVE s[1 + i - 1] = t[1 + i - 1]
    <3>1. 1 + i - 1 = i /\ i \in 1..n
      BY <1>1
    <3> QED
      BY <3>1 DEF Leads
  <2> QED
    BY <1>2, <1>3, <2>1
<1>5. SubSeq(s, 1, n) = SubSeq(t, 1, n)
  BY <1>2, <1>3, <1>4, SeqEqual DEF Texts
<1> QED
  BY <1>1, <1>5 DEF IsPrefix

\* Leading is transitive, and what is added comes after.
LEMMA LeadsOn ==
    ASSUME NEW s \in Texts, NEW t \in Texts, NEW u \in Texts, Leads(s, t)
    PROVE  Leads(s, t \o u) /\ Leads(s, s)
<1>1. Len(s) \in Nat /\ Len(t) \in Nat /\ Len(u) \in Nat /\ Len(t \o u) = Len(t) + Len(u)
  BY DEF Texts
<1>2. \A k \in 1..Len(s) : k \in 1..Len(t) /\ (t \o u)[k] = t[k]
  BY <1>1 DEF Texts, Leads
<1> QED
  BY <1>1, <1>2 DEF Leads

\* Events that have been read stay, and more may come.
LEMMA EventsStay ==
    ASSUME NEW text \in Octets, NEW a \in Nat, NEW b \in Nat, a <= b, b <= Len(text)
    PROVE  Leads(Reading(text)[a].events, Reading(text)[b].events)
<1> DEFINE n == b - a
<1> DEFINE s == Reading(text)[a].events
<1> DEFINE T == {k \in 0..n : Leads(s, Reading(text)[a + k].events)}
<1>1. n \in Nat /\ Len(text) \in Nat /\ a + n = b /\ a \in 0..Len(text)
  BY DEF Octets
<1>s. s \in Texts
  BY <1>1, ReadingIs DEF Readings
<1> HIDE DEF s
<1>2. 0 \in T
  <2>1. Leads(s, s)
    <3>1. Len(s) \in Nat
      BY <1>s DEF Texts
    <3> QED
      BY <3>1 DEF Leads
  <2> QED
    BY <1>1, <2>1 DEF s
<1>3. ASSUME NEW k \in 1..n, k - 1 \in T PROVE k \in T
  <2> DEFINE before == Reading(text)[a + (k - 1)]
  <2>1. a + k \in 1..Len(text) /\ (a + k) - 1 = a + (k - 1) /\ a + (k - 1) \in 0..Len(text)
    BY <1>1
  <2>2. before \in Readings /\ Reading(text)[a + k] = Said(text, a + k, before)
    BY <2>1, ReadingIs
  <2>3. Leads(s, before.events)
    BY <1>3
  <2> HIDE DEF before
  <2>4. before.events \in Texts /\ before.open \in Texts
    BY <2>2 DEF Readings
  <2>5. \/ Said(text, a + k, before).events = before.events
        \/ Said(text, a + k, before).events = before.events \o before.open
    BY <2>2 DEF Said, Readings
  <2>6. Leads(s, Said(text, a + k, before).events)
    BY <1>s, <2>3, <2>4, <2>5, LeadsOn
  <2> QED
    BY <2>2, <2>6
<1>4. \A k \in 0..n : k \in T
  <2> HIDE DEF T, n
  <2> QED
    BY <1>1, <1>2, <1>3, UpTo
<1>5. n \in 0..n
  BY <1>1
<1>6. Leads(s, Reading(text)[a + n].events)
  BY <1>4, <1>5
<1> QED
  BY <1>1, <1>6 DEF s

-----------------------------------------------------------------------------
(* The framer against the reference. *)

\* The event that a framer has begun.
OpenOf(f) == IF f.hasData THEN <<f.data>> ELSE << >>

\* A framer that has been fed the first q bytes of a text and has handed on d.
Framed(f, d, text, q) ==
    /\ f.line = SubSeq(text, LineStart(text, q + 1), q)
    /\ d = Reading(text)[q].events
    /\ OpenOf(f) = Reading(text)[q].open

\* The parts of a framer.
LEMMA FramerParts ==
    ASSUME NEW f \in Framer
    PROVE  f.line \in Octets /\ f.data \in Octets /\ f.hasData \in BOOLEAN /\ OpenOf(f) \in Texts
<1>1. f.line \in Octets /\ f.data \in Octets /\ f.hasData \in BOOLEAN
  BY DEF Framer, Octets
<1>2. <<f.data>> \in Texts /\ << >> \in Texts
  BY <1>1 DEF Texts
<1> QED
  BY <1>1, <1>2 DEF OpenOf

\* flushEvent hands on the event that is open.
LEMMA FlushEventIs ==
    ASSUME NEW f \in Framer
    PROVE  /\ FlushEvent(f).framer \in Framer /\ FlushEvent(f).framer.line = f.line
           /\ OpenOf(FlushEvent(f).framer) = << >>
           /\ FlushEvent(f).events = OpenOf(f) /\ FlushEvent(f).tooLong = FALSE
<1> DEFINE g == [f EXCEPT !.data = << >>, !.hasData = FALSE]
<1>1. << >> \in Seq(Words)
  OBVIOUS
<1>2. g \in Framer /\ g.line = f.line /\ g.hasData = FALSE
  BY <1>1 DEF Framer
<1> HIDE DEF g
<1>3. FlushEvent(f) = [framer |-> g, events |-> OpenOf(f), tooLong |-> FALSE]
  BY DEF FlushEvent, g, OpenOf
<1> QED
  BY <1>2, <1>3 DEF OpenOf

\* The data of an event, with one more line.
Joined(open, line) == IF open = << >> THEN DataOf(line) ELSE open[1] \o <<"n">> \o DataOf(line)

\* What flushLine makes of a line that it does not refuse.
ReadsLine(t, f, line) ==
    /\ line = << >> => t.events = OpenOf(f) /\ OpenOf(t.framer) = << >>
    /\ line # << >> => /\ t.events = << >>
                       /\ OpenOf(t.framer) = IF IsData(line) THEN <<Joined(OpenOf(f), line)>> ELSE OpenOf(f)

\* flushLine reads a line as the reference does, or finds the event too long.
LEMMA FlushLineIs ==
    ASSUME NEW f \in Framer, NEW line \in Octets, line = TrimCR(f.line), NEW t, t = FlushLine(f)
    PROVE  /\ t.framer \in Framer /\ t.events \in Texts /\ t.tooLong \in BOOLEAN
           /\ t.framer.line = << >>
           /\ t.tooLong => t.events = << >>
           /\ ~t.tooLong => ReadsLine(t, f, line)
<1> DEFINE g == [f EXCEPT !.line = << >>]
<1> DEFINE data == IF f.hasData THEN f.data \o <<"n">> \o DataOf(line) ELSE DataOf(line)
<1>1. f.line \in Octets /\ f.data \in Octets /\ f.hasData \in BOOLEAN /\ OpenOf(f) \in Texts
  BY FramerParts
<1>2. << >> \in Seq(Words)
  OBVIOUS
<1>3. g \in Framer /\ g.line = << >> /\ g.data = f.data /\ g.hasData = f.hasData
  BY <1>2 DEF Framer
<1>4. data = Joined(OpenOf(f), line)
  <2>1. CASE f.hasData
    <3>1. OpenOf(f) = <<f.data>> /\ <<f.data>> # << >> /\ <<f.data>>[1] = f.data
      BY <2>1 DEF OpenOf
    <3> QED
      BY <2>1, <3>1 DEF Joined
  <2>2. CASE ~f.hasData
    BY <2>2 DEF Joined, OpenOf
  <2> QED
    BY <2>1, <2>2
<1> HIDE DEF g
<1>5. t = IF line = << >> THEN FlushEvent(g)
          ELSE IF ~IsData(line) THEN [framer |-> g, events |-> << >>, tooLong |-> FALSE]
          ELSE [framer |-> IF Len(data) > Limit THEN g ELSE [g EXCEPT !.data = data, !.hasData = TRUE],
                events |-> << >>, tooLong |-> Len(data) > Limit]
  BY DEF FlushLine, g
<1>6. << >> \in Texts
  BY DEF Texts
<1>7. OpenOf(g) = OpenOf(f)
  BY <1>3 DEF OpenOf
<1>8. CASE line = << >>
  BY <1>1, <1>3, <1>5, <1>7, <1>8, FlushEventIs DEF ReadsLine
<1>9. CASE line # << >> /\ ~IsData(line)
  BY <1>3, <1>5, <1>6, <1>7, <1>9 DEF ReadsLine
<1>10. CASE line # << >> /\ IsData(line)
  <2>1. data \in Octets
    <3>1. DataOf(line) \in Octets
      BY <1>10, DataType
    <3>2. "n" \in Words
      BY StreamAssumption
    <3>3. <<"n">> \in Octets
      BY <3>2 DEF Octets
    <3>4. f.data \o <<"n">> \in Octets
      BY <1>1, <3>3 DEF Octets
    <3>5. f.data \o <<"n">> \o DataOf(line) \in Octets
      BY <3>1, <3>4 DEF Octets
    <3> QED
      BY <3>1, <3>5
  <2> HIDE DEF data
  <2> DEFINE h == [g EXCEPT !.data = data, !.hasData = TRUE]
  <2>2. h \in Framer /\ h.line = << >> /\ h.data = data /\ h.hasData = TRUE
    BY <1>3, <2>1 DEF Framer, Octets
  <2> HIDE DEF h
  <2>3. t = [framer |-> IF Len(data) > Limit THEN g ELSE h, events |-> << >>, tooLong |-> Len(data) > Limit]
    BY <1>5, <1>10 DEF h
  <2>4. CASE Len(data) > Limit
    <3>1. (Len(data) > Limit) = TRUE
      BY <2>4
    <3>2. t = [framer |-> g, events |-> << >>, tooLong |-> TRUE]
      BY <2>3, <3>1, Zenon
    <3> QED
      BY <1>3, <1>6, <3>2
  <2>5. CASE ~(Len(data) > Limit)
    <3>1. OpenOf(h) = <<data>>
      BY <2>2 DEF OpenOf
    <3>2. (Len(data) > Limit) = FALSE
      BY <2>5
    <3>3. t = [framer |-> h, events |-> << >>, tooLong |-> FALSE]
      BY <2>3, <3>2, Zenon
    <3>4. t.framer = h /\ t.events = << >> /\ t.tooLong = FALSE
      BY <3>3
    <3> QED
      BY <1>4, <1>6, <1>10, <2>2, <3>1, <3>4 DEF ReadsLine
  <2> QED
    BY <2>4, <2>5
<1> QED
  BY <1>8, <1>9, <1>10

\* At the end of a line, the framer and the reference do the same.
LEMMA LineFlushed ==
    ASSUME NEW text \in Octets, NEW e \in 1..Len(text), text[e] = "n",
           NEW f \in Framer, NEW d, Framed(f, d, text, e - 1), ~FlushLine(f).tooLong
    PROVE  Framed(FlushLine(f).framer, d \o FlushLine(f).events, text, e)
<1> DEFINE t == FlushLine(f)
<1> DEFINE line == LineAt(text, e)
<1> DEFINE before == Reading(text)[e - 1]
<1>1. e \in Nat \ {0} /\ e - 1 + 1 = e /\ Len(text) \in Nat /\ e + 1 \in Nat \ {0} /\ e - 1 \in 0..Len(text)
  BY DEF Octets
<1>2. line \in Octets /\ line = TrimCR(f.line)
  BY <1>1, LineType DEF Framed, LineAt
<1>3. before \in Readings /\ Reading(text)[e] = Said(text, e, before)
  BY <1>1, ReadingIs
<1>4. before.events \in Texts /\ d = before.events /\ OpenOf(f) = before.open
  BY <1>3 DEF Framed, Readings
<1>5. t.framer.line = SubSeq(text, LineStart(text, e + 1), e)
  <2>1. Begins(text, e + 1, e + 1)
    BY <1>1 DEF Begins
  <2>2. LineStart(text, e + 1) = e + 1
    BY <1>1, <2>1, StartIs
  <2>3. SubSeq(text, e + 1, e) = << >>
    BY <1>1, PartOf DEF Octets
  <2> QED
    BY <1>2, <2>2, <2>3, FlushLineIs
<1> HIDE DEF before, line
<1>6. Said(text, e, before) =
        IF line = << >> THEN [events |-> before.events \o before.open, open |-> << >>]
        ELSE IF IsData(line) THEN [before EXCEPT !.open = <<Joined(before.open, line)>>] ELSE before
  BY DEF Said, line, Joined
<1>7. CASE line = << >>
  <2>1. t.events = OpenOf(f) /\ OpenOf(t.framer) = << >>
    <3>1. t = FlushLine(f) /\ ~t.tooLong
      OBVIOUS
    <3> HIDE DEF t
    <3>2. ReadsLine(t, f, line)
      BY <1>2, <3>1, FlushLineIs
    <3> QED
      BY <1>7, <3>2 DEF ReadsLine
  <2>2. Reading(text)[e] = [events |-> before.events \o before.open, open |-> << >>]
    BY <1>3, <1>6, <1>7, Zenon
  <2>3. Reading(text)[e].events = before.events \o before.open /\ Reading(text)[e].open = << >>
    <3> DEFINE x == before.events \o before.open
    <3> HIDE DEF x
    <3>1. Reading(text)[e] = [events |-> x, open |-> << >>]
      BY <2>2 DEF x
    <3>2. Reading(text)[e].events = x /\ Reading(text)[e].open = << >>
      BY <3>1
    <3> QED
      BY <3>2 DEF x
  <2> QED
    BY <1>4, <1>5, <2>1, <2>3 DEF Framed
<1>8. CASE line # << >>
  <2>1. /\ t.events = << >>
        /\ OpenOf(t.framer) = IF IsData(line) THEN <<Joined(OpenOf(f), line)>> ELSE OpenOf(f)
    <3>1. t = FlushLine(f) /\ ~t.tooLong
      OBVIOUS
    <3> HIDE DEF t
    <3>2. ReadsLine(t, f, line)
      BY <1>2, <3>1, FlushLineIs
    <3> QED
      BY <1>8, <3>2 DEF ReadsLine
  <2>2. /\ Reading(text)[e].events = before.events
        /\ Reading(text)[e].open = IF IsData(line) THEN <<Joined(before.open, line)>> ELSE before.open
    <3> DEFINE x == <<Joined(before.open, line)>>
    <3>1. Reading(text)[e] = IF IsData(line) THEN [before EXCEPT !.open = x] ELSE before
      BY <1>3, <1>6, <1>8, Zenon
    <3> HIDE DEF x
    <3>2. [before EXCEPT !.open = x].events = before.events /\ [before EXCEPT !.open = x].open = x
      BY <1>3 DEF Readings
    <3> QED
      BY <3>1, <3>2, Zenon DEF x
  <2>3. d \o << >> = d
    BY <1>4 DEF Texts
  <2> QED
    BY <1>4, <1>5, <2>1, <2>2, <2>3 DEF Framed
<1> QED
  BY <1>7, <1>8

\* The first line end of a chunk, or its end.
LEMMA LineEndIs ==
    ASSUME NEW c \in Octets
    PROVE  /\ LineEnd(c) \in 0..Len(c)
           /\ \A i \in 1..LineEnd(c) : c[i] # "n"
           /\ LineEnd(c) < Len(c) => c[LineEnd(c) + 1] = "n"
<1> DEFINE I == {i \in 1..Len(c) : c[i] = "n"}
<1>1. Len(c) \in Nat
  BY DEF Octets
<1>2. CASE I = {}
  <2>1. LineEnd(c) = Len(c)
    BY <1>2 DEF LineEnd, Contains
  <2> QED
    BY <1>1, <1>2, <2>1
<1>3. CASE I # {}
  <2>1. I \in SUBSET Nat
    BY <1>1
  <2>2. PICK m \in I : \A y \in I : m <= y
    <3> HIDE DEF I
    <3> QED
      BY <1>3, <2>1, SmallestIn
  <2>3. Min(I) \in I /\ \A y \in I : Min(I) <= y
    <3> HIDE DEF I
    <3> QED
      BY <2>2 DEF Min
  <2>4. PICK k \in I : k = Min(I)
    BY <2>3
  <2>5. Contains(c, "n")
    BY <1>3 DEF Contains
  <2>6. SelectInSeq(c, LAMBDA b : b = "n") = Min(I)
    BY <1>3 DEF SelectInSeq
  <2>7. LineEnd(c) = k - 1
    BY <2>4, <2>5, <2>6 DEF LineEnd
  <2>8. k \in 1..Len(c) /\ c[k] = "n" /\ \A y \in I : k <= y
    BY <2>3, <2>4
  <2>9. \A i \in 1..(k - 1) : c[i] # "n"
    BY <1>1, <2>8
  <2> QED
    BY <1>1, <2>7, <2>8, <2>9
<1> QED
  BY <1>2, <1>3

\* Two sequences, one after the other.
LEMMA JoinOf ==
    ASSUME NEW S, NEW s \in Seq(S), NEW t \in Seq(S)
    PROVE  /\ s \o t \in Seq(S) /\ Len(s \o t) = Len(s) + Len(t)
           /\ \A i \in 1..Len(s) : (s \o t)[i] = s[i]
           /\ \A i \in 1..Len(t) : (s \o t)[Len(s) + i] = t[i]
<1>1. Len(s) \in Nat /\ Len(t) \in Nat
  OBVIOUS
<1>2. s \o t \in Seq(S) /\ Len(s \o t) = Len(s) + Len(t)
  OBVIOUS
<1>3. ASSUME NEW i \in 1..Len(s) PROVE (s \o t)[i] = s[i]
  OBVIOUS
<1>4. ASSUME NEW i \in 1..Len(t) PROVE (s \o t)[Len(s) + i] = t[i]
  <2>1. Len(s) + i \in 1..(Len(s) + Len(t)) /\ ~(Len(s) + i <= Len(s)) /\ Len(s) + i - Len(s) = i
    BY <1>1
  <2> QED
    BY <1>1, <2>1
<1> QED
  BY <1>2, <1>3, <1>4

\* Two parts of a text that meet.
LEMMA PartsMeet ==
    ASSUME NEW text \in Octets, NEW a \in Nat \ {0}, NEW b \in Nat, NEW c \in Nat, a <= b + 1, b <= c,
           c <= Len(text)
    PROVE  SubSeq(text, a, b) \o SubSeq(text, b + 1, c) = SubSeq(text, a, c)
<1> DEFINE s == SubSeq(text, a, b)
<1> DEFINE t == SubSeq(text, b + 1, c)
<1> DEFINE u == SubSeq(text, a, c)
<1>1. Len(text) \in Nat /\ b <= Len(text) /\ b + 1 \in Nat \ {0} /\ b + 1 <= c + 1 /\ a <= c + 1
  BY DEF Octets
<1>2. s \in Octets /\ Len(s) = b - a + 1 /\ \A i \in 1..(b - a + 1) : s[i] = text[a + i - 1]
  BY <1>1, PartOf DEF Octets
<1>3. t \in Octets /\ Len(t) = c - (b + 1) + 1 /\ \A i \in 1..(c - (b + 1) + 1) : t[i] = text[b + 1 + i - 1]
  BY <1>1, PartOf DEF Octets
<1>4. u \in Octets /\ Len(u) = c - a + 1 /\ \A i \in 1..(c - a + 1) : u[i] = text[a + i - 1]
  BY <1>1, PartOf DEF Octets
<1> HIDE DEF s, t, u
<1>5. s \o t \in Octets /\ Len(s \o t) = Len(s) + Len(t)
  <2>1. s \in Octets /\ t \in Octets
    BY <1>2, <1>3
  <2> QED
    BY <2>1, JoinOf, Zenon DEF Octets
<1>6. Len(s \o t) = Len(u)
  BY <1>1, <1>2, <1>3, <1>4, <1>5
<1>7. ASSUME NEW i \in 1..Len(u) PROVE (s \o t)[i] = u[i]
  <2>1. CASE i <= Len(s)
    <3>1. i \in 1..(b - a + 1) /\ i \in 1..Len(s) /\ i \in 1..(c - a + 1)
      BY <1>1, <1>2, <1>4, <2>1
    <3>2. (s \o t)[i] = s[i]
      BY <1>2, <1>3, <3>1 DEF Octets
    <3> QED
      BY <1>2, <1>4, <3>1, <3>2
  <2>2. CASE ~(i <= Len(s))
    <3>1. i \in 1..(c - a + 1)
      BY <1>4
    <3>2. PICK j \in 1..Len(t) : j = i - Len(s)
      BY <1>1, <1>2, <1>3, <1>4, <2>2
    <3>3. (s \o t)[i] = t[j] /\ j \in 1..(c - (b + 1) + 1)
      BY <1>2, <1>3, <1>4, <2>2, <3>2 DEF Octets
    <3>4. b + 1 + j - 1 = a + i - 1
      BY <1>1, <1>2, <3>1, <3>2
    <3>5. t[j] = text[b + 1 + j - 1] /\ u[i] = text[a + i - 1]
      BY <1>3, <1>4, <3>1, <3>3
    <3> QED
      BY <3>3, <3>4, <3>5
  <2> QED
    BY <2>1, <2>2
<1>8. s \o t = u
  BY <1>4, <1>5, <1>6, <1>7, SeqEqual DEF Octets
<1> QED
  BY <1>8 DEF s, t, u

\* A part of a line that has no end yet is kept.
LEMMA LineKept ==
    ASSUME NEW text \in Octets, NEW q \in Nat, NEW b \in Nat, q <= b, b <= Len(text),
           \A i \in (q + 1)..b : text[i] # "n",
           NEW f \in Framer, NEW d, Framed(f, d, text, q),
           NEW g, g = [f EXCEPT !.line = @ \o SubSeq(text, q + 1, b)]
    PROVE  g \in Framer /\ Framed(g, d, text, b)
<1> DEFINE s == LineStart(text, q + 1)
<1>1. Len(text) \in Nat /\ q + 1 \in Nat \ {0} /\ b + 1 \in Nat \ {0} /\ q <= Len(text)
  BY DEF Octets
<1>2. Begins(text, s, q + 1)
  BY <1>1, StartOf
<1>3. f.line = SubSeq(text, s, q)
  BY DEF Framed
<1> HIDE DEF s
<1>4. s \in Nat \ {0} /\ s <= q + 1
  BY <1>1, <1>2 DEF Begins
<1>5. Begins(text, s, b + 1)
  <2>1. s \in 1..(b + 1) /\ (s = 1 \/ text[s - 1] = "n")
    BY <1>1, <1>2, <1>4 DEF Begins
  <2>2. ASSUME NEW j \in (s + 1)..(b + 1) PROVE text[j - 1] # "n"
    <3>1. CASE j <= q + 1
      <4>1. j \in (s + 1)..(q + 1)
        BY <1>1, <1>4, <3>1
      <4> QED
        BY <1>2, <4>1 DEF Begins
    <3>2. CASE ~(j <= q + 1)
      <4>1. j - 1 \in (q + 1)..b
        BY <1>1, <1>4, <3>2
      <4> QED
        BY <4>1
    <3> QED
      BY <3>1, <3>2
  <2> QED
    BY <2>1, <2>2 DEF Begins
<1>6. LineStart(text, b + 1) = s
  BY <1>1, <1>5, StartIs
<1>7. f.line \o SubSeq(text, q + 1, b) = SubSeq(text, s, b)
  <2>1. SubSeq(text, s, q) \o SubSeq(text, q + 1, b) = SubSeq(text, s, b)
    BY <1>4, PartsMeet
  <2> QED
    BY <1>3, <2>1, Zenon
<1>8. SubSeq(text, s, b) \in Seq(Words)
  <2>1. s <= b + 1
    BY <1>1, <1>4
  <2> QED
    BY <1>4, <2>1, PartOf DEF Octets
<1>9. g \in Framer /\ g.line = SubSeq(text, s, b) /\ g.data = f.data /\ g.hasData = f.hasData
  <2> DEFINE l == f.line \o SubSeq(text, q + 1, b)
  <2>1. g = [f EXCEPT !.line = l] /\ l \in Seq(Words)
    BY <1>7, <1>8
  <2> HIDE DEF l
  <2>2. g \in Framer /\ g.line = l /\ g.data = f.data /\ g.hasData = f.hasData
    BY <2>1 DEF Framer
  <2> QED
    BY <1>7, <2>2 DEF l
<1>10. Reading(text)[b] = Reading(text)[q]
  BY <1>1, QuietReading
<1> QED
  BY <1>6, <1>9, <1>10 DEF Framed, OpenOf

\* A part of a part of a text.
LEMMA PartOfPart ==
    ASSUME NEW text \in Octets, NEW a \in Nat \ {0}, NEW b \in Nat, a <= b + 1, b <= Len(text),
           NEW c \in Octets, c = SubSeq(text, a, b),
           NEW u \in Nat \ {0}, NEW v \in Nat, u <= v + 1, v <= Len(c)
    PROVE  SubSeq(c, u, v) = SubSeq(text, a + u - 1, a + v - 1)
<1> DEFINE x == SubSeq(c, u, v)
<1> DEFINE y == SubSeq(text, a + u - 1, a + v - 1)
<1>1. Len(c) = b - a + 1 /\ \A i \in 1..(b - a + 1) : c[i] = text[a + i - 1]
  BY PartOf DEF Octets
<1>2. Len(text) \in Nat
  BY DEF Octets
<1>3. /\ a + u - 1 \in Nat \ {0} /\ a + v - 1 \in Nat /\ a + u - 1 <= (a + v - 1) + 1
      /\ a + v - 1 <= Len(text) /\ v <= b - a + 1
  BY <1>1, <1>2
<1>4. x \in Octets /\ Len(x) = v - u + 1 /\ \A i \in 1..(v - u + 1) : x[i] = c[u + i - 1]
  BY PartOf DEF Octets
<1>5. y \in Octets /\ Len(y) = (a + v - 1) - (a + u - 1) + 1
      /\ \A i \in 1..((a + v - 1) - (a + u - 1) + 1) : y[i] = text[(a + u - 1) + i - 1]
  BY <1>3, PartOf DEF Octets
<1>6. (a + v - 1) - (a + u - 1) + 1 = v - u + 1 /\ v - u + 1 \in Nat
  OBVIOUS
<1> HIDE DEF x, y
<1>7. ASSUME NEW i \in 1..(v - u + 1) PROVE x[i] = y[i]
  <2>1. u + i - 1 \in 1..(b - a + 1) /\ a + (u + i - 1) - 1 = (a + u - 1) + i - 1
    BY <1>3, <1>6
  <2>2. x[i] = text[a + (u + i - 1) - 1]
    BY <1>1, <1>4, <2>1
  <2>3. y[i] = text[(a + u - 1) + i - 1]
    BY <1>5, <1>6
  <2> QED
    BY <2>1, <2>2, <2>3
<1>8. Len(x) = v - u + 1 /\ Len(y) = v - u + 1
  BY <1>4, <1>5, <1>6
<1>9. x = y
  BY <1>4, <1>5, <1>7, <1>8, SeqEqual DEF Octets
<1> QED
  BY <1>9 DEF x, y

\* A chunk c, the text between q and r, and what is left of it after a line.
Rests(c, text, q, r) ==
    /\ c \in Octets /\ Len(c) = r - q
    /\ LineEnd(c) = Len(c) => RestOf(c) = << >>
    /\ LineEnd(c) # Len(c) =>
         q + LineEnd(c) + 1 \in q..r /\ RestOf(c) = SubSeq(text, q + LineEnd(c) + 2, r)

\* What a turn of feed leaves of the chunk that ends at r: the text after position p.
LEMMA RestIs ==
    ASSUME NEW text \in Octets, NEW q \in Nat, NEW r \in Nat, q <= r, r <= Len(text),
           NEW c, c = SubSeq(text, q + 1, r)
    PROVE  Rests(c, text, q, r)
<1> SUFFICES /\ c \in Octets /\ Len(c) = r - q
             /\ LineEnd(c) = Len(c) => RestOf(c) = << >>
             /\ LineEnd(c) # Len(c) =>
                  q + LineEnd(c) + 1 \in q..r /\ RestOf(c) = SubSeq(text, q + LineEnd(c) + 2, r)
  BY Zenon DEF Rests
<1>1. Len(text) \in Nat /\ q + 1 \in Nat \ {0} /\ q + 1 <= r + 1
  BY DEF Octets
<1>2. c \in Octets /\ Len(c) = r - (q + 1) + 1
  BY <1>1, PartOf DEF Octets
<1>3. Len(c) = r - q /\ Len(c) \in Nat
  BY <1>2
<1>4. PICK n \in 0..Len(c) : n = LineEnd(c)
  BY <1>2, LineEndIs
<1>5. CASE n = Len(c)
  <2>1. SubSeq(c, n + 2, Len(c)) = << >>
    <3>1. ~(n + 2 <= Len(c))
      BY <1>3, <1>5
    <3> QED
      BY <1>2, <1>3, <1>5, <3>1 DEF Octets
  <2> QED
    BY <1>2, <1>3, <1>4, <1>5, <2>1 DEF RestOf
<1>6. CASE n # Len(c)
  <2>1. n + 2 \in Nat \ {0} /\ n + 2 <= Len(c) + 1 /\ q + n + 1 \in q..r
    BY <1>3, <1>4, <1>6
  <2>2. SubSeq(c, n + 2, Len(c)) = SubSeq(text, (q + 1) + (n + 2) - 1, (q + 1) + Len(c) - 1)
    BY <1>1, <1>2, <1>3, <2>1, PartOfPart
  <2>3. (q + 1) + (n + 2) - 1 = q + n + 2 /\ (q + 1) + Len(c) - 1 = r
    BY <1>3
  <2>4. RestOf(c) = SubSeq(text, q + n + 2, r)
    BY <1>4, <2>2, <2>3 DEF RestOf
  <2> QED
    BY <1>2, <1>3, <1>4, <1>6, <2>1, <2>4
<1> QED
  BY <1>5, <1>6

\* What a turn of feed has done with a chunk c, the text between q and r.
Turned(t, d, text, q, r, c) ==
    /\ t.framer \in Framer /\ t.events \in Texts /\ t.tooLong \in BOOLEAN
    /\ t.tooLong => t.events = << >>
    /\ \E p \in q..r : /\ RestOf(c) = SubSeq(text, p + 1, r)
                       /\ RestOf(c) = << >> => p = r
                       /\ ~t.tooLong => Framed(t.framer, d \o t.events, text, p)

\* One turn of feed goes from a position of the text to a later one, or finds the event
\* too long and hands on nothing.
LEMMA FeedLineIs ==
    ASSUME NEW text \in Octets, NEW q \in Nat, NEW r \in Nat, q <= r, r <= Len(text),
           NEW f \in Framer, NEW d \in Texts, Framed(f, d, text, q),
           NEW c, c = SubSeq(text, q + 1, r), NEW t, t = FeedLine(f, c)
    PROVE  Turned(t, d, text, q, r, c)
<1> SUFFICES /\ t.framer \in Framer /\ t.events \in Texts /\ t.tooLong \in BOOLEAN
             /\ t.tooLong => t.events = << >>
             /\ \E p \in q..r : /\ RestOf(c) = SubSeq(text, p + 1, r)
                                /\ RestOf(c) = << >> => p = r
                                /\ ~t.tooLong => Framed(t.framer, d \o t.events, text, p)
  BY Zenon DEF Turned
<1>1. /\ c \in Octets /\ Len(c) = r - q
      /\ LineEnd(c) = Len(c) => RestOf(c) = << >>
      /\ LineEnd(c) # Len(c) =>
           q + LineEnd(c) + 1 \in q..r /\ RestOf(c) = SubSeq(text, q + LineEnd(c) + 2, r)
  <2>1. Rests(c, text, q, r)
    BY RestIs
  <2> QED
    BY <2>1, Zenon DEF Rests
<1>2. PICK n \in 0..Len(c) : /\ n = LineEnd(c) /\ \A i \in 1..n : c[i] # "n"
                             /\ n < Len(c) => c[n + 1] = "n"
  BY <1>1, LineEndIs
<1>3. Len(c) \in Nat /\ n \in Nat /\ q + n <= r /\ q + n \in Nat /\ Len(text) \in Nat /\ << >> \in Texts
  <2>1. Len(text) \in Nat /\ << >> \in Texts
    BY DEF Octets, Texts
  <2>2. Len(c) = r - q
    BY <1>1
  <2> QED
    BY <2>1, <2>2
<1>4. \A i \in 1..(r - q) : c[i] = text[q + i]
  <2>1. q + 1 \in Nat \ {0} /\ q + 1 <= r + 1 /\ r - (q + 1) + 1 = r - q
    OBVIOUS
  <2>2. \A i \in 1..(r - (q + 1) + 1) : c[i] = text[(q + 1) + i - 1]
    BY <2>1, PartOf DEF Octets
  <2>3. ASSUME NEW i \in 1..(r - q) PROVE (q + 1) + i - 1 = q + i
    OBVIOUS
  <2> QED
    BY <2>1, <2>2, <2>3
<1> DEFINE g == [f EXCEPT !.line = @ \o SubSeq(text, q + 1, q + n)]
<1>5. SubSeq(c, 1, n) = SubSeq(text, q + 1, q + n)
  <2>1. q + 1 \in Nat \ {0} /\ q + 1 <= r + 1 /\ 1 \in Nat \ {0} /\ 1 <= n + 1 /\ n <= Len(c)
    BY <1>3
  <2>2. SubSeq(c, 1, n) = SubSeq(text, (q + 1) + 1 - 1, (q + 1) + n - 1)
    BY <1>1, <1>3, <2>1, PartOfPart
  <2>3. (q + 1) + 1 - 1 = q + 1 /\ (q + 1) + n - 1 = q + n
    BY <1>3
  <2> QED
    BY <2>2, <2>3
<1>6. g \in Framer /\ Framed(g, d, text, q + n)
  <2>1. \A i \in (q + 1)..(q + n) : text[i] # "n"
    <3>1. ASSUME NEW i \in (q + 1)..(q + n) PROVE text[i] # "n"
      <4>1. i - q \in 1..n /\ i - q \in 1..(r - q) /\ q + (i - q) = i
        BY <1>3
      <4> QED
        BY <1>2, <1>4, <4>1
    <3> QED
      BY <3>1
  <2>2. q <= q + n /\ q + n <= Len(text)
    BY <1>3
  <2> HIDE DEF g
  <2> QED
    BY <1>3, <2>1, <2>2, LineKept DEF g
<1>7. t = IF Len(f.line) + Len(f.data) + n > Limit
          THEN [framer |-> f, events |-> << >>, tooLong |-> TRUE]
          ELSE IF n = Len(c) THEN [framer |-> g, events |-> << >>, tooLong |-> FALSE]
          ELSE FlushLine(g)
  BY <1>2, <1>5, Zenon DEF FeedLine
<1> HIDE DEF g
<1>8. ASSUME n = Len(c) PROVE q + n = r /\ RestOf(c) = SubSeq(text, r + 1, r) /\ r \in q..r
  <2>1. q + n = r /\ r + 1 \in Nat \ {0} /\ r + 1 <= r + 1
    BY <1>1, <1>8
  <2>2. SubSeq(text, r + 1, r) = << >>
    BY <2>1, PartOf DEF Octets
  <2>3. RestOf(c) = << >>
    BY <1>1, <1>2, <1>8
  <2>4. RestOf(c) = SubSeq(text, r + 1, r)
    BY <2>2, <2>3, Zenon
  <2>5. r \in q..r
    OBVIOUS
  <2> QED
    BY <2>1, <2>4, <2>5, Zenon
<1>9. ASSUME n # Len(c)
      PROVE /\ q + n + 1 \in q..r /\ RestOf(c) = SubSeq(text, (q + n + 1) + 1, r)
            /\ RestOf(c) = << >> => q + n + 1 = r
  <2>1. q + n + 1 \in q..r /\ RestOf(c) = SubSeq(text, q + n + 2, r)
    BY <1>1, <1>2, <1>9
  <2>2. q + n + 2 = (q + n + 1) + 1 /\ q + n + 2 \in Nat \ {0} /\ q + n + 2 <= r + 1
    BY <1>3, <2>1
  <2>3. Len(SubSeq(text, q + n + 2, r)) = r - (q + n + 2) + 1
    BY <2>2, PartOf DEF Octets
  <2>4. ASSUME RestOf(c) = << >> PROVE q + n + 1 = r
    <3>1. r - (q + n + 2) + 1 = 0
      BY <2>1, <2>3, <2>4
    <3> QED
      BY <1>3, <3>1
  <2> QED
    BY <2>1, <2>2, <2>4
<1>10. CASE Len(f.line) + Len(f.data) + n > Limit
  <2>1. t = [framer |-> f, events |-> << >>, tooLong |-> TRUE]
    BY <1>7, <1>10
  <2>2. t.framer = f /\ t.events = << >> /\ t.tooLong = TRUE
    BY <2>1
  <2>3. \E p \in q..r : RestOf(c) = SubSeq(text, p + 1, r) /\ (RestOf(c) = << >> => p = r)
    BY <1>8, <1>9
  <2> QED
    BY <1>3, <2>2, <2>3
<1>11. CASE ~(Len(f.line) + Len(f.data) + n > Limit) /\ n = Len(c)
  <2>1. t = [framer |-> g, events |-> << >>, tooLong |-> FALSE]
    BY <1>7, <1>11
  <2>2. t.framer = g /\ t.events = << >> /\ t.tooLong = FALSE
    BY <2>1
  <2>3. d \o << >> = d
    BY DEF Texts
  <2>4. Framed(t.framer, d \o t.events, text, r)
    BY <1>6, <1>8, <1>11, <2>2, <2>3
  <2> QED
    BY <1>3, <1>6, <1>8, <1>11, <2>2, <2>4
<1>12. CASE ~(Len(f.line) + Len(f.data) + n > Limit) /\ n # Len(c)
  <2>1. t = FlushLine(g)
    BY <1>7, <1>12
  <2>2. PICK e \in 1..Len(text) : e = q + n + 1
    BY <1>3, <1>9, <1>12
  <2>3. text[e] = "n"
    <3>1. n < Len(c) /\ n + 1 \in 1..(r - q) /\ q + (n + 1) = e
      BY <1>1, <1>3, <1>12, <2>2
    <3> QED
      BY <1>2, <1>4, <3>1
  <2>4. e - 1 = q + n
    BY <1>3, <2>2
  <2>5. TrimCR(g.line) \in Octets
    BY <1>6, FramerParts, TrimType
  <2>6. /\ t.framer \in Framer /\ t.events \in Texts /\ t.tooLong \in BOOLEAN
        /\ t.tooLong => t.events = << >>
    BY <1>6, <2>1, <2>5, FlushLineIs
  <2>7. ~t.tooLong => Framed(t.framer, d \o t.events, text, e)
    BY <1>6, <2>1, <2>3, <2>4, LineFlushed
  <2>8. e \in q..r /\ RestOf(c) = SubSeq(text, e + 1, r) /\ (RestOf(c) = << >> => e = r)
    BY <1>9, <1>12, <2>2
  <2> QED
    BY <2>6, <2>7, <2>8
<1> QED
  BY <1>10, <1>11, <1>12

\* An empty line ends the event.
LEMMA BlankLine ==
    ASSUME NEW f \in Framer, f.line = << >>, NEW t, t = FlushLine(f)
    PROVE  /\ t.framer \in Framer /\ t.framer.line = << >> /\ ~t.tooLong
           /\ t.events = OpenOf(f) /\ OpenOf(t.framer) = << >>
<1> DEFINE g == [f EXCEPT !.line = << >>]
<1>1. << >> \in Seq(Words)
  OBVIOUS
<1>2. g \in Framer /\ g.line = << >> /\ g.data = f.data /\ g.hasData = f.hasData
  BY <1>1 DEF Framer
<1> HIDE DEF g
<1>3. TrimCR(f.line) = << >>
  BY DEF TrimCR
<1>4. t = FlushEvent(g)
  BY <1>3 DEF FlushLine, g
<1>5. OpenOf(g) = OpenOf(f)
  BY <1>2 DEF OpenOf
<1> QED
  BY <1>2, <1>4, <1>5, FlushEventIs

\* A framer does not know what comes next.
LEMMA FramedSame ==
    ASSUME NEW s \in Octets, NEW t \in Octets, NEW q \in Nat, q <= Len(s), q <= Len(t),
           \A i \in 1..q : s[i] = t[i], NEW f, NEW d, Framed(f, d, s, q)
    PROVE  Framed(f, d, t, q)
<1>1. Len(s) \in Nat /\ Len(t) \in Nat /\ q + 1 \in Nat \ {0} /\ q \in 0..q
  BY DEF Octets
<1>2. Reading(s)[q] = Reading(t)[q]
  BY <1>1, SameReading
<1> DEFINE b == LineStart(s, q + 1)
<1>3. Begins(s, b, q + 1)
  BY <1>1, StartOf
<1>4. f.line = SubSeq(s, b, q)
  BY DEF Framed
<1> HIDE DEF b
<1>5. b \in Nat \ {0} /\ b <= q + 1
  BY <1>1, <1>3 DEF Begins
<1>6. Begins(t, b, q + 1)
  <2>1. b = 1 \/ t[b - 1] = "n"
    <3>1. CASE b = 1
      BY <3>1
    <3>2. CASE b # 1
      <4>1. b - 1 \in 1..q /\ s[b - 1] = "n"
        BY <1>3, <1>5, <3>2 DEF Begins
      <4> QED
        BY <4>1
    <3> QED
      BY <3>1, <3>2
  <2>2. ASSUME NEW j \in (b + 1)..(q + 1) PROVE t[j - 1] # "n"
    <3>1. j - 1 \in 1..q /\ s[j - 1] # "n"
      BY <1>3, <1>5 DEF Begins
    <3> QED
      BY <3>1
  <2> QED
    BY <1>5, <2>1, <2>2 DEF Begins
<1>7. LineStart(t, q + 1) = b
  BY <1>1, <1>6, StartIs
<1>8. SubSeq(s, b, q) = SubSeq(t, b, q)
  <2>1. /\ SubSeq(s, b, q) \in Octets /\ Len(SubSeq(s, b, q)) = q - b + 1
        /\ \A k \in 1..(q - b + 1) : SubSeq(s, b, q)[k] = s[b + k - 1]
    BY <1>5, PartOf DEF Octets
  <2>2. /\ SubSeq(t, b, q) \in Octets /\ Len(SubSeq(t, b, q)) = q - b + 1
        /\ \A k \in 1..(q - b + 1) : SubSeq(t, b, q)[k] = t[b + k - 1]
    BY <1>5, PartOf DEF Octets
  <2>3. \A k \in 1..(q - b + 1) : b + k - 1 \in 1..q
    BY <1>5
  <2>4. \A k \in 1..(q - b + 1) : SubSeq(s, b, q)[k] = SubSeq(t, b, q)[k]
    BY <2>1, <2>2, <2>3
  <2> QED
    BY <2>1, <2>2, <2>4, SeqEqual DEF Octets
<1> QED
  BY <1>2, <1>4, <1>7, <1>8 DEF Framed

\* A text and the two line ends that close it.
Closing(text, q) == SubSeq(text, 1, q) \o <<"n", "n">>

\* Its letters.
LEMMA ClosingIs ==
    ASSUME NEW text \in Octets, NEW q \in Nat, q <= Len(text)
    PROVE  /\ Closing(text, q) \in Octets /\ Len(Closing(text, q)) = q + 2
           /\ \A i \in 1..q : Closing(text, q)[i] = text[i]
           /\ Closing(text, q)[q + 1] = "n" /\ Closing(text, q)[q + 2] = "n"
<1> DEFINE s == SubSeq(text, 1, q)
<1> DEFINE e == <<"n", "n">>
<1>1. s \in Octets /\ Len(s) = q /\ \A i \in 1..q : s[i] = text[i]
  <2>1. 1 \in Nat \ {0} /\ 1 <= q + 1 /\ q - 1 + 1 = q /\ \A i \in 1..q : 1 + i - 1 = i
    OBVIOUS
  <2>2. s \in Octets /\ Len(s) = q - 1 + 1 /\ \A i \in 1..(q - 1 + 1) : s[i] = text[1 + i - 1]
    BY <2>1, PartOf DEF Octets
  <2> HIDE DEF s
  <2> QED
    BY <2>1, <2>2
<1>2. e \in Octets /\ Len(e) = 2 /\ e[1] = "n" /\ e[2] = "n"
  <2>1. "n" \in Words
    BY StreamAssumption
  <2> QED
    BY <2>1 DEF Octets
<1> HIDE DEF s, e
<1>3. /\ s \o e \in Octets /\ Len(s \o e) = Len(s) + Len(e)
      /\ \A i \in 1..Len(s) : (s \o e)[i] = s[i]
      /\ \A i \in 1..Len(e) : (s \o e)[Len(s) + i] = e[i]
  <2>1. s \in Seq(Words) /\ e \in Seq(Words)
    BY <1>1, <1>2 DEF Octets
  <2> QED
    BY <2>1, JoinOf DEF Octets
<1>4. Closing(text, q) = s \o e
  BY DEF Closing, s, e
<1>5. 1 \in 1..Len(e) /\ 2 \in 1..Len(e)
  BY <1>2
<1> DEFINE w == s \o e
<1> HIDE DEF w
<1>6. w \in Octets /\ Len(w) = q + 2 /\ \A i \in 1..q : w[i] = text[i]
  BY <1>1, <1>2, <1>3 DEF w
<1>7. w[q + 1] = "n" /\ w[q + 2] = "n"
  BY <1>1, <1>2, <1>3, <1>5 DEF w
<1> QED
  BY <1>4, <1>6, <1>7 DEF w

\* What finish has done after a text that was read up to q.
ClosedBy(t, d, text, q) ==
    /\ t.framer \in Framer /\ t.events \in Texts /\ t.tooLong \in BOOLEAN
    /\ t.tooLong => t.events = << >>
    /\ ~t.tooLong => d \o t.events = EventsOf(Closing(text, q))

\* finish hands on the last event, as if the text had been closed.
LEMMA FinishIs ==
    ASSUME NEW text \in Octets, NEW q \in Nat, q <= Len(text),
           NEW f \in Framer, NEW d \in Texts, Framed(f, d, text, q), NEW t, t = FinishFraming(f)
    PROVE  ClosedBy(t, d, text, q)
<1> SUFFICES /\ t.framer \in Framer /\ t.events \in Texts /\ t.tooLong \in BOOLEAN
             /\ t.tooLong => t.events = << >>
             /\ ~t.tooLong => d \o t.events = EventsOf(Closing(text, q))
  BY Zenon DEF ClosedBy
<1> DEFINE w == Closing(text, q)
<1> DEFINE h == FlushLine(f)
<1> DEFINE k == FlushLine(h.framer)
<1> DEFINE end == FlushEvent(h.framer)
<1>1. w \in Octets /\ Len(w) = q + 2 /\ (\A i \in 1..q : w[i] = text[i]) /\ w[q + 1] = "n" /\ w[q + 2] = "n"
  BY ClosingIs
<1> HIDE DEF w
<1>2. Framed(f, d, w, q)
  <2>1. q <= Len(w) /\ \A i \in 1..q : text[i] = w[i]
    BY <1>1
  <2> QED
    BY <1>1, <2>1, FramedSame
<1>3. TrimCR(f.line) \in Octets
  BY FramerParts, TrimType
<1>4. /\ h.framer \in Framer /\ h.events \in Texts /\ h.tooLong \in BOOLEAN /\ h.framer.line = << >>
      /\ h.tooLong => h.events = << >>
  <2> HIDE DEF h
  <2> QED
    BY <1>3, FlushLineIs DEF h
<1>5. /\ k.framer \in Framer /\ ~k.tooLong /\ k.events = OpenOf(h.framer)
  <2> HIDE DEF k, h
  <2> QED
    BY <1>4, BlankLine DEF k
<1>6. /\ end.framer \in Framer /\ end.events = OpenOf(h.framer) /\ end.tooLong = FALSE
  <2> HIDE DEF h
  <2> QED
    BY <1>4, FlushEventIs
<1>7. OpenOf(h.framer) \in Texts /\ OpenOf(f) \in Texts
  <2> HIDE DEF h
  <2> QED
    BY <1>4, FramerParts
<1>8. ASSUME ~h.tooLong PROVE (d \o h.events) \o OpenOf(h.framer) = EventsOf(w)
  <2>1. q + 1 \in 1..Len(w) /\ q + 2 \in 1..Len(w) /\ (q + 1) - 1 = q /\ (q + 2) - 1 = q + 1
    BY <1>1
  <2>2. Framed(h.framer, d \o h.events, w, q + 1)
    BY <1>1, <1>2, <1>8, <2>1, LineFlushed
  <2> HIDE DEF h
  <2>3. Framed(k.framer, (d \o h.events) \o k.events, w, q + 2)
    BY <1>1, <1>4, <1>5, <2>1, <2>2, LineFlushed
  <2> HIDE DEF k
  <2> QED
    BY <1>1, <1>5, <2>3 DEF Framed, EventsOf
<1>9. CASE f.line = << >>
  <2>1. ~h.tooLong /\ h.events = OpenOf(f) /\ OpenOf(h.framer) = << >>
    <3> HIDE DEF h
    <3> QED
      BY <1>9, BlankLine DEF h
  <2> DEFINE fin == FlushEvent(f)
  <2>2. fin.framer \in Framer /\ fin.events = OpenOf(f) /\ fin.tooLong = FALSE
    BY FlushEventIs
  <2>3. t = [fin EXCEPT !.events = << >> \o @]
    BY <1>9 DEF FinishFraming
  <2>4. << >> \o OpenOf(f) = OpenOf(f)
    BY <1>7 DEF Texts
  <2>5. t.framer = fin.framer /\ t.events = << >> \o fin.events /\ t.tooLong = fin.tooLong
    BY <2>3 DEF FlushEvent
  <2> HIDE DEF h, fin
  <2>6. t.framer \in Framer /\ t.events = OpenOf(f) /\ t.tooLong = FALSE
    BY <2>2, <2>4, <2>5
  <2>7. (d \o OpenOf(f)) \o << >> = d \o OpenOf(f)
    BY <1>7 DEF Texts
  <2>8. d \o t.events = EventsOf(w)
    BY <1>8, <2>1, <2>6, <2>7
  <2> QED
    BY <1>7, <2>6, <2>8 DEF w
<1>10. CASE f.line # << >> /\ h.tooLong
  <2>1. t = h
    BY <1>10 DEF FinishFraming
  <2> HIDE DEF h
  <2> QED
    BY <1>4, <1>10, <2>1
<1>11. CASE f.line # << >> /\ ~h.tooLong
  <2>1. t = [end EXCEPT !.events = h.events \o @]
    BY <1>11 DEF FinishFraming
  <2>2. t.framer = end.framer /\ t.events = h.events \o end.events /\ t.tooLong = end.tooLong
    BY <2>1 DEF FlushEvent
  <2> HIDE DEF h, end
  <2>3. h.events \o OpenOf(h.framer) \in Texts
    BY <1>4, <1>7, JoinOf DEF Texts
  <2>4. d \o (h.events \o OpenOf(h.framer)) = (d \o h.events) \o OpenOf(h.framer)
    <3>1. h.events \in Seq(Octets) /\ OpenOf(h.framer) \in Seq(Octets) /\ d \in Seq(Octets)
      BY <1>4, <1>7 DEF Texts
    <3>2. PICK x, y : x = h.events /\ y = OpenOf(h.framer)
      OBVIOUS
    <3>3. (d \o x) \o y = d \o (x \o y)
      <4>1. x \in Seq(Octets) /\ y \in Seq(Octets) /\ d \in Seq(Octets)
        BY <3>1, <3>2
      <4> QED
        BY ONLY <4>1, ConcatAssociative
    <3> QED
      BY <3>2, <3>3
  <2>5. d \o t.events = EventsOf(w)
    BY <1>6, <1>8, <1>11, <2>2, <2>4
  <2> QED
    BY <1>6, <2>2, <2>3, <2>5 DEF w
<1> QED
  BY <1>4, <1>9, <1>10, <1>11

\* A new framer has been fed nothing.
LEMMA FramedNew ==
    ASSUME NEW text \in Octets
    PROVE  NewFramer \in Framer /\ << >> \in Texts /\ Framed(NewFramer, << >>, text, 0)
<1>1. << >> \in Seq(Words) /\ << >> \in Texts
  BY DEF Texts
<1>2. NewFramer \in Framer /\ NewFramer.line = << >> /\ OpenOf(NewFramer) = << >>
  BY <1>1 DEF NewFramer, Framer, OpenOf
<1>3. Begins(text, 1, 0 + 1)
  BY DEF Begins
<1>4. LineStart(text, 0 + 1) = 1
  BY <1>3, StartIs
<1>5. SubSeq(text, 1, 0) = << >>
  <2>1. 0 <= Len(text) /\ 1 <= 0 + 1 /\ 1 \in Nat \ {0}
    BY DEF Octets
  <2> QED
    BY <2>1, PartOf DEF Octets
<1>6. Reading(text)[0] = Silence
  BY ReadingIs
<1>7. Silence.events = << >> /\ Silence.open = << >>
  BY DEF Silence
<1> QED
  BY <1>1, <1>2, <1>4, <1>5, <1>6, <1>7 DEF Framed

\* What a framer that has been fed up to q has handed on, of a text read up to r.
LEMMA FramedEvents ==
    ASSUME NEW text \in Octets, NEW q \in Nat, NEW r \in Nat, q <= r, r <= Len(text),
           NEW f, NEW d, Framed(f, d, text, q)
    PROVE  /\ d \in Texts
           /\ IsPrefix(d, EventsOf(SubSeq(text, 1, r) \o <<"n", "n">>))
           /\ q = r => d = EventsOf(SubSeq(text, 1, r))
<1> DEFINE w == Closing(text, r)
<1> DEFINE s == SubSeq(text, 1, r)
<1>1. Len(text) \in Nat /\ q \in 0..r /\ r \in 0..r /\ q \in 0..Len(text)
  BY DEF Octets
<1>2. d = Reading(text)[q].events /\ Reading(text)[q] \in Readings
  BY <1>1, ReadingIs DEF Framed
<1>3. d \in Texts
  BY <1>2 DEF Readings
<1>4. IsPrefix(d, EventsOf(w))
  <2>1. w \in Octets /\ Len(w) = r + 2 /\ \A i \in 1..r : w[i] = text[i]
    BY ClosingIs
  <2> HIDE DEF w
  <2>2. Reading(text)[q] = Reading(w)[q]
    <3>1. r <= Len(w) /\ \A i \in 1..r : text[i] = w[i]
      BY <2>1
    <3> QED
      BY <1>1, <2>1, <3>1, SameReading
  <2>3. Leads(Reading(w)[q].events, Reading(w)[Len(w)].events)
    <3>1. Len(w) \in Nat /\ q <= Len(w)
      BY <2>1
    <3> QED
      BY <2>1, <3>1, EventsStay
  <2>4. Reading(w)[Len(w)].events \in Texts
    <3>1. Len(w) \in 0..Len(w)
      BY <2>1
    <3>2. Reading(w)[Len(w)] \in Readings
      BY <2>1, <3>1, ReadingIs
    <3> QED
      BY <3>2 DEF Readings
  <2>5. Leads(d, EventsOf(w)) /\ EventsOf(w) \in Texts
    BY <1>2, <2>2, <2>3, <2>4 DEF EventsOf
  <2> QED
    BY <1>3, <2>5, LeadsIsPrefix
<1>5. ASSUME q = r PROVE d = EventsOf(s)
  <2>1. 1 \in Nat \ {0} /\ 1 <= r + 1 /\ r - 1 + 1 = r /\ \A i \in 1..r : 1 + i - 1 = i
    OBVIOUS
  <2>2. s \in Octets /\ Len(s) = r - 1 + 1 /\ \A i \in 1..(r - 1 + 1) : s[i] = text[1 + i - 1]
    BY <2>1, PartOf DEF Octets
  <2> HIDE DEF s
  <2>3. Len(s) = r /\ \A i \in 1..r : text[i] = s[i]
    BY <2>1, <2>2
  <2>4. Reading(text)[r] = Reading(s)[r]
    BY <1>1, <2>2, <2>3, SameReading
  <2> QED
    BY <1>2, <1>5, <2>3, <2>4 DEF EventsOf
<1> QED
  BY <1>3, <1>4, <1>5 DEF Closing

-----------------------------------------------------------------------------
(* What a client is sent, and the invariant. *)

Lines == Seq(Chunks)

Spoken == {"role", "text", "refusal", "tool"}

None(w, fields) == \A i \in 1..Len(w) : w[i].field \notin fields

\* A chat stream that may have been cut short.
Proper(w) ==
    /\ w \in Lines
    /\ \A i \in 1..Len(w) : w[i].field \in Spoken \cup {"finish", "usage", "error", "done"}
    /\ \A i \in 1..Len(w) : w[i].field = "done" => i = Len(w)
    /\ \A i, j \in 1..Len(w) : w[i].field \in {"finish", "error"} /\ w[j].field \in {"finish", "error"} => i = j
    /\ \A i \in 1..Len(w) : w[i].field \notin {"error", "done"} =>
          w[i].id = w[1].id /\ (w[i].field = "role" <=> i = 1)

\* A chat stream with its end.
Closed(w) ==
    /\ Proper(w) /\ Len(w) > 0 /\ w[Len(w)].field = "done"
    /\ \E i \in 1..Len(w) : w[i].field \in {"finish", "error"}

\* A chat stream w that has ended, well if the reading was complete.
Told(w, why) == Closed(w) /\ (why = "complete" => None(w, {"error"}))

\* A chat stream w that goes on: the translator t has begun it, or has sent nothing.
Opened(t, w) ==
    /\ Proper(w) /\ None(w, {"finish", "usage", "error", "done"})
    /\ IF t.roleSent THEN t.id # "" /\ Len(w) > 0 /\ w[1].id = t.id ELSE w = << >>

\* A translator that has not ended its stream, of which "prior" was sent by earlier calls.
Speaks(t, prior) ==
    /\ t \in Translator /\ ~t.terminal /\ ~t.failed
    /\ t.tools # << >> => t.roleSent
    /\ Opened(t, prior \o t.wrote)

\* An answer, after partial images.
Answered(w) ==
    /\ Len(w) \in Nat \ {0} /\ w[Len(w)].field \in {"completed", "reply", "error"}
    /\ \A i \in 1..(Len(w) - 1) : w[i].field = "partial"

\* The log counts the request as served.
Served == entry.error = ""

\* Where the loop stands in the stream.
LoopInv ==
    /\ chunk \in Octets /\ Len(chunk) <= read
    /\ at \in {"read", "feed"} => chunk = SubSeq(stream.wire, read - Len(chunk) + 1, read)
    /\ at = "read" => chunk = << >>
    /\ at = "forward" => Is({"responses"})
    /\ \E S : results \in Seq(S)

\* A consumer without an error.
Sound(c) == c.err = ""

\* The framer has been fed what has been read, but for the rest of the chunk; the tracker
\* does not go back to it after an error.
FrameInv ==
    /\ at \in {"read", "feed"} => Framed(framer, delivered, stream.wire, read - Len(chunk))
    /\ at \in {"forward", "end"} /\ Is({"responses"}) /\ Sound(consumer) =>
          chunk = << >> /\ Framed(framer, delivered, stream.wire, read)

\* A relay is level with its reads between them.
RelayInv ==
    /\ ~Is({"responses"}) => forwarded = 0
    /\ Is({"responses"}) => /\ at = "read" => forwarded = read
                            /\ at \in {"end", "done"} /\ ~gone => forwarded = read

\* What a chat client has been sent, by where the handler stands.
ChatInv ==
    /\ consumer.wrote = << >> /\ out \in Lines
    /\ at \in {"read", "feed"} => Speaks(consumer, out)
    /\ at = "end" => \/ stop \in {"framing", "eof", "read"} /\ Speaks(consumer, out)
                     \/ stop \in {"event", "complete"} /\ Told(out, stop)
                     \/ stop = "client" /\ gone /\ Proper(out)
    /\ at = "done" => Proper(out) /\ (~gone => Closed(out)) /\ (Served => None(out, {"error"}))

\* And any other.
ReplyInv ==
    /\ Is({"image", "images"}) => consumer.wrote = << >>
    /\ at # "done" => out \in Seq(Partials)
    /\ at = "done" => \/ Answered(out) /\ (Served => None(out, {"error"}))
                      \/ out \in Seq(Partials) /\ (gone \/ Is({"responses"}))

StreamIInv ==
    /\ StreamTypeOK /\ LoopInv /\ FrameInv /\ FramedWhole /\ RelayInv
    /\ Is({"chat"}) => ChatInv
    /\ ~Is({"chat"}) => ReplyInv

-----------------------------------------------------------------------------
(* Chunks. *)

\* One more at the end of a sequence.
LEMMA OneMore ==
    ASSUME NEW S, NEW w \in Seq(S), NEW c \in S
    PROVE  /\ Append(w, c) \in Seq(S) /\ Len(Append(w, c)) = Len(w) + 1 /\ Len(w) \in Nat
           /\ \A i \in 1..Len(w) : Append(w, c)[i] = w[i]
           /\ Append(w, c)[Len(w) + 1] = c
           /\ Append(w, c)[Len(Append(w, c))] = c
           /\ \A i \in 1..Len(Append(w, c)) : i \in 1..Len(w) \/ i = Len(w) + 1
OBVIOUS

\* A chunk that may follow.
Follows(c, w) ==
    /\ c \in Chunks /\ c.field \in Spoken \cup {"finish", "usage", "error", "done"}
    /\ c.field \in {"finish", "error"} => None(w, {"finish", "error"})
    /\ c.field \notin {"error", "done"} =>
          IF w = << >> THEN c.field = "role" ELSE c.id = w[1].id /\ c.field # "role"

\* It keeps a stream proper, if that has not ended.
LEMMA ProperMore ==
    ASSUME NEW w, Proper(w), None(w, {"done"}), NEW c, Follows(c, w)
    PROVE  Proper(Append(w, c))
<1> DEFINE v == Append(w, c)
<1> DEFINE n == Len(w)
<1>1. w \in Lines /\ c \in Chunks
  BY DEF Proper, Follows
<1>2. /\ v \in Lines /\ Len(v) = n + 1 /\ n \in Nat /\ v[n + 1] = c
      /\ \A i \in 1..n : v[i] = w[i]
      /\ \A i \in 1..Len(v) : i \in 1..n \/ i = n + 1
  BY <1>1, OneMore DEF Lines
<1> HIDE DEF v, n
<1>3. \A i \in 1..Len(v) : v[i].field \in Spoken \cup {"finish", "usage", "error", "done"}
  <2>1. \A i \in 1..n : w[i].field \in Spoken \cup {"finish", "usage", "error", "done"}
    BY DEF Proper, n
  <2>2. c.field \in Spoken \cup {"finish", "usage", "error", "done"}
    BY DEF Follows
  <2> QED
    BY <1>2, <2>1, <2>2
<1>4. \A i \in 1..Len(v) : v[i].field = "done" => i = Len(v)
  <2>1. \A i \in 1..n : w[i].field # "done"
    BY DEF None, n
  <2> QED
    BY <1>2, <2>1
<1>5. ASSUME NEW i \in 1..Len(v), NEW j \in 1..Len(v),
             v[i].field \in {"finish", "error"}, v[j].field \in {"finish", "error"}
      PROVE  i = j
  <2>1. \A k, l \in 1..n : w[k].field \in {"finish", "error"} /\ w[l].field \in {"finish", "error"} => k = l
    BY DEF Proper, n
  <2>2. c.field \in {"finish", "error"} => \A k \in 1..n : w[k].field \notin {"finish", "error"}
    BY DEF Follows, None, n
  <2> QED
    BY <1>2, <1>5, <2>1, <2>2
<1>6. ASSUME NEW i \in 1..Len(v), v[i].field \notin {"error", "done"}
      PROVE  v[i].id = v[1].id /\ (v[i].field = "role" <=> i = 1)
  <2>1. CASE i \in 1..n
    <3>1. 1 \in 1..n /\ v[1] = w[1] /\ v[i] = w[i]
      BY <1>2, <2>1
    <3>2. w[i].field \notin {"error", "done"} => w[i].id = w[1].id /\ (w[i].field = "role" <=> i = 1)
      BY <2>1 DEF Proper, n
    <3> QED
      BY <1>6, <3>1, <3>2
  <2>2. CASE i = n + 1
    <3>1. v[i] = c /\ IF w = << >> THEN c.field = "role" ELSE c.id = w[1].id /\ c.field # "role"
      BY <1>2, <1>6, <2>2 DEF Follows
    <3>2. CASE w = << >>
      <4>1. n = 0 /\ i = 1
        BY <2>2, <3>2 DEF n
      <4> QED
        BY <3>1, <3>2, <4>1
    <3>3. CASE w # << >>
      <4>1. n # 0
        BY <1>1, <3>3 DEF n, Lines
      <4>2. 1 \in 1..n /\ v[1] = w[1] /\ i # 1
        BY <1>2, <2>2, <4>1
      <4> QED
        BY <3>1, <3>3, <4>2
    <3> QED
      BY <3>2, <3>3
  <2> QED
    BY <1>2, <2>1, <2>2
<1>7. Proper(v)
  BY <1>2, <1>3, <1>4, <1>5, <1>6 DEF Proper
<1> QED
  BY <1>7 DEF v

\* What a stream has not, it has not with one more that is none of these.
LEMMA NoneMore ==
    ASSUME NEW w \in Lines, NEW c \in Chunks, NEW F, None(w, F), c.field \notin F
    PROVE  None(Append(w, c), F)
<1>1. /\ Len(Append(w, c)) = Len(w) + 1 /\ Append(w, c)[Len(w) + 1] = c
      /\ \A i \in 1..Len(w) : Append(w, c)[i] = w[i]
      /\ \A i \in 1..Len(Append(w, c)) : i \in 1..Len(w) \/ i = Len(w) + 1
  BY OneMore DEF Lines
<1> QED
  BY <1>1 DEF None

\* What is cut short of a proper stream is proper.
LEMMA ProperCut ==
    ASSUME NEW p \in Lines, NEW w \in Lines, Proper(p \o w), NEW k \in 0..(Len(w) - 1)
    PROVE  Proper(p \o SubSeq(w, 1, k))
<1> DEFINE s == SubSeq(w, 1, k)
<1> DEFINE v == p \o w
<1> DEFINE u == p \o s
<1>1. Len(p) \in Nat /\ Len(w) \in Nat /\ k \in Nat /\ 1 <= k + 1 /\ k <= Len(w) /\ 1 \in Nat \ {0}
  BY DEF Lines
<1>2. s \in Lines /\ Len(s) = k - 1 + 1 /\ \A i \in 1..(k - 1 + 1) : s[i] = w[1 + i - 1]
  BY <1>1, PartOf DEF Lines
<1>3. Len(s) = k /\ \A i \in 1..k : s[i] = w[i]
  BY <1>1, <1>2
<1> HIDE DEF s
<1>4. /\ v \in Lines /\ Len(v) = Len(p) + Len(w) /\ (\A i \in 1..Len(p) : v[i] = p[i])
      /\ \A i \in 1..Len(w) : v[Len(p) + i] = w[i]
  BY JoinOf DEF Lines
<1>5. /\ u \in Lines /\ Len(u) = Len(p) + Len(s) /\ (\A i \in 1..Len(p) : u[i] = p[i])
      /\ \A i \in 1..Len(s) : u[Len(p) + i] = s[i]
  <2>1. s \in Seq(Chunks) /\ p \in Seq(Chunks)
    BY <1>2 DEF Lines
  <2> QED
    BY ONLY <2>1, JoinOf DEF Lines
<1> HIDE DEF u, v
<1>6. Proper(v)
  BY DEF v
<1>7. ASSUME NEW i \in 1..Len(u) PROVE u[i] = v[i] /\ i \in 1..Len(v)
  <2>1. CASE i \in 1..Len(p)
    BY <1>1, <1>4, <1>5, <2>1
  <2>2. CASE i \notin 1..Len(p)
    <3>1. PICK j \in 1..k : i = Len(p) + j
      <4>1. i - Len(p) \in 1..k /\ i = Len(p) + (i - Len(p))
        BY <1>1, <1>3, <1>5, <2>2
      <4> QED
        BY <4>1
    <3>2. j \in 1..Len(s) /\ j \in 1..Len(w)
      BY <1>1, <1>3, <3>1
    <3> QED
      BY <1>1, <1>3, <1>4, <1>5, <3>1, <3>2
  <2> QED
    BY <2>1, <2>2
<1>8. Len(u) <= Len(v) /\ Len(u) \in Nat /\ Len(v) \in Nat
  BY <1>1, <1>3, <1>4, <1>5
<1>9. \A i \in 1..Len(u) : u[i].field = "done" => i = Len(u)
  <2>1. \A i \in 1..Len(v) : v[i].field = "done" => i = Len(v)
    BY <1>6 DEF Proper
  <2> QED
    BY <1>7, <1>8, <2>1
<1>10. ASSUME NEW i \in 1..Len(u), u[i].field \notin {"error", "done"}
      PROVE  u[i].id = u[1].id /\ (u[i].field = "role" <=> i = 1)
  <2>1. 1 \in 1..Len(u)
    BY <1>8
  <2>2. u[1] = v[1] /\ u[i] = v[i] /\ i \in 1..Len(v)
    BY <1>7, <2>1
  <2> QED
    BY <1>6, <1>10, <2>2 DEF Proper
<1>11. \A i \in 1..Len(u) : u[i].field \in Spoken \cup {"finish", "usage", "error", "done"}
  BY <1>6, <1>7 DEF Proper
<1>12. \A i, j \in 1..Len(u) :
          u[i].field \in {"finish", "error"} /\ u[j].field \in {"finish", "error"} => i = j
  BY <1>6, <1>7 DEF Proper
<1>13. Proper(u)
  BY <1>5, <1>9, <1>10, <1>11, <1>12 DEF Proper
<1> QED
  BY <1>13 DEF u, s

-----------------------------------------------------------------------------
(* The translator. *)

Tool == [key : ToolKeys, argumentsEmitted : BOOLEAN]

Tools == Seq(Tool)

Seen == SUBSET (Int \X Int \X Words)

\* A chunk that begins, continues or ends what is said between the calls.
LEMMA JoinMore ==
    ASSUME NEW S, NEW p \in Seq(S), NEW w \in Seq(S), NEW c \in S
    PROVE  p \o Append(w, c) = Append(p \o w, c)
OBVIOUS

\* The fields of a translator.
LEMMA TranslatorIs ==
    Translator = [id : Words, roleSent : BOOLEAN, terminal : BOOLEAN, failed : BOOLEAN, usage : Int,
                  tools : Tools, contentSeen : Seen, wrote : Lines]
BY DEF Translator, Tools, Tool, Seen, Lines

\* t with another id, other marks, tools or chunks.
LEMMA TranslatorWith ==
    ASSUME NEW t \in Translator
    PROVE  /\ t.id \in Words /\ t.roleSent \in BOOLEAN /\ t.terminal \in BOOLEAN /\ t.failed \in BOOLEAN
           /\ t.usage \in Int /\ t.tools \in Tools /\ t.contentSeen \in Seen /\ t.wrote \in Lines
           /\ \A x \in Words : [t EXCEPT !.id = x] \in Translator
           /\ \A x \in BOOLEAN : [t EXCEPT !.roleSent = x] \in Translator
           /\ \A x \in BOOLEAN : [t EXCEPT !.terminal = x] \in Translator
           /\ \A x \in Tools : [t EXCEPT !.tools = x] \in Translator
           /\ \A x \in Seen : [t EXCEPT !.contentSeen = x] \in Translator
           /\ \A x \in Lines : [t EXCEPT !.wrote = x] \in Translator
BY TranslatorIs

\* u is t after one more chunk.
Adds(u, t, prior, c) ==
    /\ u \in Translator /\ prior \o u.wrote = Append(prior \o t.wrote, c)
    /\ u.roleSent = t.roleSent /\ u.terminal = t.terminal /\ u.failed = t.failed
    /\ u.usage = t.usage /\ u.tools = t.tools

\* writeObject adds a chunk, and does nothing else.
LEMMA WriteIs ==
    ASSUME NEW prior \in Lines, NEW t \in Translator, NEW c \in Chunks, NEW u, u = WriteObject(t, c)
    PROVE  Adds(u, t, prior, c) /\ u.id = t.id
<1>1. t.wrote \in Lines
  BY TranslatorWith
<1> DEFINE x == Append(t.wrote, c)
<1>2. x \in Lines /\ prior \o x = Append(prior \o t.wrote, c)
  BY <1>1, OneMore, JoinMore DEF Lines
<1>3. u = [t EXCEPT !.wrote = x]
  BY DEF WriteObject
<1> HIDE DEF x
<1>4. u \in Translator
  BY <1>2, <1>3, TranslatorWith
<1>5. /\ u.wrote = x /\ u.id = t.id /\ u.roleSent = t.roleSent /\ u.terminal = t.terminal
      /\ u.failed = t.failed /\ u.usage = t.usage /\ u.tools = t.tools
  BY <1>3, TranslatorIs
<1> QED
  BY <1>2, <1>4, <1>5, Zenon DEF Adds

\* writeChoice adds a chunk of the completion's name.
LEMMA ChoiceIs ==
    ASSUME NEW prior \in Lines, NEW t \in Translator, NEW field \in Words, NEW value \in Seq(Words),
           NEW index \in Int, NEW u, u = WriteChoice(t, field, value, index)
    PROVE  /\ u.id # "" /\ (t.id # "" => u.id = t.id) /\ Chunk(u.id, field, value, index) \in Chunks
           /\ Adds(u, t, prior, Chunk(u.id, field, value, index))
<1> DEFINE id == IF t.id = "" THEN "own" ELSE t.id
<1> DEFINE s == [t EXCEPT !.id = id]
<1> DEFINE c == Chunk(id, field, value, index)
<1>1. id \in Words /\ id # "" /\ (t.id # "" => id = t.id)
  <2>1. "own" \in Words
    BY StreamAssumption
  <2> QED
    BY <2>1, TranslatorWith
<1>2. u = WriteObject(s, c)
  BY DEF WriteChoice
<1> HIDE DEF id
<1>3. s \in Translator
  BY <1>1, TranslatorWith
<1>4. /\ s.wrote = t.wrote /\ s.id = id /\ s.roleSent = t.roleSent /\ s.terminal = t.terminal
      /\ s.failed = t.failed /\ s.usage = t.usage /\ s.tools = t.tools
  BY TranslatorIs
<1>5. c \in Chunks
  BY <1>1 DEF Chunk, Chunks
<1> HIDE DEF s, c
<1>6. Adds(u, s, prior, c) /\ u.id = s.id
  BY ONLY <1>2, <1>3, <1>5, WriteIs, prior \in Lines, Zenon
<1>7. c = Chunk(u.id, field, value, index)
  BY <1>4, <1>6 DEF c
<1>8. Adds(u, t, prior, c)
  BY <1>4, <1>6, Zenon DEF Adds
<1> QED
  BY <1>1, <1>4, <1>5, <1>6, <1>7, <1>8

\* A translator that speaks, and what of it does not matter.
LEMMA SpeaksStill ==
    ASSUME NEW prior, NEW t, Speaks(t, prior), NEW u \in Translator,
           u.id = t.id \/ ~t.roleSent, u.roleSent = t.roleSent, u.terminal = t.terminal,
           u.failed = t.failed, u.wrote = t.wrote, u.tools = t.tools \/ u.roleSent
    PROVE  Speaks(u, prior)
BY DEF Speaks, Opened

\* u goes on from t, with the same tools.
Continues(u, t, prior) == Speaks(u, prior) /\ u.roleSent /\ u.tools = t.tools

\* writeChoice, once the role has been sent.
LEMMA ChoiceWritten ==
    ASSUME NEW prior \in Lines, NEW t, Speaks(t, prior), t.roleSent,
           NEW field \in {"text", "refusal", "tool"}, NEW value \in Seq(Words), NEW index \in Int,
           NEW u, u = WriteChoice(t, field, value, index)
    PROVE  Continues(u, t, prior)
<1> DEFINE w == prior \o t.wrote
<1> DEFINE c == Chunk(u.id, field, value, index)
<1>1. field \in Words
  BY StreamAssumption
<1>2. /\ t \in Translator /\ ~t.terminal /\ ~t.failed /\ t.id # "" /\ Proper(w) /\ Len(w) > 0
      /\ w[1].id = t.id /\ None(w, {"finish", "usage", "error", "done"})
  BY DEF Speaks, Opened
<1>3. /\ u \in Translator /\ u.id = t.id /\ u.roleSent = t.roleSent /\ u.terminal = t.terminal
      /\ u.failed = t.failed /\ u.tools = t.tools /\ c \in Chunks /\ prior \o u.wrote = Append(w, c)
  <2>1. u.id # "" /\ (t.id # "" => u.id = t.id) /\ c \in Chunks /\ Adds(u, t, prior, c)
    BY <1>1, <1>2, ChoiceIs, Zenon
  <2> HIDE DEF c
  <2> QED
    BY <1>2, <2>1, Zenon DEF Adds
<1>4. w \in Lines /\ w # << >>
  <2> HIDE DEF w
  <2>1. w \in Lines
    BY <1>2 DEF Proper
  <2>2. Len(w) > 0
    BY <1>2, Zenon
  <2> QED
    BY ONLY <2>1, <2>2
<1>5. c.id = t.id /\ c.field = field
  BY <1>3 DEF Chunk
<1> HIDE DEF w, c
<1>6. Follows(c, w)
  BY <1>2, <1>3, <1>4, <1>5 DEF Follows, Spoken
<1>7. None(w, {"done"})
  BY <1>2 DEF None
<1>8. Proper(Append(w, c))
  BY <1>2, <1>6, <1>7, ProperMore
<1>9. None(Append(w, c), {"finish", "usage", "error", "done"})
  <2>1. c.field \notin {"finish", "usage", "error", "done"}
    BY <1>5
  <2> QED
    BY <1>2, <1>3, <1>4, <2>1, NoneMore
<1>10. Len(Append(w, c)) > 0 /\ Append(w, c)[1] = w[1]
  <2>1. w \in Seq(Chunks) /\ c \in Chunks
    BY <1>3, <1>4 DEF Lines
  <2>2. Len(w) \in Nat /\ Len(Append(w, c)) = Len(w) + 1 /\ \A i \in 1..Len(w) : Append(w, c)[i] = w[i]
    BY ONLY <2>1, OneMore
  <2>3. Len(w) > 0
    BY <1>2, Zenon
  <2> QED
    BY ONLY <2>2, <2>3
<1>11. Opened(u, prior \o u.wrote)
  BY <1>2, <1>3, <1>8, <1>9, <1>10 DEF Opened
<1>12. Speaks(u, prior)
  BY <1>2, <1>3, <1>11 DEF Speaks
<1> QED
  BY <1>3, <1>12, Zenon DEF Continues

\* ensureRole: the first chunk gives the role.
LEMMA RoleEnsured ==
    ASSUME NEW prior \in Lines, NEW t, Speaks(t, prior), NEW u, u = EnsureRole(t)
    PROVE  Speaks(u, prior) /\ u.roleSent /\ u.tools = t.tools
<1>1. CASE t.roleSent
  BY <1>1 DEF EnsureRole
<1>2. CASE ~t.roleSent
  <2> DEFINE s == [t EXCEPT !.roleSent = TRUE]
  <2> DEFINE c == Chunk(u.id, "role", << >>, 0)
  <2>1. t \in Translator /\ ~t.terminal /\ ~t.failed /\ prior \o t.wrote = << >> /\ t.tools = << >>
    BY <1>2 DEF Speaks, Opened
  <2>2. /\ s \in Translator /\ s.roleSent = TRUE /\ s.wrote = t.wrote /\ s.terminal = t.terminal
        /\ s.failed = t.failed /\ s.tools = t.tools
    <3>1. t \in Translator
      BY <2>1
    <3> QED
      BY ONLY <3>1, TranslatorIs
  <2>3. u = WriteChoice(s, "role", << >>, 0)
    BY <1>2 DEF EnsureRole
  <2>4. "role" \in Words /\ << >> \in Seq(Words) /\ 0 \in Int
    <3>1. "role" \in Words
      BY StreamAssumption
    <3> QED
      BY <3>1
  <2> HIDE DEF s
  <2>5. /\ u \in Translator /\ u.id # "" /\ u.roleSent = s.roleSent /\ u.terminal = s.terminal
        /\ u.failed = s.failed /\ u.tools = s.tools /\ c \in Chunks
        /\ prior \o u.wrote = Append(prior \o s.wrote, c)
    <3>1. u.id # "" /\ c \in Chunks /\ Adds(u, s, prior, c)
      BY <2>2, <2>3, <2>4, ChoiceIs, Zenon
    <3> HIDE DEF c
    <3> QED
      BY <3>1, Zenon DEF Adds
  <2>6. c.id = u.id /\ c.field = "role"
    BY DEF Chunk
  <2> HIDE DEF c
  <2> DEFINE e == prior \o t.wrote
  <2>7. e = << >> /\ e \in Lines /\ prior \o u.wrote = Append(e, c)
    <3>1. << >> \in Lines
      BY DEF Lines
    <3> QED
      BY <2>1, <2>2, <2>5, <3>1, Zenon
  <2> HIDE DEF e
  <2>8. Proper(e) /\ None(e, {"finish", "usage", "error", "done"}) /\ None(e, {"done"}) /\ Len(e) = 0
    BY <2>7 DEF Proper, None
  <2>9. Follows(c, e)
    BY <2>5, <2>6, <2>7 DEF Follows, Spoken
  <2>10. Proper(Append(e, c))
    BY <2>8, <2>9, ProperMore
  <2>11. None(Append(e, c), {"finish", "usage", "error", "done"})
    <3>1. c.field \notin {"finish", "usage", "error", "done"}
      BY <2>6
    <3> QED
      BY <2>5, <2>7, <2>8, <3>1, NoneMore
  <2>12. Len(Append(e, c)) > 0 /\ Append(e, c)[1] = c
    <3>1. e \in Seq(Chunks) /\ c \in Chunks
      BY <2>5, <2>7 DEF Lines
    <3>2. Len(Append(e, c)) = Len(e) + 1 /\ Append(e, c)[Len(e) + 1] = c
      BY ONLY <3>1, OneMore
    <3> QED
      BY <2>8, <3>2
  <2>13. Opened(u, prior \o u.wrote)
    BY <2>2, <2>5, <2>6, <2>7, <2>10, <2>11, <2>12 DEF Opened
  <2> QED
    BY <2>1, <2>2, <2>5, <2>13 DEF Speaks
<1> QED
  BY <1>1, <1>2

\* captureResponse: a name counts only before the first chunk.
LEMMA Captured ==
    ASSUME NEW prior, NEW t, Speaks(t, prior), NEW response \in Responses,
           NEW u, u = CaptureResponse(t, response)
    PROVE  Speaks(u, prior)
<1> DEFINE x == IF ~t.roleSent /\ response.id # "" THEN response.id ELSE t.id
<1> DEFINE y == IF response.usage > 0 THEN response.usage ELSE t.usage
<1>1. t \in Translator
  BY DEF Speaks
<1>2. x \in Words /\ y \in Int /\ (x = t.id \/ ~t.roleSent)
  <2>1. response.id \in Words /\ response.usage \in Int
    BY DEF Responses
  <2>2. t.id \in Words /\ t.usage \in Int
    BY <1>1, TranslatorWith
  <2>3. y \in Int
    BY <2>1, <2>2
  <2>4. x \in Words /\ (x = t.id \/ ~t.roleSent)
    BY <2>1, <2>2, Zenon
  <2> QED
    BY <2>3, <2>4
<1>3. u = [t EXCEPT !.id = x, !.usage = y]
  BY DEF CaptureResponse
<1> HIDE DEF x, y
<1>4. u \in Translator
  BY <1>1, <1>2, <1>3, TranslatorIs
<1>5. /\ u.id = x /\ u.roleSent = t.roleSent /\ u.terminal = t.terminal /\ u.failed = t.failed
      /\ u.wrote = t.wrote /\ u.tools = t.tools
  BY <1>1, <1>3, TranslatorIs
<1> QED
  BY <1>2, <1>4, <1>5, SpeaksStill, Zenon

\* What a tool is known by.
LEMMA KeyType ==
    ASSUME NEW id \in Words, NEW index \in Int
    PROVE  ToolKey(id, index) \in ToolKeys
<1>1. <<id>> \in Seq(Words)
  OBVIOUS
<1>2. <<"output", index>> \in {"output"} \X Int
  OBVIOUS
<1> QED
  BY <1>1, <1>2, Zenon DEF ToolKey, ToolKeys

\* ensureTool: the tool is known from here on.
LEMMA ToolEnsured ==
    ASSUME NEW prior \in Lines, NEW t, Speaks(t, prior), NEW item, item.id \in Words,
           item.arguments \in Seq(Words), NEW index \in Int, NEW u, u = EnsureTool(t, item, index)
    PROVE  Speaks(u, prior) /\ u.roleSent /\ Known(u, ToolKey(item.id, index))
<1> DEFINE r == EnsureRole(t)
<1> DEFINE key == ToolKey(item.id, index)
<1> DEFINE has == item.arguments # << >>
<1> DEFINE tool == [key |-> key, argumentsEmitted |-> has]
<1> DEFINE x == Append(r.tools, tool)
<1> DEFINE s == [r EXCEPT !.tools = x]
<1>1. Speaks(r, prior) /\ r.roleSent
  BY RoleEnsured
<1>2. u = IF Known(r, key) THEN r ELSE WriteChoice(s, "tool", item.arguments, Len(r.tools) + 1)
  BY DEF EnsureTool
<1> HIDE DEF r
<1>3. r \in Translator /\ r.tools \in Tools
  <2>1. r \in Translator
    BY <1>1 DEF Speaks
  <2> QED
    BY <2>1, TranslatorWith
<1>4. key \in ToolKeys
  BY KeyType
<1> HIDE DEF key
<1>5. has \in BOOLEAN
  OBVIOUS
<1> HIDE DEF has
<1>6. tool \in Tool /\ tool.key = key
  BY <1>4, <1>5 DEF Tool
<1> HIDE DEF tool
<1>7. x \in Tools /\ Len(x) = Len(r.tools) + 1 /\ Len(r.tools) \in Nat /\ x[Len(r.tools) + 1] = tool
  BY <1>3, <1>6, OneMore DEF Tools
<1> HIDE DEF x
<1>8. s \in Translator
  BY <1>3, <1>7, TranslatorWith
<1>9. /\ s.id = r.id /\ s.roleSent = r.roleSent /\ s.terminal = r.terminal /\ s.failed = r.failed
      /\ s.wrote = r.wrote /\ s.tools = x
  BY <1>3, TranslatorIs
<1> HIDE DEF s
<1>10. Speaks(s, prior) /\ s.roleSent
  <2>1. s.roleSent
    BY <1>1, <1>9, Zenon
  <2> QED
    BY <1>1, <1>8, <1>9, <2>1, SpeaksStill, Zenon
<1>11. CASE Known(r, key)
  BY <1>1, <1>2, <1>11, Zenon DEF key
<1>12. CASE ~Known(r, key)
  <2>1. u = WriteChoice(s, "tool", item.arguments, Len(r.tools) + 1)
    BY <1>2, <1>12
  <2>2. Len(r.tools) + 1 \in Int /\ "tool" \in {"text", "refusal", "tool"}
    BY <1>7
  <2>3. Speaks(u, prior) /\ u.roleSent /\ u.tools = s.tools
    <3>1. Continues(u, s, prior)
      BY <1>10, <2>1, <2>2, ChoiceWritten, Zenon
    <3> QED
      BY <3>1, Zenon DEF Continues
  <2>4. u.tools = x
    BY <1>9, <2>3, Zenon
  <2>5. Len(r.tools) + 1 \in 1..Len(x) /\ x[Len(r.tools) + 1].key = key
    BY ONLY <1>6, <1>7
  <2>6. Known(u, key)
    BY <2>4, <2>5, Zenon DEF Known
  <2> QED
    BY <2>3, <2>6, Zenon DEF key
<1> QED
  BY <1>11, <1>12

\* writeToolArguments, of a tool that is known.
LEMMA ArgumentsWritten ==
    ASSUME NEW prior \in Lines, NEW t, Speaks(t, prior), t.roleSent, NEW key, Known(t, key),
           NEW arguments \in Seq(Words), NEW u, u = WriteToolArguments(t, key, arguments)
    PROVE  Speaks(u, prior) /\ u.roleSent
<1> DEFINE p == Place(t, key)
<1> DEFINE old == t.tools[p]
<1> DEFINE new == [old EXCEPT !.argumentsEmitted = TRUE]
<1> DEFINE x == [t.tools EXCEPT ![p] = new]
<1> DEFINE s == [t EXCEPT !.tools = x]
<1>1. t \in Translator /\ t.tools \in Tools
  <2>1. t \in Translator
    BY DEF Speaks
  <2> QED
    BY <2>1, TranslatorWith
<1>2. p \in 1..Len(t.tools)
  <2>1. \E i \in 1..Len(t.tools) : t.tools[i].key = key
    BY DEF Known
  <2> QED
    BY <2>1, Zenon DEF Place
<1>3. u = WriteChoice(s, "tool", arguments, p)
  BY DEF WriteToolArguments
<1> HIDE DEF p
<1>4. Len(t.tools) \in Nat /\ old \in Tool
  BY <1>1, <1>2 DEF Tools
<1> HIDE DEF old
<1>5. new \in Tool
  BY <1>4 DEF Tool
<1> HIDE DEF new
<1>6. x \in Tools
  BY <1>1, <1>2, <1>5 DEF Tools
<1> HIDE DEF x
<1>7. s \in Translator
  BY <1>1, <1>6, TranslatorWith
<1>8. /\ s.id = t.id /\ s.roleSent = t.roleSent /\ s.terminal = t.terminal /\ s.failed = t.failed
      /\ s.wrote = t.wrote
  BY <1>1, TranslatorIs
<1> HIDE DEF s
<1>9. Speaks(s, prior) /\ s.roleSent
  <2>1. s.roleSent
    BY <1>8, Zenon
  <2> QED
    BY <1>7, <1>8, <2>1, SpeaksStill, Zenon
<1>10. p \in Int /\ "tool" \in {"text", "refusal", "tool"}
  BY <1>2, <1>4
<1>11. Continues(u, s, prior)
  BY <1>3, <1>9, <1>10, ChoiceWritten, Zenon
<1> QED
  BY <1>11, Zenon DEF Continues

\* A call that is complete.
LEMMA CallEmitted ==
    ASSUME NEW prior \in Lines, NEW t, Speaks(t, prior), NEW item \in Items, NEW index \in Int,
           NEW u, u = EmitCall(t, item, index)
    PROVE  Speaks(u, prior)
<1> DEFINE v == EnsureTool(t, item, index)
<1> DEFINE key == ToolKey(item.id, index)
<1>1. item.id \in Words /\ item.arguments \in Seq(Words)
  BY DEF Items
<1>2. Speaks(v, prior) /\ v.roleSent /\ Known(v, key)
  BY <1>1, ToolEnsured, Zenon
<1>3. u = v \/ u = WriteToolArguments(v, key, item.arguments)
  BY DEF EmitCall
<1> HIDE DEF v, key
<1>4. CASE u = v
  BY <1>2, <1>4
<1>5. CASE u = WriteToolArguments(v, key, item.arguments)
  BY <1>1, <1>2, <1>5, ArgumentsWritten, Zenon
<1> QED
  BY <1>3, <1>4, <1>5

\* A mark that some of a part has been written.
LEMMA Marked ==
    ASSUME NEW prior, NEW t, Speaks(t, prior), NEW key \in Int \X Int \X Words,
           NEW u, u = [t EXCEPT !.contentSeen = @ \cup {key}]
    PROVE  Speaks(u, prior) /\ u.roleSent = t.roleSent
<1> DEFINE x == t.contentSeen \cup {key}
<1>1. t \in Translator
  BY DEF Speaks
<1>2. x \in Seen
  <2>1. t.contentSeen \in Seen
    BY <1>1, TranslatorWith
  <2> QED
    BY <2>1, Zenon DEF Seen
<1>3. u = [t EXCEPT !.contentSeen = x]
  OBVIOUS
<1> HIDE DEF x
<1>4. u \in Translator
  <2>1. [t EXCEPT !.contentSeen = x] \in Translator
    BY ONLY <1>1, <1>2, TranslatorIs
  <2> QED
    BY <1>3, <2>1, Zenon
<1>5. /\ u.id = t.id /\ u.roleSent = t.roleSent /\ u.terminal = t.terminal /\ u.failed = t.failed
      /\ u.wrote = t.wrote /\ u.tools = t.tools
  BY <1>1, <1>3, TranslatorIs
<1>6. Speaks(u, prior)
  BY <1>4, <1>5, SpeaksStill, Zenon
<1> QED
  BY <1>5, <1>6, Zenon

\* A part of a message.
LEMMA PartEmitted ==
    ASSUME NEW prior \in Lines, NEW t, Speaks(t, prior), NEW item \in Items, NEW index \in Int,
           NEW i \in 1..Len(item.content), NEW u, u = EmitPart(t, item, index, i)
    PROVE  Speaks(u, prior)
<1> DEFINE part == item.content[i]
<1> DEFINE key == <<index, i - 1, part.kind>>
<1> DEFINE s == [t EXCEPT !.contentSeen = @ \cup {key}]
<1> DEFINE r == EnsureRole(s)
<1>1. part.kind \in Words /\ part.value \in Seq(Words) /\ i - 1 \in Int
  <2>1. item.content \in Seq(Parts)
    BY DEF Items
  <2>2. part \in Parts
    BY <2>1
  <2>3. i - 1 \in Int
    BY <2>1
  <2> HIDE DEF part
  <2> QED
    BY <2>2, <2>3 DEF Parts
<1>2. u = IF part.kind \notin {"text", "refusal"} \/ key \in t.contentSeen THEN t
          ELSE WriteChoice(r, part.kind, part.value, 0)
  BY DEF EmitPart
<1> HIDE DEF part
<1>3. key \in Int \X Int \X Words
  BY <1>1
<1> HIDE DEF key
<1>4. Speaks(s, prior)
  BY <1>3, Marked
<1> HIDE DEF s
<1>5. Speaks(r, prior) /\ r.roleSent
  BY <1>4, RoleEnsured
<1> HIDE DEF r
<1>6. CASE part.kind \notin {"text", "refusal"} \/ key \in t.contentSeen
  BY <1>2, <1>6
<1>7. CASE ~(part.kind \notin {"text", "refusal"} \/ key \in t.contentSeen)
  <2>1. u = WriteChoice(r, part.kind, part.value, 0)
    BY <1>2, <1>7
  <2>2. part.kind \in {"text", "refusal", "tool"} /\ 0 \in Int
    BY <1>7
  <2>3. Continues(u, r, prior)
    BY <1>1, <1>5, <2>1, <2>2, ChoiceWritten, Zenon
  <2> QED
    BY <2>3, Zenon DEF Continues
<1> QED
  BY <1>6, <1>7

\* writeDelta: a delta of a part.
LEMMA DeltaWritten ==
    ASSUME NEW prior \in Lines, NEW t, Speaks(t, prior), NEW e, e.index \in Int, e.part \in Int,
           e.delta \in Seq(Words), NEW kind \in {"text", "refusal"}, NEW u, u = WriteDelta(t, e, kind)
    PROVE  Speaks(u, prior)
<1> DEFINE key == <<e.index, e.part, kind>>
<1> DEFINE r == EnsureRole(t)
<1> DEFINE s == IF e.delta = << >> THEN r ELSE [r EXCEPT !.contentSeen = @ \cup {key}]
<1>1. kind \in Words
  BY StreamAssumption
<1>2. key \in Int \X Int \X Words
  BY <1>1
<1>3. u = WriteChoice(s, kind, e.delta, 0)
  BY DEF WriteDelta
<1>4. Speaks(r, prior) /\ r.roleSent
  BY RoleEnsured
<1> HIDE DEF r, key
<1>5. Speaks(s, prior) /\ s.roleSent
  <2>1. CASE e.delta = << >>
    BY <1>4, <2>1
  <2>2. CASE e.delta # << >>
    <3>1. s = [r EXCEPT !.contentSeen = @ \cup {key}]
      BY <2>2
    <3> HIDE DEF s
    <3>2. Speaks(s, prior) /\ s.roleSent = r.roleSent
      BY <1>2, <1>4, <3>1, Marked
    <3> QED
      BY <1>4, <3>2, Zenon
  <2> QED
    BY <2>1, <2>2
<1> HIDE DEF s
<1>6. kind \in {"text", "refusal", "tool"} /\ 0 \in Int
  OBVIOUS
<1>7. Continues(u, s, prior)
  BY <1>3, <1>5, <1>6, ChoiceWritten, Zenon
<1> QED
  BY <1>7, Zenon DEF Continues

\* writeArguments: arguments of a call, which is announced if it has not been.
LEMMA ArgumentsDelta ==
    ASSUME NEW prior \in Lines, NEW t, Speaks(t, prior), NEW e, e.item \in Words, e.index \in Int,
           e.delta \in Seq(Words), NEW u, u = WriteArguments(t, e)
    PROVE  Speaks(u, prior)
<1> DEFINE key == ToolKey(e.item, e.index)
<1> DEFINE item == [id |-> e.item, arguments |-> << >>]
<1> DEFINE v == IF Known(t, key) THEN t ELSE EnsureTool(t, item, e.index)
<1>1. u = WriteToolArguments(v, key, e.delta)
  BY DEF WriteArguments
<1>2. item.id = e.item /\ item.id \in Words /\ item.arguments \in Seq(Words)
  OBVIOUS
<1> HIDE DEF item
<1>3. Speaks(v, prior) /\ v.roleSent /\ Known(v, key)
  <2>1. CASE Known(t, key)
    <3>1. v = t
      BY <2>1
    <3>2. t.tools # << >>
      BY <2>1 DEF Known
    <3>3. t.roleSent
      BY <3>2 DEF Speaks
    <3> QED
      BY <2>1, <3>1, <3>3
  <2>2. CASE ~Known(t, key)
    <3>1. v = EnsureTool(t, item, e.index)
      BY <2>2
    <3> HIDE DEF v, key
    <3>2. Speaks(v, prior) /\ v.roleSent /\ Known(v, ToolKey(item.id, e.index))
      BY <1>2, <3>1, ToolEnsured, Zenon
    <3> QED
      BY <1>2, <3>2, Zenon DEF key
  <2> QED
    BY <2>1, <2>2
<1> HIDE DEF v, key
<1> QED
  BY <1>1, <1>3, ArgumentsWritten, Zenon

Speaking(prior) == {t \in Translator : Speaks(t, prior)}

\* emitMessageFallback: the parts of a message in turn.
LEMMA MessageEmitted ==
    ASSUME NEW prior \in Lines, NEW t, Speaks(t, prior), NEW item \in Items, NEW index \in Int
    PROVE  Speaks(EmitMessageFallback(t, item, index), prior)
<1> DEFINE n == Len(item.content)
<1> DEFINE S == Speaking(prior)
<1> DEFINE Fix(h) == h = [i \in 0..n |-> IF i = 0 THEN t ELSE EmitPart(h[i - 1], item, index, i)]
<1> DEFINE g == [i \in 1..n |-> [x \in S |-> EmitPart(x, item, index, i)]]
<1>1. n \in Nat /\ t \in S
  BY DEF Items, Speaking, Speaks
<1>2. ASSUME NEW i \in 1..n, NEW x \in S PROVE EmitPart(x, item, index, i) \in S
  <2>1. Speaks(x, prior)
    BY DEF Speaking
  <2>2. Speaks(EmitPart(x, item, index, i), prior)
    BY <2>1, PartEmitted
  <2> QED
    BY <2>2 DEF Speaking, Speaks
<1> HIDE DEF S, n
<1>3. g \in Loops(n, S)
  BY <1>2 DEF Loops
<1>4. PICK f : Run(f, n, S, t, g)
  <2> HIDE DEF g
  <2> QED
    BY <1>1, <1>3, LoopRuns
<1>5. Fix(f)
  <2>1. ASSUME NEW i \in 0..n PROVE f[i] = IF i = 0 THEN t ELSE EmitPart(f[i - 1], item, index, i)
    <3>1. CASE i = 0
      BY <1>4, <3>1 DEF Run
    <3>2. CASE i # 0
      <4>1. i \in 1..n /\ i - 1 \in 0..n
        BY <1>1, <3>2
      <4>2. f[i - 1] \in S /\ f[i] = g[i][f[i - 1]]
        BY <1>4, <4>1 DEF Run
      <4> QED
        BY <3>2, <4>1, <4>2
    <3> QED
      BY <3>1, <3>2
  <2>2. f = [i \in 0..n |-> f[i]]
    BY <1>4 DEF Run
  <2> DEFINE e == [i \in 0..n |-> IF i = 0 THEN t ELSE EmitPart(f[i - 1], item, index, i)]
  <2>3. e = [i \in 0..n |-> e[i]]
    OBVIOUS
  <2>4. ASSUME NEW i \in 0..n PROVE f[i] = e[i]
    BY <2>1
  <2>5. f = e
    <3> HIDE DEF e, g
    <3> QED
      BY <2>2, <2>3, <2>4
  <2> QED
    BY <2>5
<1> DEFINE r == CHOOSE h : Fix(h)
<1>6. Fix(r)
  <2> HIDE DEF Fix
  <2> QED
    BY <1>5
<1>7. EmitMessageFallback(t, item, index) = r[n]
  BY DEF EmitMessageFallback, n
<1> HIDE DEF r
<1>8. r[0] = t /\ \A i \in 1..n : r[i] = EmitPart(r[i - 1], item, index, i)
  BY <1>1, <1>6
<1> HIDE DEF Fix
<1> DEFINE T == {i \in 0..n : r[i] \in S}
<1>9. 0 \in T
  BY <1>1, <1>8
<1>10. ASSUME NEW i \in 1..n, i - 1 \in T PROVE i \in T
  BY <1>1, <1>2, <1>8, <1>10
<1>11. \A i \in 0..n : i \in T
  <2> HIDE DEF T
  <2> QED
    BY <1>1, <1>9, <1>10, UpTo
<1>12. r[n] \in S
  BY <1>1, <1>11
<1> QED
  BY <1>7, <1>12 DEF S, Speaking

\* An item that is complete.
LEMMA ItemEmitted ==
    ASSUME NEW prior \in Lines, NEW t, Speaks(t, prior), NEW item \in Items, NEW index \in Int
    PROVE  Speaks(EmitItem(t, item, index), prior)
<1>1. Speaks(EmitMessageFallback(t, item, index), prior)
  BY MessageEmitted
<1>2. Speaks(EmitCall(t, item, index), prior)
  BY CallEmitted
<1>3. \/ EmitItem(t, item, index) = EmitMessageFallback(t, item, index)
      \/ EmitItem(t, item, index) = EmitCall(t, item, index)
      \/ EmitItem(t, item, index) = t
  BY DEF EmitItem
<1> QED
  BY <1>1, <1>2, <1>3

\* emitResponseOutputFallback: the items of the final response in turn.
LEMMA OutputEmitted ==
    ASSUME NEW prior \in Lines, NEW t, Speaks(t, prior), NEW response \in Responses
    PROVE  Speaks(EmitResponseOutputFallback(t, response), prior)
<1> DEFINE n == Len(response.output)
<1> DEFINE S == Speaking(prior)
<1> DEFINE Fix(h) == h = [i \in 0..n |-> IF i = 0 THEN t ELSE EmitItem(h[i - 1], response.output[i], i - 1)]
<1> DEFINE g == [i \in 1..n |-> [x \in S |-> EmitItem(x, response.output[i], i - 1)]]
<1>1. response.output \in Seq(Items)
  BY DEF Responses
<1>2. n \in Nat /\ t \in S
  BY <1>1 DEF Speaking, Speaks
<1>3. ASSUME NEW i \in 1..n, NEW x \in S PROVE EmitItem(x, response.output[i], i - 1) \in S
  <2>1. Speaks(x, prior)
    BY DEF Speaking
  <2>2. response.output[i] \in Items /\ i - 1 \in Int
    BY <1>1, <1>2
  <2>3. Speaks(EmitItem(x, response.output[i], i - 1), prior)
    BY <2>1, <2>2, ItemEmitted
  <2> QED
    BY <2>3 DEF Speaking, Speaks
<1> HIDE DEF S, n
<1>4. g \in Loops(n, S)
  BY <1>3 DEF Loops
<1>5. PICK f : Run(f, n, S, t, g)
  <2> HIDE DEF g
  <2> QED
    BY <1>2, <1>4, LoopRuns
<1>6. Fix(f)
  <2>1. ASSUME NEW i \in 0..n PROVE f[i] = IF i = 0 THEN t ELSE EmitItem(f[i - 1], response.output[i], i - 1)
    <3>1. CASE i = 0
      BY <1>5, <3>1 DEF Run
    <3>2. CASE i # 0
      <4>1. i \in 1..n /\ i - 1 \in 0..n
        BY <1>2, <3>2
      <4>2. f[i - 1] \in S /\ f[i] = g[i][f[i - 1]]
        BY <1>5, <4>1 DEF Run
      <4> QED
        BY <3>2, <4>1, <4>2
    <3> QED
      BY <3>1, <3>2
  <2>2. f = [i \in 0..n |-> f[i]]
    BY <1>5 DEF Run
  <2> DEFINE e == [i \in 0..n |-> IF i = 0 THEN t ELSE EmitItem(f[i - 1], response.output[i], i - 1)]
  <2>3. e = [i \in 0..n |-> e[i]]
    OBVIOUS
  <2>4. ASSUME NEW i \in 0..n PROVE f[i] = e[i]
    BY <2>1
  <2>5. f = e
    <3> HIDE DEF e, g
    <3> QED
      BY <2>2, <2>3, <2>4
  <2> QED
    BY <2>5
<1> DEFINE r == CHOOSE h : Fix(h)
<1>7. Fix(r)
  <2> HIDE DEF Fix
  <2> QED
    BY <1>6
<1>8. EmitResponseOutputFallback(t, response) = r[n]
  BY DEF EmitResponseOutputFallback, n
<1> HIDE DEF r
<1>9. r[0] = t /\ \A i \in 1..n : r[i] = EmitItem(r[i - 1], response.output[i], i - 1)
  BY <1>2, <1>7
<1> HIDE DEF Fix
<1> DEFINE T == {i \in 0..n : r[i] \in S}
<1>10. 0 \in T
  BY <1>2, <1>9
<1>11. ASSUME NEW i \in 1..n, i - 1 \in T PROVE i \in T
  BY <1>2, <1>3, <1>9, <1>11
<1>12. \A i \in 0..n : i \in T
  <2> HIDE DEF T
  <2> QED
    BY <1>2, <1>10, <1>11, UpTo
<1>13. r[n] \in S
  BY <1>2, <1>12
<1> QED
  BY <1>8, <1>13 DEF S, Speaking

\* A translator that has ended its stream, with an error only if it has failed.
Ends(t, prior) ==
    /\ t \in Translator /\ t.terminal /\ Closed(prior \o t.wrote)
    /\ t.failed \/ None(prior \o t.wrote, {"error"})

\* A stream x that has told how it ended, but for [DONE].
Ending(x) ==
    /\ Proper(x) /\ None(x, {"done"}) /\ Len(x) > 0
    /\ \E i \in 1..Len(x) : x[i].field \in {"finish", "error"}

\* A chunk that tells how it ended, or one after it.
LEMMA EndingMore ==
    ASSUME NEW w, Proper(w), None(w, {"done"}), NEW c, Follows(c, w), c.field # "done",
           c.field \in {"finish", "error"} \/ Ending(w)
    PROVE  Ending(Append(w, c)) /\ Append(w, c)[1] = (IF w = << >> THEN c ELSE w[1])
<1> DEFINE v == Append(w, c)
<1> DEFINE n == Len(w)
<1>1. w \in Lines /\ c \in Chunks
  BY DEF Proper, Follows
<1>2. v \in Lines /\ Len(v) = n + 1 /\ n \in Nat /\ v[n + 1] = c /\ \A i \in 1..n : v[i] = w[i]
  BY <1>1, OneMore DEF Lines
<1>3. Proper(v)
  BY ProperMore
<1>4. None(v, {"done"})
  BY <1>1, NoneMore
<1>5. w = << >> <=> n = 0
  BY <1>1 DEF Lines
<1> HIDE DEF v, n
<1>6. \E i \in 1..Len(v) : v[i].field \in {"finish", "error"}
  <2>1. CASE c.field \in {"finish", "error"}
    <3>1. n + 1 \in 1..Len(v)
      BY <1>2
    <3> QED
      BY <1>2, <2>1, <3>1
  <2>2. CASE Ending(w)
    <3>1. PICK i \in 1..n : w[i].field \in {"finish", "error"}
      BY <2>2 DEF Ending, n
    <3>2. i \in 1..Len(v) /\ v[i] = w[i]
      BY <1>2
    <3> QED
      BY <3>1, <3>2
  <2> QED
    BY <2>1, <2>2
<1>7. v[1] = IF w = << >> THEN c ELSE w[1]
  BY <1>2, <1>5
<1>8. Ending(v)
  BY <1>2, <1>3, <1>4, <1>6 DEF Ending
<1> QED
  BY <1>7, <1>8 DEF v

\* A chunk that is not of the completion.
LEMMA OtherChunk ==
    ASSUME NEW field \in Words
    PROVE  Chunk("", field, << >>, 0) \in Chunks /\ Chunk("", field, << >>, 0).field = field
<1>1. "" \in Words
  BY StreamAssumption
<1>2. PICK e \in Words : e = ""
  BY <1>1, Zenon
<1>3. << >> \in Seq(Words)
  OBVIOUS
<1>4. Chunk(e, field, << >>, 0) \in Chunks /\ Chunk(e, field, << >>, 0).field = field
  BY <1>3 DEF Chunk, Chunks
<1> QED
  BY <1>2, <1>4, Zenon

DoneChunk == Chunk("", "done", << >>, 0)

\* [DONE] closes it.
LEMMA DoneCloses ==
    ASSUME NEW x, Ending(x)
    PROVE  /\ DoneChunk \in Chunks /\ Closed(Append(x, DoneChunk))
           /\ None(x, {"error"}) => None(Append(x, DoneChunk), {"error"})
<1> DEFINE v == Append(x, DoneChunk)
<1>1. "done" \in Words
  BY StreamAssumption
<1>2. DoneChunk \in Chunks /\ DoneChunk.field = "done"
  BY <1>1, OtherChunk, Zenon DEF DoneChunk
<1>3. Proper(x) /\ None(x, {"done"}) /\ x \in Lines
  BY DEF Ending, Proper
<1>4. Follows(DoneChunk, x)
  BY <1>2 DEF Follows
<1>5. Proper(v)
  BY <1>3, <1>4, ProperMore
<1>6. Len(v) = Len(x) + 1 /\ Len(x) \in Nat /\ v[Len(x) + 1] = DoneChunk /\ \A i \in 1..Len(x) : v[i] = x[i]
  BY <1>2, <1>3, OneMore DEF Lines
<1>7. PICK i \in 1..Len(x) : x[i].field \in {"finish", "error"}
  BY DEF Ending
<1> HIDE DEF v
<1>8. i \in 1..Len(v) /\ v[i] = x[i] /\ Len(v) > 0 /\ v[Len(v)] = DoneChunk
  BY <1>6
<1>9. Closed(v)
  BY <1>2, <1>5, <1>7, <1>8 DEF Closed
<1>10. None(x, {"error"}) => None(v, {"error"})
  <2>1. DoneChunk.field \notin {"error"}
    BY <1>2
  <2> QED
    BY <1>2, <1>3, <2>1, NoneMore DEF v
<1> QED
  BY <1>2, <1>9, <1>10 DEF v

\* writeDone ends the stream.
LEMMA DoneWritten ==
    ASSUME NEW prior \in Lines, NEW v \in Translator, v.terminal, Ending(prior \o v.wrote),
           v.failed \/ None(prior \o v.wrote, {"error"}), NEW u, u = WriteDone(v)
    PROVE  Ends(u, prior) /\ u.failed = v.failed
<1>1. /\ DoneChunk \in Chunks /\ Closed(Append(prior \o v.wrote, DoneChunk))
      /\ None(prior \o v.wrote, {"error"}) => None(Append(prior \o v.wrote, DoneChunk), {"error"})
  BY DoneCloses
<1>2. u = WriteObject(v, DoneChunk)
  BY DEF WriteDone, DoneChunk
<1>3. Adds(u, v, prior, DoneChunk)
  BY <1>1, <1>2, WriteIs, Zenon
<1>4. /\ u \in Translator /\ prior \o u.wrote = Append(prior \o v.wrote, DoneChunk)
      /\ u.terminal = v.terminal /\ u.failed = v.failed
  BY <1>3, Zenon DEF Adds
<1> QED
  BY <1>1, <1>4, Zenon DEF Ends

\* fail: an error and the end.
LEMMA FailEnds ==
    ASSUME NEW prior \in Lines, NEW t, Speaks(t, prior), NEW u, u = Fail(t)
    PROVE  Ends(u, prior) /\ u.failed
<1> DEFINE s == [t EXCEPT !.terminal = TRUE, !.failed = TRUE]
<1> DEFINE c == Chunk("", "error", << >>, 0)
<1> DEFINE v == WriteObject(s, c)
<1> DEFINE w == prior \o t.wrote
<1>1. t \in Translator /\ ~t.terminal /\ Proper(w) /\ None(w, {"finish", "usage", "error", "done"})
  BY DEF Speaks, Opened
<1>2. u = WriteDone(v)
  BY <1>1 DEF Fail
<1>3. s \in Translator
  BY <1>1, TranslatorIs
<1>4. s.wrote = t.wrote /\ s.terminal = TRUE /\ s.failed = TRUE
  BY <1>1, TranslatorIs
<1>5. c \in Chunks /\ c.field = "error"
  <2>1. "error" \in Words
    BY StreamAssumption
  <2> QED
    BY <2>1, OtherChunk, Zenon
<1> HIDE DEF s, c
<1>6. Adds(v, s, prior, c)
  BY <1>3, <1>5, WriteIs, Zenon
<1> HIDE DEF v
<1>7. v \in Translator /\ v.terminal = TRUE /\ v.failed = TRUE /\ prior \o v.wrote = Append(w, c)
  BY <1>4, <1>6, Zenon DEF Adds
<1> HIDE DEF w
<1>8. Follows(c, w) /\ None(w, {"done"})
  BY <1>1, <1>5 DEF Follows, None
<1>9. Ending(Append(w, c))
  BY <1>1, <1>5, <1>8, EndingMore
<1>10. v.terminal /\ v.failed /\ Ending(prior \o v.wrote)
  BY <1>7, <1>9, Zenon
<1>11. Ends(u, prior) /\ u.failed = v.failed
  BY <1>2, <1>7, <1>10, DoneWritten, Zenon
<1> QED
  BY <1>7, <1>11, Zenon

\* finish: what has not been told, how it ended, the usage if it was asked for, and the end.
LEMMA FinishEnds ==
    ASSUME NEW prior \in Lines, NEW t, Speaks(t, prior), NEW response \in Responses,
           NEW z, z = Finish(t, response)
    PROVE  Ends(z, prior)
<1> DEFINE a == CaptureResponse(t, response)
<1> DEFINE b == EmitResponseOutputFallback(a, response)
<1> DEFINE u == EnsureRole(b)
<1> DEFINE reason == ChatFinishReason(response, u.tools # << >>)
<1> DEFINE v == WriteChoice(u, "finish", <<reason>>, 0)
<1> DEFINE c == Chunk(v.id, "finish", <<reason>>, 0)
<1> DEFINE d == Chunk(v.id, "usage", << >>, v.usage)
<1> DEFINE s == IF IncludeUsage /\ v.usage > 0 THEN WriteObject(v, d) ELSE v
<1> DEFINE w == prior \o u.wrote
<1>1. ~t.terminal
  BY DEF Speaks
<1>2. \/ z = Fail(t)
      \/ z = WriteDone([s EXCEPT !.terminal = TRUE])
  BY <1>1, Zenon DEF Finish
<1>3. Speaks(u, prior) /\ u.roleSent
  <2>1. Speaks(a, prior)
    BY Captured
  <2> HIDE DEF a
  <2>2. Speaks(b, prior)
    BY <2>1, OutputEmitted
  <2> HIDE DEF b
  <2> QED
    BY <2>2, RoleEnsured
<1>4. <<reason>> \in Seq(Words) /\ "finish" \in Words /\ "usage" \in Words
  <2>1. {"length", "tool_calls", "stop", "finish", "usage"} \subseteq Words
    BY StreamAssumption
  <2>2. reason \in Words
    BY <2>1 DEF ChatFinishReason
  <2> HIDE DEF reason
  <2> QED
    BY <2>1, <2>2
<1> HIDE DEF u, reason
<1>5. /\ u \in Translator /\ u.id # "" /\ Proper(w) /\ Len(w) > 0 /\ w[1].id = u.id
      /\ None(w, {"finish", "usage", "error", "done"})
  BY <1>3, Zenon DEF Speaks, Opened
<1>6. v.id # "" /\ (u.id # "" => v.id = u.id) /\ c \in Chunks /\ Adds(v, u, prior, c)
  <2>1. 0 \in Int
    OBVIOUS
  <2> QED
    BY <1>4, <1>5, <2>1, ChoiceIs, Zenon
<1>7. c.id = v.id /\ c.field = "finish" /\ d.id = v.id /\ d.field = "usage"
  BY DEF Chunk
<1> HIDE DEF v, c
<1>8. v \in Translator /\ v.id = u.id /\ prior \o v.wrote = Append(w, c)
  BY <1>5, <1>6, Zenon DEF Adds
<1> DEFINE x == Append(w, c)
<1> HIDE DEF w
<1>9. Ending(x) /\ x[1] = w[1]
  <2>1. w # << >>
    <3>1. Len(w) > 0
      BY <1>5, Zenon
    <3> QED
      BY ONLY <3>1
  <2>2. Follows(c, w) /\ None(w, {"done"})
    BY <1>5, <1>6, <1>7, <1>8, <2>1 DEF Follows, None
  <2> QED
    BY <1>5, <1>7, <2>1, <2>2, EndingMore
<1>10. None(x, {"error"})
  <2>1. None(w, {"error"}) /\ w \in Lines
    BY <1>5 DEF None, Proper
  <2>2. c.field \notin {"error"}
    BY <1>7
  <2> QED
    BY <1>6, <2>1, <2>2, NoneMore
<1> HIDE DEF x
<1>11. s \in Translator /\ Ending(prior \o s.wrote) /\ None(prior \o s.wrote, {"error"})
  <2>1. CASE ~(IncludeUsage /\ v.usage > 0)
    BY <1>8, <1>9, <1>10, <2>1, Zenon DEF x
  <2>2. CASE IncludeUsage /\ v.usage > 0
    <3>1. s = WriteObject(v, d)
      BY <2>2
    <3>2. d \in Chunks
      <4>1. v.id \in Words /\ v.usage \in Int
        BY <1>8, TranslatorWith
      <4>2. << >> \in Seq(Words)
        OBVIOUS
      <4> QED
        BY <1>4, <4>1, <4>2 DEF Chunk, Chunks
    <3> HIDE DEF s, d
    <3>3. Adds(s, v, prior, d)
      BY <1>8, <3>1, <3>2, WriteIs, Zenon
    <3>4. s \in Translator /\ prior \o s.wrote = Append(x, d)
      BY <1>8, <3>3, Zenon DEF Adds, x
    <3>5. x[1].id = v.id
      BY <1>5, <1>8, <1>9, Zenon
    <3>6. Proper(x) /\ None(x, {"done"}) /\ x # << >>
      <4>1. Proper(x) /\ None(x, {"done"}) /\ Len(x) > 0
        BY <1>9 DEF Ending
      <4>2. x # << >>
        BY ONLY <4>1
      <4> QED
        BY <4>1, <4>2
    <3>7. Follows(d, x)
      BY <1>7, <3>2, <3>5, <3>6 DEF Follows
    <3>8. Ending(Append(x, d))
      BY <1>7, <1>9, <3>6, <3>7, EndingMore
    <3>9. None(Append(x, d), {"error"})
      <4>1. d.field \notin {"error"} /\ x \in Lines
        BY <1>7, <3>6 DEF Proper
      <4> QED
        BY <1>10, <3>2, <4>1, NoneMore
    <3> QED
      BY <3>4, <3>8, <3>9, Zenon
  <2> QED
    BY <2>1, <2>2
<1> HIDE DEF s
<1>12. CASE z = Fail(t)
  BY <1>12, FailEnds
<1>13. CASE z = WriteDone([s EXCEPT !.terminal = TRUE])
  <2> DEFINE y == [s EXCEPT !.terminal = TRUE]
  <2>1. y \in Translator
    BY <1>11, TranslatorWith
  <2>2. y.terminal = TRUE /\ y.wrote = s.wrote
    BY <1>11, TranslatorIs
  <2>3. z = WriteDone(y)
    BY <1>13
  <2> HIDE DEF y
  <2>4. y.terminal /\ Ending(prior \o y.wrote) /\ None(prior \o y.wrote, {"error"})
    BY <1>11, <2>2, Zenon
  <2> QED
    BY <2>1, <2>3, <2>4, DoneWritten, Zenon
<1> QED
  BY <1>2, <1>12, <1>13

\* consume: an event is translated, or ends the stream.
LEMMA ConsumeIs ==
    ASSUME NEW prior \in Lines, NEW t, Speaks(t, prior), NEW e, WellTyped(e)
    PROVE  Speaks(Consume(t, e), prior) \/ Ends(Consume(t, e), prior)
<1> DEFINE u == Consume(t, e)
<1>1. CASE e.type \in {"response.created", "response.in_progress"}
  <2>1. e.response \in Responses
    BY <1>1 DEF WellTyped
  <2>2. u = EnsureRole(CaptureResponse(t, e.response))
    BY <1>1 DEF Consume
  <2>3. Speaks(CaptureResponse(t, e.response), prior)
    BY <2>1, Captured
  <2> HIDE DEF u
  <2>4. Speaks(u, prior)
    BY <2>2, <2>3, RoleEnsured
  <2> QED
    BY <2>4 DEF u
<1>2. CASE e.type = "response.output_item.added"
  <2>1. e.item \in Items /\ e.index \in Int
    BY <1>2 DEF WellTyped
  <2>2. e.item.id \in Words /\ e.item.arguments \in Seq(Words)
    BY <2>1 DEF Items
  <2>3. u = EnsureTool(t, e.item, e.index) \/ u = EnsureRole(t) \/ u = t
    BY <1>2 DEF Consume
  <2>4. Speaks(EnsureTool(t, e.item, e.index), prior)
    BY <2>1, <2>2, ToolEnsured
  <2>5. Speaks(EnsureRole(t), prior)
    BY RoleEnsured
  <2> HIDE DEF u
  <2>6. Speaks(u, prior)
    BY <2>3, <2>4, <2>5
  <2> QED
    BY <2>6 DEF u
<1>3. CASE e.type = "response.output_item.done"
  <2>1. e.item \in Items /\ e.index \in Int
    BY <1>3 DEF WellTyped
  <2>2. u = EmitItem(t, e.item, e.index)
    BY <1>3 DEF Consume
  <2>3. Speaks(EmitItem(t, e.item, e.index), prior)
    BY <2>1, ItemEmitted
  <2> QED
    BY <2>2, <2>3
<1>4. CASE e.type \in {"response.output_text.delta", "response.refusal.delta"}
  <2>1. e.index \in Int /\ e.part \in Int /\ e.delta \in Seq(Words)
    BY <1>4 DEF WellTyped
  <2>2. u = WriteDelta(t, e, "text") \/ u = WriteDelta(t, e, "refusal")
    BY <1>4 DEF Consume
  <2>3. Speaks(WriteDelta(t, e, "text"), prior)
    BY <2>1, DeltaWritten
  <2>4. Speaks(WriteDelta(t, e, "refusal"), prior)
    BY <2>1, DeltaWritten
  <2> QED
    BY <2>2, <2>3, <2>4
<1>5. CASE e.type = "response.function_call_arguments.delta"
  <2>1. e.item \in Words /\ e.index \in Int /\ e.delta \in Seq(Words)
    BY <1>5 DEF WellTyped
  <2>2. u = WriteArguments(t, e)
    BY <1>5 DEF Consume
  <2>3. Speaks(WriteArguments(t, e), prior)
    BY <2>1, ArgumentsDelta
  <2> QED
    BY <2>2, <2>3
<1>6. CASE e.type \in {"response.completed", "response.done", "response.incomplete"}
  <2>1. e.response \in Responses
    BY <1>6 DEF WellTyped, Terminal
  <2>2. u = Finish(t, e.response)
    BY <1>6 DEF Consume
  <2>3. Ends(Finish(t, e.response), prior)
    BY <2>1, FinishEnds
  <2> QED
    BY <2>2, <2>3
<1>7. CASE e.type = "response.failed"
  <2>1. e.response \in Responses
    BY <1>7 DEF WellTyped, Terminal
  <2>2. u = Fail(CaptureResponse(t, e.response))
    BY <1>7 DEF Consume
  <2>3. Speaks(CaptureResponse(t, e.response), prior)
    BY <2>1, Captured
  <2>4. Ends(Fail(CaptureResponse(t, e.response)), prior)
    BY <2>3, FailEnds
  <2> QED
    BY <2>2, <2>4
<1>8. CASE e.type = "error"
  <2>1. u = Fail(t)
    BY <1>8 DEF Consume
  <2>2. Ends(Fail(t), prior)
    BY FailEnds
  <2> QED
    BY <2>1, <2>2
<1>9. CASE e.type \notin {"response.created", "response.in_progress", "response.output_item.added",
                          "response.output_item.done", "response.output_text.delta",
                          "response.refusal.delta", "response.function_call_arguments.delta",
                          "response.completed", "response.done", "response.incomplete",
                          "response.failed", "error"}
  <2>1. u = t
    BY <1>9 DEF Consume
  <2> QED
    BY <2>1
<1> QED
  BY <1>1, <1>2, <1>3, <1>4, <1>5, <1>6, <1>7, <1>8, <1>9

-----------------------------------------------------------------------------
(* The other consumers: types. *)

Outputs == Seq(Items)

Retained == Seq([index : Int, item : Items])

Shown == Seq(Partials)

\* The fields of the aggregator.
LEMMA AggregatorIs ==
    Aggregator = [final : Responses, items : Retained, retained : Nat, err : Failures, complete : BOOLEAN]
BY DEF Aggregator, Retained

\* And those of the reader of an image.
LEMMA ImageReaderIs ==
    ImageReader = [events : Nat, doneItems : Outputs, completed : Responses, err : Failures,
                   complete : BOOLEAN, wrote : Shown]
BY DEF ImageReader, Outputs, Shown

\* The response of an event that has none.
LEMMA MissingType == Missing \in Responses
<1>1. "" \in Words
  BY StreamAssumption
<1>2. PICK e \in Words : e = ""
  BY <1>1, Zenon
<1>3. "missing" \in Words
  BY StreamAssumption
<1>4. << >> \in Outputs
  BY DEF Outputs
<1>5. [id |-> e, status |-> "missing", output |-> << >>, usage |-> 0] \in Responses
  BY <1>3, <1>4 DEF Responses, Outputs
<1> QED
  BY <1>2, <1>5, Zenon DEF Missing

\* No error yet, as a member of a set.
LEMMA NoFailure == \E e \in Failures : e = ""
BY Zenon DEF Failures

\* A consumer at the beginning.
LEMMA NewConsumerType ==
    ASSUME NEW mode \in Modes
    PROVE  NewConsumer(mode) \in Consumers(mode)
<1>1. PICK e \in Failures : e = ""
  BY NoFailure
<1>2. NewTracker \in Tracker
  <2>1. [usage |-> 0, terminal |-> FALSE, err |-> e, complete |-> FALSE] \in Tracker
    BY DEF Tracker
  <2> QED
    BY <1>1, <2>1, Zenon DEF NewTracker
<1>3. NewAggregate \in Aggregator
  <2>1. << >> \in Retained
    BY DEF Retained
  <2> DEFINE m == Missing
  <2>2. m \in Responses
    BY MissingType
  <2> HIDE DEF m
  <2>3. [final |-> m, items |-> << >>, retained |-> 0, err |-> e, complete |-> FALSE] \in Aggregator
    BY <2>1, <2>2, AggregatorIs
  <2> QED
    BY <1>1, <2>3, Zenon DEF NewAggregate, m
<1>4. NewImage \in ImageReader
  <2>1. << >> \in Outputs /\ << >> \in Shown
    BY DEF Outputs, Shown
  <2> DEFINE m == Missing
  <2>2. m \in Responses
    BY MissingType
  <2> HIDE DEF m
  <2>3. [events |-> 0, doneItems |-> << >>, completed |-> m, err |-> e, complete |-> FALSE,
         wrote |-> << >>] \in ImageReader
    BY <2>1, <2>2, ImageReaderIs
  <2> QED
    BY <1>1, <2>3, Zenon DEF NewImage, m
<1>5. NewTranslator \in Translator
  <2>1. "" \in Words
    BY StreamAssumption
  <2>2. PICK id \in Words : id = ""
    BY <2>1, Zenon
  <2>3. << >> \in Tools /\ {} \in Seen /\ << >> \in Lines
    BY DEF Tools, Seen, Lines
  <2>4. [id |-> id, roleSent |-> FALSE, terminal |-> FALSE, failed |-> FALSE, usage |-> 0,
         tools |-> << >>, contentSeen |-> {}, wrote |-> << >>] \in Translator
    BY <2>3, TranslatorIs
  <2> QED
    BY <2>2, <2>4, Zenon DEF NewTranslator
<1> QED
  BY <1>2, <1>3, <1>4, <1>5 DEF NewConsumer, Consumers, Modes

\* sseUsageTracker.
LEMMA TrackType ==
    ASSUME NEW t \in Tracker, NEW e, WellTyped(e)
    PROVE  Track(t, e) \in Tracker
<1> DEFINE usage == IF "response" \in DOMAIN e /\ e.response.usage > 0 THEN e.response.usage ELSE t.usage
<1> DEFINE u == [t EXCEPT !.usage = usage]
<1>1. usage \in Int
  <2>1. "response" \in DOMAIN e => e.response.usage \in Int
    BY DEF WellTyped, Responses
  <2>2. t.usage \in Int
    BY DEF Tracker
  <2> QED
    BY <2>1, <2>2
<1>2. \/ Track(t, e) = [u EXCEPT !.terminal = TRUE]
      \/ Track(t, e) = [u EXCEPT !.terminal = TRUE, !.err = "incomplete"]
      \/ Track(t, e) = [u EXCEPT !.terminal = TRUE, !.err = "failed"]
      \/ Track(t, e) = u
  BY DEF Track
<1> HIDE DEF usage
<1>3. u \in Tracker
  BY <1>1 DEF Tracker
<1> HIDE DEF u
<1>4. "incomplete" \in Failures /\ "failed" \in Failures
  BY DEF Failures
<1>5. [u EXCEPT !.terminal = TRUE] \in Tracker
  BY <1>3 DEF Tracker
<1>6. [u EXCEPT !.terminal = TRUE, !.err = "incomplete"] \in Tracker
  BY <1>3, <1>4 DEF Tracker
<1>7. [u EXCEPT !.terminal = TRUE, !.err = "failed"] \in Tracker
  BY <1>3, <1>4 DEF Tracker
<1> QED
  BY <1>2, <1>3, <1>5, <1>6, <1>7

\* An error that is kept.
LEMMA FailingType ==
    ASSUME NEW why \in Failures
    PROVE  /\ \A c \in Tracker : Failing(c, why) \in Tracker
           /\ \A c \in Aggregator : Failing(c, why) \in Aggregator
           /\ \A c \in ImageReader : Failing(c, why) \in ImageReader /\ Failing(c, why).wrote = c.wrote
<1>1. ASSUME NEW c \in Tracker PROVE Failing(c, why) \in Tracker
  BY DEF Tracker, Failing
<1>2. ASSUME NEW c \in Aggregator PROVE Failing(c, why) \in Aggregator
  BY AggregatorIs DEF Failing
<1>3. ASSUME NEW c \in ImageReader PROVE Failing(c, why) \in ImageReader /\ Failing(c, why).wrote = c.wrote
  BY ImageReaderIs DEF Failing
<1> QED
  BY <1>1, <1>2, <1>3

\* aggregateResponsesSSE.
LEMMA AggregateType ==
    ASSUME NEW a \in Aggregator, NEW e, WellTyped(e), NEW size \in Nat
    PROVE  Aggregate(a, e, size) \in Aggregator
<1>1. {"retained", "missing", "event"} \subseteq Failures
  BY DEF Failures
<1>2. a.items \in Retained /\ a.retained \in Nat
  BY AggregatorIs
<1>3. CASE e.type = "response.output_item.done"
  <2> DEFINE x == Append(a.items, [index |-> e.index, item |-> e.item])
  <2> DEFINE y == a.retained + size
  <2>1. e.item \in Items /\ e.index \in Int
    BY <1>3 DEF WellTyped
  <2>2. x \in Retained
    BY <1>2, <2>1 DEF Retained
  <2>3. y \in Nat
    BY <1>2
  <2>4. \/ Aggregate(a, e, size) = Failing(a, "retained")
        \/ Aggregate(a, e, size) = [a EXCEPT !.retained = y, !.items = x]
    <3>1. Aggregate(a, e, size) = IF a.retained + size > MaxRetained THEN Failing(a, "retained")
                                  ELSE [a EXCEPT !.retained = y, !.items = x]
      BY <1>3 DEF Aggregate, Terminal
    <3> HIDE DEF x, y
    <3> QED
      BY <3>1, Zenon
  <2> HIDE DEF x, y
  <2>5. [a EXCEPT !.retained = y, !.items = x] \in Aggregator
    BY <2>2, <2>3, AggregatorIs
  <2>6. Failing(a, "retained") \in Aggregator
    BY <1>1, FailingType
  <2> QED
    BY <2>4, <2>5, <2>6
<1>4. CASE e.type \in Terminal
  <2>1. e.response \in Responses
    BY <1>4 DEF WellTyped
  <2>2. \/ Aggregate(a, e, size) = Failing(a, "missing")
        \/ Aggregate(a, e, size) = [a EXCEPT !.final = e.response, !.complete = TRUE]
    BY <1>4 DEF Aggregate, Terminal
  <2>3. [a EXCEPT !.final = e.response, !.complete = TRUE] \in Aggregator
    BY <2>1, AggregatorIs
  <2>4. Failing(a, "missing") \in Aggregator
    BY <1>1, FailingType
  <2> QED
    BY <2>2, <2>3, <2>4
<1>5. CASE e.type = "error"
  <2>1. Aggregate(a, e, size) = Failing(a, "event")
    BY <1>5 DEF Aggregate, Terminal
  <2> QED
    BY <1>1, <2>1, FailingType
<1>6. CASE e.type # "response.output_item.done" /\ e.type \notin Terminal /\ e.type # "error"
  <2>1. Aggregate(a, e, size) = a
    BY <1>6 DEF Aggregate
  <2> QED
    BY <2>1
<1> QED
  BY <1>3, <1>4, <1>5, <1>6

\* parseImageSSEStream: the next event.
LEMMA ImageEventType ==
    ASSUME NEW m \in ImageReader, NEW e, WellTyped(e)
    PROVE  ReadImageEvent(m, e) \in ImageReader
<1> DEFINE k == m.events + 1
<1> DEFINE n == [m EXCEPT !.events = k]
<1> DEFINE u == ReadImageEvent(m, e)
<1>1. {"events", "untyped", "failed", "partial", "missing"} \subseteq Failures
  BY DEF Failures
<1>2. k \in Nat
  BY ImageReaderIs
<1>3. u = IF n.events > MaxImageEvents THEN Failing(n, "events")
          ELSE
          CASE e.type = "" -> Failing(n, "untyped")
            [] e.type \in {"response.failed", "response.incomplete", "error"} -> Failing(n, "failed")
            [] e.type = "response.image_generation_call.partial_image" ->
                 IF e.payload = "bad" \/ e.index < 0 \/ e.index >= MaxPartialImages THEN Failing(n, "partial")
                 ELSE [n EXCEPT !.wrote = Append(@, [field |-> "partial", value |-> e.payload])]
            [] e.type = "response.completed" ->
                 IF e.response = Missing THEN Failing(n, "missing")
                 ELSE [n EXCEPT !.completed = e.response, !.complete = TRUE]
            [] e.type = "response.output_item.done" /\ IsImage(e.item) ->
                 [n EXCEPT !.doneItems = Append(@, e.item)]
            [] OTHER -> n
  BY DEF ReadImageEvent
<1> HIDE DEF k
<1>4. n \in ImageReader
  BY <1>2, ImageReaderIs
<1> HIDE DEF n, u
<1>5. /\ Failing(n, "events") \in ImageReader /\ Failing(n, "untyped") \in ImageReader
      /\ Failing(n, "failed") \in ImageReader
      /\ Failing(n, "partial") \in ImageReader /\ Failing(n, "missing") \in ImageReader
  BY <1>1, <1>4, FailingType
<1>6. n.wrote \in Shown /\ n.doneItems \in Outputs
  BY <1>4, ImageReaderIs
<1>7. CASE n.events > MaxImageEvents \/ e.type = ""
  <2>1. u = Failing(n, "events") \/ u = Failing(n, "untyped")
    BY <1>3, <1>7
  <2> QED
    BY <1>5, <2>1 DEF u
<1>8. CASE ~(n.events > MaxImageEvents) /\ e.type \in {"response.failed", "response.incomplete", "error"}
  <2>1. u = Failing(n, "failed")
    BY <1>3, <1>8
  <2> QED
    BY <1>5, <2>1 DEF u
<1>9. CASE ~(n.events > MaxImageEvents) /\ e.type = "response.image_generation_call.partial_image"
  <2> DEFINE x == Append(n.wrote, [field |-> "partial", value |-> e.payload])
  <2>1. e.payload \in Words
    BY <1>9 DEF WellTyped
  <2>2. x \in Shown
    BY <1>6, <2>1 DEF Shown, Partials
  <2>3. u = Failing(n, "partial") \/ u = [n EXCEPT !.wrote = x]
    BY <1>3, <1>9
  <2> HIDE DEF x
  <2>4. [n EXCEPT !.wrote = x] \in ImageReader
    BY <1>4, <2>2, ImageReaderIs
  <2> QED
    BY <1>5, <2>3, <2>4 DEF u
<1>10. CASE ~(n.events > MaxImageEvents) /\ e.type = "response.completed"
  <2>1. e.response \in Responses
    BY <1>10 DEF WellTyped, Terminal
  <2>2. u = Failing(n, "missing") \/ u = [n EXCEPT !.completed = e.response, !.complete = TRUE]
    BY <1>3, <1>10
  <2>3. [n EXCEPT !.completed = e.response, !.complete = TRUE] \in ImageReader
    BY <1>4, <2>1, ImageReaderIs
  <2> QED
    BY <1>5, <2>2, <2>3 DEF u
<1>11. CASE ~(n.events > MaxImageEvents) /\ e.type = "response.output_item.done"
  <2> DEFINE x == Append(n.doneItems, e.item)
  <2>1. e.item \in Items
    BY <1>11 DEF WellTyped
  <2>2. x \in Outputs
    BY <1>6, <2>1 DEF Outputs
  <2>3. u = n \/ u = [n EXCEPT !.doneItems = x]
    BY <1>3, <1>11
  <2> HIDE DEF x
  <2>4. [n EXCEPT !.doneItems = x] \in ImageReader
    BY <1>4, <2>2, ImageReaderIs
  <2> QED
    BY <1>4, <2>3, <2>4 DEF u
<1>12. CASE /\ ~(n.events > MaxImageEvents)
            /\ e.type \notin {"", "response.failed", "response.incomplete", "error", "response.completed",
                              "response.image_generation_call.partial_image", "response.output_item.done"}
  <2>1. u = n
    BY <1>3, <1>12
  <2> QED
    BY <1>4, <2>1 DEF u
<1> QED
  BY <1>7, <1>8, <1>9, <1>10, <1>11, <1>12

-----------------------------------------------------------------------------
(* What a consumer makes of an event, and what becomes of its writes. *)

\* A JSON text has a meaning.
LEMMA EventTyped ==
    ASSUME NEW text, IsJSON(text)
    PROVE  WellTyped(Event[text[1]])
BY StreamAssumption DEF IsJSON

\* The event of a consumer that is not the translator.
LEMMA AfterType ==
    ASSUME stream.mode \in Modes \ {"chat"}, NEW c \in Consumers(stream.mode), NEW events \in Texts
    PROVE  After(c, events) \in Consumers(stream.mode)
<1>1. CASE events = << >>
  BY <1>1 DEF After
<1>2. CASE events # << >>
  <2> DEFINE payload == events[1]
  <2> DEFINE text == Text(payload)
  <2> DEFINE e == Event[text[1]]
  <2> DEFINE u == StepOn(c, payload)
  <2>1. After(c, events) = u
    BY <1>2 DEF After
  <2>2. payload \in Octets /\ Len(payload) \in Nat
    <3>1. Len(events) \in Nat /\ Len(events) > 0
      BY <1>2 DEF Texts
    <3>2. payload \in Octets
      BY <3>1 DEF Texts
    <3> HIDE DEF payload
    <3> QED
      BY <3>2 DEF Octets
  <2>3. IsJSON(text) => WellTyped(e)
    BY EventTyped
  <2>4. u = IF text = << >> THEN c
            ELSE IF text = <<"DONE">> \/ (Is({"responses"}) /\ c.terminal) THEN c
            ELSE IF Is({"image", "images"})
            THEN IF IsJSON(text) THEN ReadImageEvent(c, e) ELSE Failing([c EXCEPT !.events = @ + 1], "malformed")
            ELSE IF ~IsJSON(text) THEN Failing(c, "malformed")
            ELSE IF Is({"responses"}) THEN Track(c, e) ELSE Aggregate(c, e, Len(payload))
    <3>1. ~Is({"chat"})
      BY DEF Is, Modes
    <3> QED
      BY <3>1, Zenon DEF StepOn
  <2> HIDE DEF payload, text, e, u
  <2>5. "malformed" \in Failures
    BY DEF Failures
  <2>6. CASE stream.mode = "responses"
    <3>1. Consumers(stream.mode) = Tracker /\ Is({"responses"}) /\ ~Is({"image", "images"})
      BY <2>6 DEF Consumers, Is
    <3>2. u = c \/ u = Failing(c, "malformed") \/ (u = Track(c, e) /\ WellTyped(e))
      BY <2>3, <2>4, <3>1, Zenon
    <3>3. Failing(c, "malformed") \in Tracker /\ (WellTyped(e) => Track(c, e) \in Tracker)
      BY <2>5, <3>1, FailingType, TrackType
    <3> QED
      BY <2>1, <3>1, <3>2, <3>3, Zenon
  <2>7. CASE stream.mode \in {"aggregate", "completion"}
    <3>1. Consumers(stream.mode) = Aggregator /\ ~Is({"responses"}) /\ ~Is({"image", "images"})
      BY <2>7 DEF Consumers, Is
    <3>2. u = c \/ u = Failing(c, "malformed") \/ (u = Aggregate(c, e, Len(payload)) /\ WellTyped(e))
      BY <2>3, <2>4, <3>1, Zenon
    <3>3. Failing(c, "malformed") \in Aggregator /\ (WellTyped(e) => Aggregate(c, e, Len(payload)) \in Aggregator)
      BY <2>2, <2>5, <3>1, FailingType, AggregateType
    <3> QED
      BY <2>1, <3>1, <3>2, <3>3, Zenon
  <2>8. CASE stream.mode \in {"image", "images"}
    <3> DEFINE k == c.events + 1
    <3> DEFINE n == [c EXCEPT !.events = k]
    <3>1. Consumers(stream.mode) = ImageReader /\ ~Is({"responses"}) /\ Is({"image", "images"})
      BY <2>8 DEF Consumers, Is
    <3>2. u = c \/ u = Failing(n, "malformed") \/ (u = ReadImageEvent(c, e) /\ WellTyped(e))
      BY <2>3, <2>4, <3>1, Zenon
    <3>3. k \in Nat
      BY <3>1, ImageReaderIs
    <3> HIDE DEF k
    <3>4. n \in ImageReader
      BY <3>1, <3>3, ImageReaderIs
    <3> HIDE DEF n
    <3>5. Failing(n, "malformed") \in ImageReader /\ (WellTyped(e) => ReadImageEvent(c, e) \in ImageReader)
      BY <2>5, <3>1, <3>4, FailingType, ImageEventType
    <3> QED
      BY <2>1, <3>1, <3>2, <3>5, Zenon
  <2> QED
    BY <2>6, <2>7, <2>8 DEF Modes
<1> QED
  BY <1>1, <1>2

\* And of the translator.
LEMMA AfterChat ==
    ASSUME stream.mode = "chat", NEW prior \in Lines, NEW c, Speaks(c, prior), NEW events
    PROVE  Speaks(After(c, events), prior) \/ Ends(After(c, events), prior)
<1>1. CASE events = << >>
  BY <1>1 DEF After
<1>2. CASE events # << >>
  <2> DEFINE text == Text(events[1])
  <2> DEFINE e == Event[text[1]]
  <2> DEFINE u == StepOn(c, events[1])
  <2>1. After(c, events) = u
    BY <1>2 DEF After
  <2>2. u = IF text = << >> THEN c ELSE IF IsJSON(text) THEN Consume(c, e) ELSE Fail(c)
    <3>1. Is({"chat"})
      BY DEF Is
    <3> QED
      BY <3>1, Zenon DEF StepOn
  <2>3. IsJSON(text) => WellTyped(e)
    BY EventTyped
  <2> HIDE DEF text, e, u
  <2>4. WellTyped(e) => Speaks(Consume(c, e), prior) \/ Ends(Consume(c, e), prior)
    BY ConsumeIs
  <2>5. Ends(Fail(c), prior)
    BY FailEnds
  <2> QED
    BY <2>1, <2>2, <2>3, <2>4, <2>5, Zenon
<1> QED
  BY <1>1, <1>2

\* What the translator has written is sent, all of it unless the client has left.
LEMMA ChatWrites ==
    ASSUME stream.mode = "chat", out \in Lines, NEW c, Speaks(c, out) \/ Ends(c, out),
           NEW otherwise, Write(c, otherwise)
    PROVE  \/ stop' = otherwise /\ out' = out \o c.wrote
           \/ stop' = "client" /\ gone /\ Proper(out')
<1>1. Wrote(c) = c.wrote /\ ~Is({"image"})
  BY DEF Wrote, Is
<1>2. c.wrote \in Lines /\ Proper(out \o c.wrote)
  <2>1. c \in Translator
    BY DEF Speaks, Ends
  <2>2. c.wrote \in Lines
    BY <2>1, TranslatorWith
  <2> QED
    BY <2>2 DEF Speaks, Ends, Opened, Closed
<1>3. CASE out' = out \o Wrote(c) /\ stop' = otherwise
  BY <1>1, <1>3
<1>4. CASE gone /\ stop' = "client" /\ \E k \in 0..(Len(Wrote(c)) - 1) : out' = out \o SubSeq(Wrote(c), 1, k)
  <2>1. PICK k \in 0..(Len(c.wrote) - 1) : out' = out \o SubSeq(c.wrote, 1, k)
    BY <1>1, <1>4
  <2>2. Proper(out')
    BY <1>2, <2>1, ProperCut
  <2> QED
    BY <1>4, <2>2
<1> QED
  BY <1>1, <1>3, <1>4 DEF Write

\* Then it is ready for the next event.
LEMMA ChatWritten ==
    ASSUME stream.mode = "chat", NEW prior \in Lines, NEW c, Speaks(c, prior) \/ Ends(c, prior)
    PROVE  /\ Written(c) \in Translator /\ Written(c).wrote = << >>
           /\ Written(c).terminal = c.terminal /\ Written(c).failed = c.failed
           /\ Speaks(c, prior) => Speaks(Written(c), prior \o c.wrote)
<1> DEFINE u == Written(c)
<1>1. << >> \in Lines
  BY DEF Lines
<1>2. c \in Translator
  BY DEF Speaks, Ends
<1>3. u = [c EXCEPT !.wrote = << >>]
  BY DEF Written, Is
<1> HIDE DEF u
<1>4. u \in Translator
  BY <1>1, <1>2, <1>3, TranslatorIs
<1>5. /\ u.wrote = << >> /\ u.id = c.id /\ u.roleSent = c.roleSent /\ u.terminal = c.terminal
      /\ u.failed = c.failed /\ u.tools = c.tools
  BY <1>2, <1>3, TranslatorIs
<1>6. ASSUME Speaks(c, prior) PROVE Speaks(u, prior \o c.wrote)
  <2> DEFINE w == prior \o c.wrote
  <2>1. w \in Lines
    <3> HIDE DEF w
    <3>1. Proper(w)
      BY <1>6 DEF Speaks, Opened, w
    <3> QED
      BY <3>1 DEF Proper
  <2>2. w \o << >> = w
    <3> HIDE DEF w
    <3> QED
      BY <2>1 DEF Lines
  <2>3. /\ ~c.terminal /\ ~c.failed /\ (c.tools # << >> => c.roleSent) /\ Opened(c, w)
    BY <1>6, Zenon DEF Speaks
  <2> HIDE DEF w
  <2>4. Opened(u, w)
    BY <1>5, <2>3, Zenon DEF Opened
  <2>5. Opened(u, w \o u.wrote)
    BY <1>5, <2>2, <2>4, Zenon
  <2>6. Speaks(u, w)
    BY <1>4, <1>5, <2>3, <2>5, Zenon DEF Speaks
  <2> QED
    BY <2>6 DEF w
<1> QED
  BY <1>4, <1>5, <1>6, Zenon DEF u

\* The others write nothing, but for partial images.
LEMMA OtherWrites ==
    ASSUME stream.mode \in Modes \ {"chat", "responses"}, out \in Shown, NEW c \in Consumers(stream.mode),
           NEW otherwise, Write(c, otherwise)
    PROVE  /\ stop' = otherwise \/ stop' = "client"
           /\ out' \in Shown
           /\ Written(c) \in Consumers(stream.mode)
           /\ Is({"image", "images"}) => Written(c).wrote = << >>
<1>1. << >> \in Shown
  BY DEF Shown
<1>2. Wrote(c) \in Shown
  <2>1. CASE stream.mode = "image"
    <3>1. c \in ImageReader /\ Wrote(c) = c.wrote
      BY <2>1 DEF Consumers, Wrote, Is
    <3> QED
      BY <3>1, ImageReaderIs
  <2>2. CASE stream.mode # "image"
    <3>1. Wrote(c) = << >>
      BY <2>2 DEF Wrote, Is, Modes
    <3> QED
      BY <1>1, <3>1
  <2> QED
    BY <2>1, <2>2
<1>3. out' \in Shown /\ (stop' = otherwise \/ stop' = "client")
  <2> DEFINE w == Wrote(c)
  <2>1. w \in Shown
    BY <1>2
  <2>2. CASE out' = out \o w /\ stop' = otherwise
    <3> HIDE DEF w
    <3> QED
      BY <2>1, <2>2 DEF Shown
  <2>3. CASE stop' = "client" /\ \E k \in 0..(Len(w) - 1) : out' = out \o SubSeq(w, 1, k)
    <3>1. PICK k \in 0..(Len(w) - 1) : out' = out \o SubSeq(w, 1, k)
      BY <2>3
    <3> HIDE DEF w
    <3>2. SubSeq(w, 1, k) \in Shown
      <4>1. Len(w) \in Nat /\ k \in Nat /\ 1 <= k + 1 /\ k <= Len(w) /\ 1 \in Nat \ {0}
        BY <2>1 DEF Shown
      <4> QED
        BY <2>1, <4>1, PartOf DEF Shown
    <3>3. out \o SubSeq(w, 1, k) \in Shown
      BY <3>2, JoinOf DEF Shown
    <3> QED
      BY <2>3, <3>1, <3>3
  <2> QED
    BY <2>2, <2>3 DEF Write
<1>4. CASE stream.mode \in {"image", "images"}
  <2>1. c \in ImageReader /\ Consumers(stream.mode) = ImageReader
    BY <1>4 DEF Consumers
  <2>2. Written(c) = [c EXCEPT !.wrote = << >>]
    BY <1>4 DEF Written, Is
  <2>3. [c EXCEPT !.wrote = << >>] \in ImageReader /\ [c EXCEPT !.wrote = << >>].wrote = << >>
    BY <1>1, <2>1, ImageReaderIs
  <2> QED
    BY <1>3, <2>1, <2>2, <2>3
<1>5. CASE stream.mode \notin {"image", "images"}
  <2>1. Written(c) = c /\ ~Is({"image", "images"})
    BY <1>5 DEF Written, Is
  <2> QED
    BY <1>3, <2>1
<1> QED
  BY <1>4, <1>5

-----------------------------------------------------------------------------
(* The handler. *)

\* What the types say of a state.
LEMMA StateFacts ==
    ASSUME StreamTypeOK
    PROVE  /\ stream.mode \in Modes /\ stream.wire \in Octets /\ Len(stream.wire) \in Nat
           /\ read \in Nat /\ read <= Len(stream.wire)
           /\ delivered \in Texts /\ framer \in Framer /\ consumer \in Consumers(stream.mode)
<1>1. stream \in Streams /\ read \in 0..Len(stream.wire)
  BY DEF StreamTypeOK
<1>2. stream.mode \in Modes /\ stream.wire \in Octets
  BY <1>1, StreamAssumption DEF Octets
<1>3. Len(stream.wire) \in Nat
  BY <1>2 DEF Octets
<1>4. delivered \in Texts /\ framer \in Framer /\ consumer \in Consumers(stream.mode)
  BY DEF StreamTypeOK, Texts, Octets
<1>5. read \in Nat /\ read <= Len(stream.wire)
  BY <1>1, <1>3
<1> QED
  BY <1>2, <1>3, <1>4, <1>5

\* A framer that is right has framed whole events.
LEMMA WholeFramed ==
    ASSUME StreamTypeOK, NEW q \in Nat, q <= read, Framed(framer, delivered, stream.wire, q),
           at = "read" => q = read, ~(at = "end" /\ stop = "eof" /\ ~Is({"responses"}))
    PROVE  FramedWhole
<1>1. stream.wire \in Octets /\ read \in Nat /\ read <= Len(stream.wire)
  BY StateFacts
<1>2. /\ IsPrefix(delivered, EventsOf(SubSeq(stream.wire, 1, read) \o <<"n", "n">>))
      /\ q = read => delivered = EventsOf(SubSeq(stream.wire, 1, read))
  BY <1>1, FramedEvents
<1> QED
  BY <1>2 DEF FramedWhole

\* A new translator has said nothing.
LEMMA NewSpeaks == Speaks(NewTranslator, << >>) /\ NewTranslator.wrote = << >>
<1> DEFINE t == NewTranslator
<1>1. t \in Translator
  <2>1. "chat" \in Modes
    BY DEF Modes
  <2>2. NewConsumer("chat") \in Consumers("chat")
    BY <2>1, NewConsumerType
  <2> QED
    BY <2>2 DEF NewConsumer, Consumers
<1>2. t.roleSent = FALSE /\ t.terminal = FALSE /\ t.failed = FALSE /\ t.tools = << >> /\ t.wrote = << >>
  <2>1. PICK e : e = ""
    OBVIOUS
  <2> DEFINE r == [id |-> e, roleSent |-> FALSE, terminal |-> FALSE, failed |-> FALSE, usage |-> 0,
                   tools |-> << >>, contentSeen |-> {}, wrote |-> << >>]
  <2>2. t = r
    BY <2>1, Zenon DEF NewTranslator
  <2>3. r.roleSent = FALSE /\ r.terminal = FALSE /\ r.failed = FALSE /\ r.tools = << >> /\ r.wrote = << >>
    OBVIOUS
  <2> HIDE DEF r, t
  <2> QED
    BY <2>2, <2>3, Zenon
<1> HIDE DEF t
<1> DEFINE w == << >> \o t.wrote
<1>3. w = << >>
  <2>1. << >> \o << >> = << >>
    OBVIOUS
  <2> QED
    BY <1>2, <2>1, Zenon
<1> HIDE DEF w
<1>4. Proper(w) /\ None(w, {"finish", "usage", "error", "done"})
  BY <1>3 DEF Proper, None, Lines
<1>5. Opened(t, w)
  BY <1>2, <1>3, <1>4, Zenon DEF Opened
<1> QED
  BY <1>1, <1>2, <1>5, Zenon DEF Speaks, w, t

\* The invariant holds initially.
LEMMA StreamInitially ==
    ASSUME StreamInit
    PROVE  StreamIInv
<1>1. PICK s \in Streams :
       /\ stream = s /\ read = 0 /\ chunk = << >> /\ framer = NewFramer /\ delivered = << >>
       /\ consumer = NewConsumer(s.mode) /\ at = "read" /\ stop = "none"
       /\ out = << >> /\ forwarded = 0 /\ gone = FALSE /\ results = << >>
  BY DEF StreamInit
<1>2. stream.mode \in Modes /\ stream.wire \in Octets
  BY <1>1, StreamAssumption DEF Octets
<1>3. NewFramer \in Framer /\ << >> \in Texts /\ Framed(NewFramer, << >>, stream.wire, 0)
  BY <1>2, FramedNew
<1>4. consumer \in Consumers(stream.mode)
  BY <1>1, <1>2, NewConsumerType
<1>5. StreamTypeOK
  <2>1. Len(stream.wire) \in Nat
    BY <1>2 DEF Octets
  <2>2. delivered \in Seq(Seq(Words)) /\ framer \in Framer
    BY <1>1, <1>3
  <2>3. read \in 0..Len(stream.wire) /\ forwarded \in 0..read
    BY <1>1, <2>1
  <2>4. Len(results) \in 0..Count
    <3>1. Count \in Nat
      BY StreamAssumption
    <3>2. Len(results) = 0
      BY <1>1
    <3> QED
      BY <3>1, <3>2
  <2> QED
    BY <1>1, <1>4, <2>2, <2>3, <2>4 DEF StreamTypeOK
<1>6. chunk \in Octets /\ Len(chunk) = 0 /\ read - Len(chunk) = 0
  <2>1. chunk = << >> /\ read = 0
    BY <1>1
  <2>2. Len(chunk) = 0 /\ chunk \in Seq(Words)
    BY <2>1
  <2>3. chunk \in Octets
    BY <2>2 DEF Octets
  <2>4. read = 0 /\ Len(chunk) = 0
    BY <2>1, <2>2, Zenon
  <2>5. read - Len(chunk) = 0
    BY ONLY <2>4
  <2> QED
    BY <2>2, <2>3, <2>5, Zenon
<1>7. LoopInv
  <2>1. chunk = SubSeq(stream.wire, read - Len(chunk) + 1, read)
    <3>1. SubSeq(stream.wire, 1, 0) = << >>
      <4>1. 0 <= Len(stream.wire) /\ 1 <= 0 + 1 /\ 1 \in Nat \ {0}
        BY <1>2 DEF Octets
      <4> QED
        BY <1>2, <4>1, PartOf DEF Octets
    <3> QED
      BY <1>1, <1>6, <3>1
  <2>2. \E S : results \in Seq(S)
    <3>1. results \in Seq({})
      BY <1>1
    <3> QED
      BY <3>1
  <2> QED
    BY <1>1, <1>6, <2>1, <2>2 DEF LoopInv
<1>8. Framed(framer, delivered, stream.wire, 0)
  BY <1>1, <1>3
<1>9. FrameInv
  BY <1>1, <1>6, <1>8 DEF FrameInv
<1>10. FramedWhole
  BY <1>1, <1>5, <1>8, WholeFramed
<1>11. RelayInv
  BY <1>1 DEF RelayInv
<1>12. ASSUME Is({"chat"}) PROVE ChatInv
  <2>1. consumer = NewTranslator
    BY <1>1, <1>12 DEF Is, NewConsumer
  <2>2. consumer.wrote = << >> /\ Speaks(consumer, out)
    BY <1>1, <2>1, NewSpeaks, Zenon
  <2>3. out \in Lines
    BY <1>1 DEF Lines
  <2> QED
    BY <1>1, <2>2, <2>3 DEF ChatInv
<1>13. ASSUME ~Is({"chat"}) PROVE ReplyInv
  <2>1. ASSUME Is({"image", "images"}) PROVE consumer.wrote = << >>
    <3>1. consumer = NewImage
      BY <1>1, <2>1 DEF Is, NewConsumer
    <3> QED
      BY <3>1 DEF NewImage
  <2>2. out \in Seq(Partials)
    BY <1>1
  <2> QED
    BY <1>1, <2>1, <2>2 DEF ReplyInv
<1> QED
  BY <1>5, <1>7, <1>9, <1>10, <1>11, <1>12, <1>13 DEF StreamIInv

\* Where the framer stands between the turns of the loop.
LEMMA Position ==
    ASSUME StreamIInv, at \in {"read", "feed"}, NEW q, q = read - Len(chunk)
    PROVE  /\ q \in Nat /\ q <= read /\ chunk = SubSeq(stream.wire, q + 1, read)
           /\ Framed(framer, delivered, stream.wire, q)
           /\ at = "read" => chunk = << >> /\ q = read
<1>1. read \in Nat
  BY StateFacts DEF StreamIInv
<1>2. chunk \in Octets /\ Len(chunk) <= read /\ chunk = SubSeq(stream.wire, read - Len(chunk) + 1, read)
  BY DEF StreamIInv, LoopInv
<1>3. Len(chunk) \in Nat
  BY <1>2 DEF Octets
<1>4. Framed(framer, delivered, stream.wire, q)
  BY DEF StreamIInv, FrameInv
<1>5. ASSUME at = "read" PROVE chunk = << >> /\ Len(chunk) = 0
  <2>1. chunk = << >>
    BY <1>5 DEF StreamIInv, LoopInv
  <2> QED
    BY <2>1
<1>6. q \in Nat /\ q <= read /\ (Len(chunk) = 0 => q = read)
  BY <1>1, <1>2, <1>3
<1> QED
  BY <1>2, <1>4, <1>5, <1>6

\* A framer that has been fed on has framed whole events.
LEMMA WholeNext ==
    ASSUME stream.wire \in Octets, stream' = stream, NEW r \in Nat, read' = r, r <= Len(stream.wire),
           NEW q \in Nat, q <= r, Framed(framer', delivered', stream.wire, q),
           at' = "read" => q = r, ~(at' = "end" /\ stop' = "eof" /\ ~Is({"responses"}))
    PROVE  FramedWhole'
<1>1. /\ IsPrefix(delivered', EventsOf(SubSeq(stream.wire, 1, r) \o <<"n", "n">>))
      /\ q = r => delivered' = EventsOf(SubSeq(stream.wire, 1, r))
  BY FramedEvents
<1>2. ~(at' = "end" /\ stop' = "eof" /\ ~(Is({"responses"})'))
  BY DEF Is
<1> QED
  BY <1>1, <1>2 DEF FramedWhole

\* It has still, if nothing has been read or handed on.
LEMMA WholeKept ==
    ASSUME FramedWhole, stream' = stream, read' = read, delivered' = delivered, at' = "read" => at = "read",
           ~(at' = "end" /\ stop' = "eof" /\ ~Is({"responses"})) \/ (at' = at /\ stop' = stop)
    PROVE  FramedWhole'
<1>1. Is({"responses"})' = Is({"responses"})
  BY DEF Is
<1> QED
  BY <1>1 DEF FramedWhole

\* One turn of feed, at its place in the stream.
LEMMA Fed ==
    ASSUME StreamIInv, at = "feed", NEW t, t = FeedLine(framer, chunk), NEW rest, rest = RestOf(chunk)
    PROVE  /\ t.framer \in Framer /\ t.events \in Texts /\ delivered \o t.events \in Texts
           /\ t.tooLong \in BOOLEAN
           /\ t.tooLong => t.events = << >> /\ delivered \o t.events = delivered
           /\ rest \in Octets /\ Len(rest) <= read
           /\ rest = SubSeq(stream.wire, read - Len(rest) + 1, read)
           /\ ~t.tooLong => Framed(t.framer, delivered \o t.events, stream.wire, read - Len(rest))
<1> DEFINE q == read - Len(chunk)
<1> DEFINE d == delivered \o t.events
<1>1. /\ stream.wire \in Octets /\ read \in Nat /\ read <= Len(stream.wire) /\ Len(stream.wire) \in Nat
      /\ framer \in Framer /\ delivered \in Texts
  BY StateFacts DEF StreamIInv
<1>2. q \in Nat /\ q <= read /\ chunk = SubSeq(stream.wire, q + 1, read) /\ Framed(framer, delivered, stream.wire, q)
  BY Position
<1> HIDE DEF q
<1>3. /\ t.framer \in Framer /\ t.events \in Texts /\ t.tooLong \in BOOLEAN
      /\ t.tooLong => t.events = << >>
      /\ \E p \in q..read : /\ RestOf(chunk) = SubSeq(stream.wire, p + 1, read)
                            /\ RestOf(chunk) = << >> => p = read
                            /\ ~t.tooLong => Framed(t.framer, delivered \o t.events, stream.wire, p)
  <2>1. Turned(t, delivered, stream.wire, q, read, chunk)
    BY <1>1, <1>2, FeedLineIs
  <2> QED
    BY <2>1, Zenon DEF Turned
<1>4. d \in Texts
  <2>1. t.events \in Texts
    BY <1>3
  <2> DEFINE v == t.events
  <2> HIDE DEF v
  <2>2. v \in Texts
    BY <2>1 DEF v
  <2>3. delivered \o v \in Texts
    BY <1>1, <2>2, JoinOf DEF Texts
  <2> QED
    BY <2>3 DEF v
<1>5. delivered \o << >> = delivered
  BY <1>1 DEF Texts
<1>6. t.tooLong => d = delivered
  BY <1>3, <1>5, Zenon
<1> HIDE DEF d
<1>7. PICK p \in q..read : /\ rest = SubSeq(stream.wire, p + 1, read)
                           /\ ~t.tooLong => Framed(t.framer, d, stream.wire, p)
  BY <1>3, Zenon DEF d
<1>8. p \in Nat /\ p <= read /\ p + 1 \in Nat \ {0} /\ p + 1 <= read + 1 /\ read - (p + 1) + 1 = read - p
  BY <1>1, <1>2
<1>9. rest \in Octets /\ Len(rest) = read - (p + 1) + 1
  BY <1>1, <1>7, <1>8, PartOf DEF Octets
<1>10. Len(rest) <= read /\ read - Len(rest) = p
  BY <1>1, <1>8, <1>9
<1>11. /\ rest = SubSeq(stream.wire, read - Len(rest) + 1, read)
       /\ ~t.tooLong => Framed(t.framer, d, stream.wire, read - Len(rest))
  BY <1>7, <1>10, Zenon
<1> QED
  BY <1>3, <1>4, <1>6, <1>9, <1>10, <1>11, Zenon DEF d

\* A read gives a chunk of the stream, whatever its size.
LEMMA ReadKeeps ==
    ASSUME StreamIInv, NEW n \in 1..MaxChunk, Read(n)
    PROVE  StreamIInv'
<1>1. /\ at = "read" /\ read + n <= Len(stream.wire) /\ read' = read + n
      /\ chunk' = SubSeq(stream.wire, read + 1, read + n) /\ at' = "feed"
      /\ UNCHANGED <<stream, gone, stop, framer, delivered, consumer, out, forwarded, results, entry>>
  BY DEF Read, handler
<1>2. n \in Nat \ {0}
  <2>1. MaxChunk \in Nat
    BY StreamAssumption
  <2> QED
    BY <2>1
<1>3. stream.wire \in Octets /\ Len(stream.wire) \in Nat /\ read \in Nat /\ read <= Len(stream.wire)
  BY StateFacts DEF StreamIInv
<1>4. Framed(framer, delivered, stream.wire, read)
  BY <1>1, Position
<1>5. /\ read + n \in Nat /\ read + 1 \in Nat \ {0} /\ read + 1 <= read + n + 1 /\ read <= read + n
      /\ read + n - (read + 1) + 1 = n
  BY <1>2, <1>3
<1>6. chunk' \in Octets /\ Len(chunk') = n
  BY <1>1, <1>3, <1>5, PartOf DEF Octets
<1>7. read' - Len(chunk') = read
  BY <1>1, <1>2, <1>3, <1>6
<1>8. StreamTypeOK'
  <2>1. read' \in 0..Len(stream.wire)
    BY <1>1, <1>3, <1>5
  <2>2. forwarded \in 0..read'
    BY <1>1, <1>2, <1>3 DEF StreamIInv, StreamTypeOK
  <2> QED
    BY <1>1, <2>1, <2>2 DEF StreamIInv, StreamTypeOK
<1>9. LoopInv'
  <2>1. chunk' = SubSeq(stream.wire, read' - Len(chunk') + 1, read')
    BY <1>1, <1>7
  <2>2. Len(chunk') <= read'
    BY <1>1, <1>2, <1>3, <1>6
  <2> QED
    BY <1>1, <1>6, <2>1, <2>2 DEF StreamIInv, LoopInv
<1>10. FrameInv'
  BY <1>1, <1>4, <1>7 DEF FrameInv
<1>11. FramedWhole'
  <2>1. Framed(framer', delivered', stream.wire, read)
    BY <1>1, <1>4
  <2> QED
    BY <1>1, <1>3, <1>5, <2>1, WholeNext
<1>12. RelayInv'
  BY <1>1 DEF StreamIInv, RelayInv, Is
<1>13. Is({"chat"})' => ChatInv'
  BY <1>1 DEF StreamIInv, ChatInv, Is
<1>14. ~(Is({"chat"})') => ReplyInv'
  BY <1>1 DEF StreamIInv, ReplyInv, Is
<1> QED
  BY <1>8, <1>9, <1>10, <1>11, <1>12, <1>13, <1>14 DEF StreamIInv

\* What has been sent is proper, if the translator has nothing to write.
LEMMA OutIs ==
    ASSUME NEW t, NEW w \in Lines, Speaks(t, w), t.wrote = << >>
    PROVE  Proper(w)
<1>1. w \o << >> = w
  BY DEF Lines
<1>2. Proper(w \o << >>)
  BY Zenon DEF Speaks, Opened
<1> QED
  BY <1>1, <1>2, Zenon

\* How far the translator's answer takes the reading.
LEMMA ChatVerdict ==
    ASSUME stream.mode = "chat", NEW c, NEW prior
    PROVE  /\ Speaks(c, prior) => Verdict(c) = "none"
           /\ Ends(c, prior) => /\ Verdict(c) \in {"event", "complete"}
                               /\ Told(prior \o c.wrote, Verdict(c))
<1>1. Is({"chat"})
  BY DEF Is
<1>2. Verdict(c) = IF c.failed THEN "event" ELSE IF c.terminal THEN "complete" ELSE "none"
  BY <1>1, Zenon DEF Verdict
<1>3. Speaks(c, prior) => ~c.failed /\ ~c.terminal
  BY Zenon DEF Speaks
<1>4. Ends(c, prior) => /\ c.terminal /\ Closed(prior \o c.wrote)
                        /\ c.failed \/ None(prior \o c.wrote, {"error"})
  BY Zenon DEF Ends
<1> QED
  BY <1>2, <1>3, <1>4, Zenon DEF Told

\* A turn of the loop, or the end of the stream, of a chat stream that goes on.
LEMMA ChatTurn ==
    ASSUME stream.mode = "chat", out \in Lines, Speaks(consumer, out), consumer.wrote = << >>,
           NEW events, NEW c, c = After(consumer, events), consumer' = Written(c),
           NEW o, Write(c, o),
           \/ o = "framing" /\ events = << >>
           \/ o = Verdict(c)
           \/ o = "eof" /\ Verdict(c) = "none"
    PROVE  /\ consumer' \in Translator /\ consumer'.wrote = << >> /\ out' \in Lines
           /\ \/ stop' = o /\ stop' \in {"none", "framing", "eof"} /\ Speaks(consumer', out')
              \/ stop' = o /\ stop' \in {"event", "complete"} /\ Told(out', stop')
              \/ stop' = "client" /\ gone /\ Proper(out')
<1>1. out \in Lines
  OBVIOUS
<1>2. Speaks(c, out) \/ Ends(c, out)
  BY <1>1, AfterChat
<1>3. /\ Written(c) \in Translator /\ Written(c).wrote = << >>
      /\ Speaks(c, out) => Speaks(Written(c), out \o c.wrote)
  BY <1>1, <1>2, ChatWritten
<1>4. \/ stop' = o /\ out' = out \o c.wrote
      \/ stop' = "client" /\ gone /\ Proper(out')
  BY <1>1, <1>2, ChatWrites
<1>5. /\ Speaks(c, out) => Verdict(c) = "none"
      /\ Ends(c, out) => Verdict(c) \in {"event", "complete"} /\ Told(out \o c.wrote, Verdict(c))
  BY ChatVerdict
<1>6. events = << >> => Speaks(c, out)
  BY DEF After
<1>7. Ends(c, out) => Closed(out \o c.wrote)
  BY Zenon DEF Ends
<1>8. out' \in Lines
  <2>1. Speaks(c, out) => Proper(out \o c.wrote)
    BY Zenon DEF Speaks, Opened
  <2>2. Proper(out')
    BY <1>2, <1>4, <1>7, <2>1, Zenon DEF Closed
  <2> QED
    BY <2>2 DEF Proper
<1>9. CASE Speaks(c, out)
  <2>1. Verdict(c) = "none"
    BY <1>5, <1>9
  <2>2. o \in {"none", "framing", "eof"}
    BY <2>1
  <2> QED
    BY <1>3, <1>4, <1>8, <1>9, <2>2
<1>10. CASE Ends(c, out) /\ ~Speaks(c, out)
  <2>1. Verdict(c) \in {"event", "complete"} /\ events # << >>
    BY <1>5, <1>6, <1>10
  <2>2. o \in {"event", "complete"} /\ o = Verdict(c)
    BY <2>1
  <2> QED
    BY <1>3, <1>4, <1>5, <1>8, <1>10, <2>2
<1> QED
  BY <1>2, <1>9, <1>10

\* The same for the modes that do not write as they go, but for partial images.
LEMMA OtherTurn ==
    ASSUME stream.mode \in Modes \ {"chat", "responses"}, out \in Shown, consumer \in Consumers(stream.mode),
           NEW events \in Texts, NEW c, c = After(consumer, events), consumer' = Written(c),
           NEW o, Write(c, o), o \in {"framing", "eof"} \/ o = Verdict(c)
    PROVE  /\ consumer' \in Consumers(stream.mode) /\ (Is({"image", "images"}) => consumer'.wrote = << >>)
           /\ out' \in Shown
           /\ stop' \in {"none", "complete", "event", "framing", "eof", "client"}
           /\ stop' = o \/ stop' = "client"
<1>1. c \in Consumers(stream.mode)
  BY AfterType
<1>2. /\ stop' = o \/ stop' = "client"
      /\ out' \in Shown
      /\ Written(c) \in Consumers(stream.mode)
      /\ Is({"image", "images"}) => Written(c).wrote = << >>
  BY <1>1, OtherWrites
<1>3. Verdict(c) \in {"none", "event", "complete"}
  <2>1. Verdict(c) = "none" \/ Verdict(c) = "event" \/ Verdict(c) = "complete"
    BY Zenon DEF Verdict
  <2> QED
    BY <2>1
<1>4. o \in {"none", "complete", "event", "framing", "eof", "client"}
  BY <1>3
<1> QED
  BY <1>2, <1>4

\* A turn of the loop that reads for a consumer of events.
LEMMA FeedKeeps ==
    ASSUME StreamIInv, Feed
    PROVE  StreamIInv'
<1> DEFINE t == FeedLine(framer, chunk)
<1> DEFINE c == After(consumer, t.events)
<1> DEFINE rest == RestOf(chunk)
<1> DEFINE o == IF t.tooLong THEN "framing" ELSE Verdict(c)
<1>1. /\ at = "feed" /\ ~Is({"responses"}) /\ framer' = t.framer /\ delivered' = delivered \o t.events
      /\ consumer' = Written(c) /\ Write(c, o) /\ chunk' = rest
      /\ at' = IF stop' # "none" THEN "end" ELSE IF rest = << >> THEN "read" ELSE "feed"
      /\ UNCHANGED <<stream, read, gone, forwarded, results, entry>>
  BY DEF Feed
<1>2. /\ stream.mode \in Modes /\ stream.wire \in Octets /\ Len(stream.wire) \in Nat
      /\ read \in Nat /\ read <= Len(stream.wire) /\ consumer \in Consumers(stream.mode)
  BY StateFacts DEF StreamIInv
<1>3. /\ t.framer \in Framer /\ t.events \in Texts /\ delivered \o t.events \in Texts
      /\ t.tooLong \in BOOLEAN
      /\ t.tooLong => t.events = << >> /\ delivered \o t.events = delivered
      /\ rest \in Octets /\ Len(rest) <= read
      /\ rest = SubSeq(stream.wire, read - Len(rest) + 1, read)
      /\ ~t.tooLong => Framed(t.framer, delivered \o t.events, stream.wire, read - Len(rest))
  BY <1>1, Fed
<1>4. (o = "framing" /\ t.events = << >>) \/ o = Verdict(c)
  BY <1>3, Zenon
<1>5. t.tooLong => o = "framing"
  BY Zenon
<1>6. c = After(consumer, t.events)
  BY Zenon
<1> HIDE DEF t, c, rest, o
<1>7. stream.mode # "responses"
  BY <1>1 DEF Is
<1>8. ASSUME stream.mode = "chat"
      PROVE  /\ consumer' \in Translator /\ consumer'.wrote = << >> /\ out' \in Lines
             /\ \/ stop' = o /\ stop' \in {"none", "framing", "eof"} /\ Speaks(consumer', out')
                \/ stop' = o /\ stop' \in {"event", "complete"} /\ Told(out', stop')
                \/ stop' = "client" /\ gone /\ Proper(out')
  <2>1. Speaks(consumer, out) /\ consumer.wrote = << >> /\ out \in Lines
    BY <1>1, <1>8 DEF StreamIInv, ChatInv, Is
  <2> QED
    BY <1>1, <1>4, <1>6, <1>8, <2>1, ChatTurn
<1>9. ASSUME stream.mode # "chat"
      PROVE  /\ consumer' \in Consumers(stream.mode) /\ (Is({"image", "images"}) => consumer'.wrote = << >>)
             /\ out' \in Shown
             /\ stop' \in {"none", "complete", "event", "framing", "eof", "client"}
             /\ stop' = o \/ stop' = "client"
  <2>1. out \in Shown
    BY <1>1, <1>9 DEF StreamIInv, ReplyInv, Is, Shown
  <2> QED
    BY <1>1, <1>2, <1>3, <1>4, <1>6, <1>7, <1>9, <2>1, OtherTurn
<1>10. /\ stop' \in {"none", "complete", "eof", "framing", "read", "event", "client"}
       /\ stop' = o \/ stop' = "client"
       /\ consumer' \in Consumers(stream.mode)
  <2>1. stream.mode = "chat" => Consumers(stream.mode) = Translator
    BY DEF Consumers
  <2> QED
    BY <1>8, <1>9, <2>1
<1>11. o # "eof" /\ o # "client"
  <2>1. Verdict(c) = "none" \/ Verdict(c) = "event" \/ Verdict(c) = "complete"
    BY Zenon DEF Verdict
  <2> QED
    BY <1>4, <2>1
<1>12. stop' = "none" => ~t.tooLong
  BY <1>5, <1>10
<1>13. StreamTypeOK'
  <2>1. at' \in {"read", "feed", "end"}
    BY <1>1
  <2>2. delivered' \in Seq(Seq(Words)) /\ framer' \in Framer
    BY <1>1, <1>3 DEF Texts, Octets
  <2> QED
    BY <1>1, <1>10, <2>1, <2>2 DEF StreamIInv, StreamTypeOK
<1>14. LoopInv'
  BY <1>1, <1>3 DEF StreamIInv, LoopInv
<1>15. FrameInv'
  <2>1. ASSUME at' \in {"read", "feed"} PROVE Framed(framer', delivered', stream'.wire, read' - Len(chunk'))
    <3>1. ~t.tooLong
      BY <1>1, <1>12, <2>1
    <3> QED
      BY <1>1, <1>3, <3>1
  <2> QED
    BY <1>1, <2>1 DEF FrameInv, Is
<1>16. FramedWhole'
  <2>1. CASE t.tooLong
    <3>1. delivered' = delivered /\ stop' # "none" /\ stop' # "eof" /\ at' = "end"
      BY <1>1, <1>3, <1>10, <1>11, <1>12, <2>1
    <3> QED
      BY <1>1, <3>1, WholeKept DEF StreamIInv
  <2>2. CASE ~t.tooLong
    <3> DEFINE p == read - Len(rest)
    <3>1. Framed(framer', delivered', stream.wire, p)
      BY <1>1, <1>3, <2>2
    <3>2. Len(rest) \in Nat /\ (rest = << >> => Len(rest) = 0)
      BY <1>3 DEF Octets
    <3>3. p \in Nat /\ p <= read /\ (rest = << >> => p = read)
      BY <1>2, <1>3, <3>2
    <3>4. (at' = "read" => p = read) /\ stop' # "eof"
      BY <1>1, <1>10, <1>11, <3>3
    <3> HIDE DEF p
    <3> QED
      BY <1>1, <1>2, <3>1, <3>3, <3>4, WholeNext
  <2> QED
    BY <1>3, <2>1, <2>2
<1>17. RelayInv'
  BY <1>1 DEF StreamIInv, RelayInv, Is
<1>18. ASSUME Is({"chat"})' PROVE ChatInv'
  <2>1. stream.mode = "chat"
    BY <1>1, <1>18 DEF Is
  <2> QED
    BY <1>1, <1>8, <1>11, <2>1 DEF ChatInv
<1>19. ASSUME ~(Is({"chat"})') PROVE ReplyInv'
  <2>1. stream.mode # "chat"
    BY <1>1, <1>19 DEF Is
  <2> QED
    BY <1>1, <1>9, <2>1 DEF ReplyInv, Is, Shown
<1> QED
  BY <1>13, <1>14, <1>15, <1>16, <1>17, <1>18, <1>19 DEF StreamIInv

\* A turn of the loop that relays: the tracker's error is kept.
LEMMA FeedTrackerKeeps ==
    ASSUME StreamIInv, FeedTracker
    PROVE  StreamIInv'
<1> DEFINE t == FeedLine(framer, chunk)
<1> DEFINE c == IF t.tooLong THEN Failing(consumer, "framing") ELSE After(consumer, t.events)
<1> DEFINE rest == RestOf(chunk)
<1>1. /\ at = "feed" /\ Is({"responses"}) /\ framer' = t.framer /\ delivered' = delivered \o t.events
      /\ consumer' = c /\ chunk' = rest
      /\ UNCHANGED <<stream, read, gone, stop, out, forwarded, results, entry>>
  BY Zenon DEF FeedTracker
<1>2. at' = IF ~Sound(c) \/ rest = << >> THEN "forward" ELSE "feed"
  BY Zenon DEF FeedTracker, Sound
<1>3. /\ stream.mode \in Modes /\ stream.wire \in Octets /\ Len(stream.wire) \in Nat
      /\ read \in Nat /\ read <= Len(stream.wire) /\ consumer \in Consumers(stream.mode)
  BY StateFacts DEF StreamIInv
<1>4. /\ t.framer \in Framer /\ t.events \in Texts /\ delivered \o t.events \in Texts
      /\ t.tooLong \in BOOLEAN
      /\ t.tooLong => t.events = << >> /\ delivered \o t.events = delivered
      /\ rest \in Octets /\ Len(rest) <= read
      /\ rest = SubSeq(stream.wire, read - Len(rest) + 1, read)
      /\ ~t.tooLong => Framed(t.framer, delivered \o t.events, stream.wire, read - Len(rest))
  BY <1>1, Fed
<1>5. stream.mode = "responses" /\ Consumers(stream.mode) = Tracker
  BY <1>1 DEF Is, Consumers
<1>6. /\ t.tooLong => c = Failing(consumer, "framing")
      /\ ~t.tooLong => c = After(consumer, t.events)
  BY Zenon
<1> HIDE DEF t, c, rest
<1>7. c \in Tracker
  <2>1. "framing" \in Failures
    BY DEF Failures
  <2>2. Failing(consumer, "framing") \in Tracker
    BY <1>3, <1>5, <2>1, FailingType
  <2>3. stream.mode \in Modes \ {"chat"}
    BY <1>3, <1>5
  <2>4. After(consumer, t.events) \in Consumers(stream.mode)
    BY <1>3, <1>4, <2>3, AfterType
  <2> QED
    BY <1>5, <1>6, <2>2, <2>4, Zenon
<1>8. Sound(c) => ~t.tooLong
  <2>1. ASSUME t.tooLong PROVE c.err = "framing"
    <3>1. consumer \in Tracker
      BY <1>3, <1>5
    <3>2. Failing(consumer, "framing").err = "framing"
      BY <3>1 DEF Failing, Tracker
    <3> QED
      BY <1>6, <2>1, <3>2, Zenon
  <2> QED
    BY <2>1, Zenon DEF Sound
<1>9. Len(rest) \in Nat /\ (rest = << >> => Len(rest) = 0)
  BY <1>4 DEF Octets
<1>10. read - Len(rest) \in Nat /\ read - Len(rest) <= read /\ (rest = << >> => read - Len(rest) = read)
  BY <1>3, <1>4, <1>9
<1>11. at' \in {"forward", "feed"} /\ (at' = "feed" => Sound(c)) /\ (at' = "forward" /\ Sound(c) => rest = << >>)
  BY <1>2
<1>12. StreamTypeOK'
  <2>1. delivered' \in Seq(Seq(Words)) /\ framer' \in Framer
    BY <1>1, <1>4 DEF Texts, Octets
  <2>2. consumer' \in Consumers(stream.mode)
    BY <1>1, <1>5, <1>7
  <2> QED
    BY <1>1, <1>11, <2>1, <2>2 DEF StreamIInv, StreamTypeOK
<1>13. LoopInv'
  BY <1>1, <1>4, <1>11 DEF StreamIInv, LoopInv, Is
<1>14. FrameInv'
  <2>1. Sound(c) => Framed(framer', delivered', stream.wire, read - Len(rest))
    BY <1>1, <1>4, <1>8
  <2> QED
    BY <1>1, <1>10, <1>11, <2>1 DEF FrameInv, Is
<1>15. FramedWhole'
  <2>1. CASE t.tooLong
    BY <1>1, <1>4, <1>11, <2>1, WholeKept DEF StreamIInv
  <2>2. CASE ~t.tooLong
    <3> DEFINE p == read - Len(rest)
    <3>1. Framed(framer', delivered', stream.wire, p) /\ p \in Nat /\ p <= read
      BY <1>1, <1>4, <1>10, <2>2
    <3> HIDE DEF p
    <3> QED
      BY <1>1, <1>3, <1>11, <3>1, WholeNext
  <2> QED
    BY <1>4, <2>1, <2>2
<1>16. RelayInv'
  BY <1>1, <1>11 DEF StreamIInv, RelayInv, Is
<1>17. ~(Is({"chat"})') /\ ReplyInv'
  BY <1>1, <1>5, <1>11 DEF StreamIInv, ReplyInv, Is
<1> QED
  BY <1>12, <1>13, <1>14, <1>15, <1>16, <1>17 DEF StreamIInv

\* The chunk is relayed, or the client has left.
LEMMA ForwardKeeps ==
    ASSUME StreamIInv, Forward
    PROVE  StreamIInv'
<1>1. /\ at = "forward" /\ at' = IF stop' = "none" THEN "read" ELSE "end"
      /\ UNCHANGED <<stream, read, chunk, gone, framer, delivered, consumer, out, results, entry>>
  BY Zenon DEF Forward
<1>2. Is({"responses"}) /\ stream.mode = "responses"
  BY <1>1 DEF StreamIInv, LoopInv, Is
<1>3. /\ \/ forwarded' = read /\ (stop' = "none" => Sound(consumer))
         \/ gone /\ forwarded' = forwarded /\ stop' = "client"
      /\ stop' = "event" \/ stop' = "complete" \/ stop' = "none" \/ stop' = "client"
  <2>1. \/ /\ forwarded' = read
           /\ stop' = IF ~Sound(consumer) THEN "event" ELSE IF consumer.terminal THEN "complete" ELSE "none"
        \/ gone /\ stop' = "client" /\ forwarded' = forwarded
    BY Zenon DEF Forward, Sound
  <2> QED
    BY <2>1
<1>4. /\ stream.wire \in Octets /\ Len(stream.wire) \in Nat /\ read \in Nat /\ read <= Len(stream.wire)
  BY StateFacts DEF StreamIInv
<1>5. at' \in {"read", "end"} /\ (at' = "read" => stop' = "none" /\ forwarded' = read /\ Sound(consumer))
  BY <1>1, <1>3
<1>6. Sound(consumer) => chunk = << >> /\ Framed(framer, delivered, stream.wire, read)
  BY <1>1, <1>2 DEF StreamIInv, FrameInv
<1>7. chunk = << >> => Len(chunk) = 0 /\ read - Len(chunk) = read
  <2>1. Len(<< >>) = 0
    OBVIOUS
  <2>2. chunk = << >> => Len(chunk) = 0
    BY <2>1, Zenon
  <2> QED
    BY ONLY <1>4, <2>2
<1>8. StreamTypeOK'
  <2>1. forwarded' \in 0..read
    BY <1>3, <1>4 DEF StreamIInv, StreamTypeOK
  <2> QED
    BY <1>1, <1>3, <1>5, <2>1 DEF StreamIInv, StreamTypeOK
<1>9. LoopInv'
  <2>1. SubSeq(stream.wire, read + 1, read) = << >>
    <3>1. read + 1 \in Nat \ {0} /\ read + 1 <= read + 1 /\ read - (read + 1) + 1 = 0
      BY <1>4
    <3>2. SubSeq(stream.wire, read + 1, read) \in Seq(Words) /\ Len(SubSeq(stream.wire, read + 1, read)) = 0
      BY <1>4, <3>1, PartOf DEF Octets
    <3> QED
      BY <3>2
  <2>2. at' = "read" => chunk = << >> /\ chunk = SubSeq(stream.wire, read - Len(chunk) + 1, read)
    BY <1>5, <1>6, <1>7, <2>1
  <2> QED
    BY <1>1, <1>5, <2>2 DEF StreamIInv, LoopInv
<1>10. FrameInv'
  BY <1>1, <1>5, <1>6, <1>7 DEF FrameInv, Is
<1>11. FramedWhole'
  <2>1. CASE at' = "read"
    <3>1. Framed(framer', delivered', stream.wire, read)
      BY <1>1, <1>5, <1>6, <2>1
    <3> QED
      BY <1>1, <1>4, <2>1, <3>1, WholeNext
  <2>2. CASE at' # "read"
    BY <1>1, <1>2, <2>2, WholeKept DEF StreamIInv
  <2> QED
    BY <2>1, <2>2
<1>12. RelayInv'
  BY <1>1, <1>2, <1>3, <1>5 DEF StreamIInv, RelayInv, Is
<1>13. ~(Is({"chat"})') /\ ReplyInv'
  BY <1>1, <1>2, <1>5 DEF StreamIInv, ReplyInv, Is
<1> QED
  BY <1>8, <1>9, <1>10, <1>11, <1>12, <1>13 DEF StreamIInv

\* The connection breaks.
LEMMA ReadFailsKeeps ==
    ASSUME StreamIInv, ReadFails
    PROVE  StreamIInv'
<1>1. /\ at = "read" /\ at' = "end" /\ stop' = "read"
      /\ UNCHANGED <<stream, read, chunk, gone, framer, delivered, consumer, out, forwarded, results, entry>>
  BY DEF ReadFails, handler
<1>2. chunk = << >> /\ Framed(framer, delivered, stream.wire, read)
  <2>1. PICK q : q = read - Len(chunk)
    OBVIOUS
  <2> QED
    BY <1>1, <2>1, Position
<1>3. StreamTypeOK' /\ LoopInv'
  BY <1>1 DEF StreamIInv, StreamTypeOK, LoopInv
<1>4. FrameInv'
  BY <1>1, <1>2 DEF FrameInv
<1>5. FramedWhole'
  BY <1>1, WholeKept DEF StreamIInv
<1>6. RelayInv'
  BY <1>1 DEF StreamIInv, RelayInv, Is
<1>7. Is({"chat"})' => ChatInv'
  BY <1>1 DEF StreamIInv, ChatInv, Is
<1>8. ~(Is({"chat"})') => ReplyInv'
  BY <1>1 DEF StreamIInv, ReplyInv, Is
<1> QED
  BY <1>3, <1>4, <1>5, <1>6, <1>7, <1>8 DEF StreamIInv

\* The client leaves.
LEMMA ClientLeavesKeeps ==
    ASSUME StreamIInv, ClientLeaves
    PROVE  StreamIInv'
<1>1. /\ at # "done" /\ gone' = TRUE
      /\ UNCHANGED <<stream, read, chunk, at, stop, framer, delivered, consumer, out, forwarded, results, entry>>
  BY DEF ClientLeaves, handler
<1>2. StreamTypeOK' /\ LoopInv'
  BY <1>1 DEF StreamIInv, StreamTypeOK, LoopInv, Is
<1>3. FrameInv'
  BY <1>1 DEF StreamIInv, FrameInv, Is
<1>4. FramedWhole'
  BY <1>1, WholeKept DEF StreamIInv
<1>5. RelayInv'
  BY <1>1 DEF StreamIInv, RelayInv, Is
<1>6. Is({"chat"})' => ChatInv'
  BY <1>1 DEF StreamIInv, ChatInv, Is
<1>7. ~(Is({"chat"})') => ReplyInv'
  BY <1>1 DEF StreamIInv, ReplyInv, Is
<1> QED
  BY <1>2, <1>3, <1>4, <1>5, <1>6, <1>7 DEF StreamIInv

\* The end of what has been read has ended its last event.
LEMMA WholeFinished ==
    ASSUME stream.wire \in Octets, stream' = stream, read' = read, delivered' \in Texts,
           delivered' = EventsOf(Closing(stream.wire, read)), at' # "read"
    PROVE  FramedWhole'
<1>1. IsPrefix(delivered', delivered')
  <2>1. PICK d \in Texts : d = delivered'
    OBVIOUS
  <2>2. Leads(d, d)
    BY <2>1 DEF Leads, Texts
  <2>3. IsPrefix(d, d)
    BY <2>1, <2>2, LeadsIsPrefix
  <2> QED
    BY <2>1, <2>3
<1>2. delivered' = EventsOf(SubSeq(stream'.wire, 1, read') \o <<"n", "n">>)
  BY DEF Closing
<1> QED
  BY <1>1, <1>2, Zenon DEF FramedWhole

\* What finish hands on at the end of the reading.
LEMMA Finished ==
    ASSUME stream.wire \in Octets, read \in Nat, read <= Len(stream.wire), framer \in Framer, delivered \in Texts,
           Framed(framer, delivered, stream.wire, read), NEW t, t = FinishFraming(framer)
    PROVE  /\ t.framer \in Framer /\ t.events \in Texts /\ t.tooLong \in BOOLEAN
           /\ delivered \o t.events \in Texts
           /\ t.tooLong => t.events = << >> /\ delivered \o t.events = delivered
           /\ ~t.tooLong => delivered \o t.events = EventsOf(Closing(stream.wire, read))
<1>1. /\ t.framer \in Framer /\ t.events \in Texts /\ t.tooLong \in BOOLEAN
      /\ t.tooLong => t.events = << >>
      /\ ~t.tooLong => delivered \o t.events = EventsOf(Closing(stream.wire, read))
  <2>1. ClosedBy(t, delivered, stream.wire, read)
    BY FinishIs
  <2> QED
    BY <2>1, Zenon DEF ClosedBy
<1> DEFINE v == t.events
<1>2. v \in Texts
  BY <1>1
<1> HIDE DEF v
<1>3. delivered \o v \in Texts /\ delivered \o << >> = delivered
  BY <1>2, JoinOf DEF Texts
<1> QED
  BY <1>1, <1>3, Zenon DEF v

\* The stream ends.
LEMMA EofKeeps ==
    ASSUME StreamIInv, Eof
    PROVE  StreamIInv'
<1> DEFINE t == FinishFraming(framer)
<1> DEFINE c == After(consumer, t.events)
<1> DEFINE o == IF t.tooLong THEN "framing" ELSE IF Verdict(c) = "none" THEN "eof" ELSE Verdict(c)
<1>1. /\ at = "read" /\ at' = "end"
      /\ UNCHANGED <<stream, read, chunk, gone, forwarded, results, entry>>
      /\ \/ Is({"responses"}) /\ stop' = "eof" /\ UNCHANGED <<framer, delivered, consumer, out>>
         \/ /\ ~Is({"responses"}) /\ framer' = t.framer /\ delivered' = delivered \o t.events
            /\ consumer' = Written(c) /\ Write(c, o)
  BY DEF Eof
<1>2. /\ stream.mode \in Modes /\ stream.wire \in Octets /\ Len(stream.wire) \in Nat
      /\ read \in Nat /\ read <= Len(stream.wire) /\ consumer \in Consumers(stream.mode)
      /\ framer \in Framer /\ delivered \in Texts
  BY StateFacts DEF StreamIInv
<1>3. chunk = << >> /\ Framed(framer, delivered, stream.wire, read)
  <2>1. PICK q : q = read - Len(chunk)
    OBVIOUS
  <2> QED
    BY <1>1, <2>1, Position
<1>4. LoopInv'
  BY <1>1 DEF StreamIInv, LoopInv
<1>5. RelayInv'
  BY <1>1 DEF StreamIInv, RelayInv, Is
<1>6. CASE Is({"responses"}) /\ stop' = "eof" /\ UNCHANGED <<framer, delivered, consumer, out>>
  <2>1. StreamTypeOK'
    BY <1>1, <1>6 DEF StreamIInv, StreamTypeOK
  <2>2. FrameInv'
    BY <1>1, <1>3, <1>6 DEF FrameInv
  <2>3. FramedWhole'
    BY <1>1, <1>6, WholeKept DEF StreamIInv
  <2>4. ~(Is({"chat"})') /\ ReplyInv'
    BY <1>1, <1>6 DEF StreamIInv, ReplyInv, Is
  <2> QED
    BY <1>4, <1>5, <2>1, <2>2, <2>3, <2>4 DEF StreamIInv
<1>7. CASE /\ ~Is({"responses"}) /\ framer' = t.framer /\ delivered' = delivered \o t.events
           /\ consumer' = Written(c) /\ Write(c, o)
  <2>1. /\ t.framer \in Framer /\ t.events \in Texts /\ t.tooLong \in BOOLEAN
        /\ delivered \o t.events \in Texts
        /\ t.tooLong => t.events = << >> /\ delivered \o t.events = delivered
        /\ ~t.tooLong => delivered \o t.events = EventsOf(Closing(stream.wire, read))
    BY <1>2, <1>3, Finished
  <2>2. \/ o = "framing" /\ t.tooLong /\ t.events = << >>
        \/ o = Verdict(c) /\ ~t.tooLong /\ o # "none"
        \/ o = "eof" /\ ~t.tooLong /\ Verdict(c) = "none"
    BY <2>1, Zenon
  <2>3. c = After(consumer, t.events) /\ stream.mode # "responses"
    BY <1>7 DEF Is
  <2> HIDE DEF t, c, o
  <2>4. ASSUME stream.mode = "chat"
        PROVE  /\ consumer' \in Translator /\ consumer'.wrote = << >> /\ out' \in Lines
               /\ \/ stop' = o /\ stop' \in {"none", "framing", "eof"} /\ Speaks(consumer', out')
                  \/ stop' = o /\ stop' \in {"event", "complete"} /\ Told(out', stop')
                  \/ stop' = "client" /\ gone /\ Proper(out')
    <3>1. Speaks(consumer, out) /\ consumer.wrote = << >> /\ out \in Lines
      BY <1>1, <2>4 DEF StreamIInv, ChatInv, Is
    <3> QED
      BY <1>7, <2>2, <2>3, <2>4, <3>1, ChatTurn
  <2>5. ASSUME stream.mode # "chat"
        PROVE  /\ consumer' \in Consumers(stream.mode) /\ (Is({"image", "images"}) => consumer'.wrote = << >>)
               /\ out' \in Shown
               /\ stop' \in {"none", "complete", "event", "framing", "eof", "client"}
               /\ stop' = o \/ stop' = "client"
    <3>1. out \in Shown
      BY <1>1, <2>5 DEF StreamIInv, ReplyInv, Is, Shown
    <3>2. o \in {"framing", "eof"} \/ o = Verdict(c)
      BY <2>2
    <3> QED
      BY <1>2, <1>7, <2>1, <2>3, <2>5, <3>1, <3>2, OtherTurn
  <2>6. o # "none"
    BY <2>2
  <2>7. /\ stop' \in {"complete", "eof", "framing", "read", "event", "client"}
        /\ stop' = o \/ stop' = "client"
        /\ consumer' \in Consumers(stream.mode)
    <3>1. stream.mode = "chat" => Consumers(stream.mode) = Translator
      BY DEF Consumers
    <3> QED
      BY <2>4, <2>5, <2>6, <3>1
  <2>8. StreamTypeOK'
    <3>1. delivered' \in Seq(Seq(Words)) /\ framer' \in Framer
      BY <1>7, <2>1 DEF Texts, Octets
    <3> QED
      BY <1>1, <2>7, <3>1 DEF StreamIInv, StreamTypeOK
  <2>9. FrameInv'
    BY <1>1, <1>7 DEF FrameInv, Is
  <2>10. FramedWhole'
    <3>1. CASE t.tooLong
      <4>1. delivered' = delivered /\ stop' # "eof"
        BY <1>7, <2>1, <2>2, <2>7, <3>1
      <4> QED
        BY <1>1, <4>1, WholeKept DEF StreamIInv
    <3>2. CASE ~t.tooLong
      <4>1. delivered' \in Texts /\ delivered' = EventsOf(Closing(stream.wire, read))
        BY <1>7, <2>1, <3>2
      <4> QED
        BY <1>1, <1>2, <4>1, WholeFinished
    <3> QED
      BY <2>1, <3>1, <3>2
  <2>11. ASSUME Is({"chat"})' PROVE ChatInv'
    <3>1. stream.mode = "chat"
      BY <1>1, <2>11 DEF Is
    <3> QED
      BY <1>1, <2>4, <2>6, <3>1 DEF ChatInv
  <2>12. ASSUME ~(Is({"chat"})') PROVE ReplyInv'
    <3>1. stream.mode # "chat"
      BY <1>1, <2>12 DEF Is
    <3> QED
      BY <1>1, <2>5, <3>1 DEF ReplyInv, Is, Shown
  <2> QED
    BY <1>4, <1>5, <2>8, <2>9, <2>10, <2>11, <2>12 DEF StreamIInv
<1> QED
  BY <1>1, <1>6, <1>7

\* The tracker's end.
LEMMA EndResponsesKeeps ==
    ASSUME StreamIInv, EndResponses
    PROVE  StreamIInv'
<1> DEFINE over == ~Sound(consumer) \/ consumer.terminal
<1> DEFINE t == FinishFraming(framer)
<1> DEFINE c == IF over THEN consumer ELSE After(consumer, t.events)
<1>1. /\ at = "end" /\ Is({"responses"}) /\ framer' = (IF over THEN framer ELSE t.framer)
      /\ delivered' = (IF over THEN delivered ELSE delivered \o t.events) /\ consumer' = c
      /\ at' = "done" /\ UNCHANGED <<stream, read, chunk, gone, stop, forwarded, out, results>>
  BY Zenon DEF EndResponses, Done, Sound
<1>2. /\ stream.mode \in Modes /\ stream.wire \in Octets /\ Len(stream.wire) \in Nat
      /\ read \in Nat /\ read <= Len(stream.wire) /\ consumer \in Consumers(stream.mode)
      /\ framer \in Framer /\ delivered \in Texts
  BY StateFacts DEF StreamIInv
<1>3. \/ framer' = framer /\ delivered' = delivered /\ consumer' = consumer
      \/ /\ Sound(consumer) /\ framer' = t.framer /\ delivered' = delivered \o t.events
         /\ consumer' = After(consumer, t.events)
  BY <1>1, Zenon
<1> HIDE DEF over, c
<1>4. stream.mode = "responses"
  BY <1>1 DEF Is
<1>5. /\ framer' \in Framer /\ delivered' \in Texts /\ consumer' \in Consumers(stream.mode)
      /\ delivered' = delivered \/ delivered' = EventsOf(Closing(stream.wire, read))
  <2>1. CASE framer' = framer /\ delivered' = delivered /\ consumer' = consumer
    BY <1>2, <2>1
  <2>2. CASE /\ Sound(consumer) /\ framer' = t.framer /\ delivered' = delivered \o t.events
             /\ consumer' = After(consumer, t.events)
    <3>1. Framed(framer, delivered, stream.wire, read)
      BY <1>1, <2>2 DEF StreamIInv, FrameInv
    <3>2. /\ t.framer \in Framer /\ t.events \in Texts /\ t.tooLong \in BOOLEAN
          /\ delivered \o t.events \in Texts
          /\ t.tooLong => delivered \o t.events = delivered
          /\ ~t.tooLong => delivered \o t.events = EventsOf(Closing(stream.wire, read))
      BY <1>2, <3>1, Finished
    <3> HIDE DEF t
    <3>3. After(consumer, t.events) \in Consumers(stream.mode)
      BY <1>2, <1>4, <3>2, AfterType
    <3> QED
      BY <2>2, <3>2, <3>3
  <2> QED
    BY <1>3, <2>1, <2>2
<1>6. StreamTypeOK'
  <2>1. delivered' \in Seq(Seq(Words))
    BY <1>5 DEF Texts, Octets
  <2> QED
    BY <1>1, <1>5, <2>1 DEF StreamIInv, StreamTypeOK
<1>7. LoopInv' /\ FrameInv'
  BY <1>1 DEF StreamIInv, LoopInv, FrameInv
<1>8. FramedWhole'
  <2>1. CASE delivered' = delivered
    BY <1>1, <2>1, WholeKept DEF StreamIInv
  <2>2. CASE delivered' = EventsOf(Closing(stream.wire, read))
    BY <1>1, <1>2, <1>5, <2>2, WholeFinished
  <2> QED
    BY <1>5, <2>1, <2>2
<1>9. RelayInv'
  BY <1>1 DEF StreamIInv, RelayInv, Is
<1>10. ~(Is({"chat"})') /\ ReplyInv'
  BY <1>1, <1>4 DEF StreamIInv, ReplyInv, Is
<1> QED
  BY <1>6, <1>7, <1>8, <1>9, <1>10 DEF StreamIInv

\* The end of a chat stream: an end without a terminal event is told as an error.
LEMMA EndChatKeeps ==
    ASSUME StreamIInv, EndChat
    PROVE  StreamIInv'
<1> DEFINE reported == stop \in {"event", "client", "complete"}
<1> DEFINE c == IF reported THEN consumer ELSE Fail(consumer)
<1>1. /\ at = "end" /\ Is({"chat"}) /\ consumer' = Written(c) /\ at' = "done"
      /\ UNCHANGED <<stream, read, chunk, gone, stop, forwarded, framer, delivered, results>>
      /\ \/ out' = out \o Wrote(c)
         \/ gone /\ \E k \in 0..(Len(Wrote(c)) - 1) : out' = out \o SubSeq(Wrote(c), 1, k)
  BY Zenon DEF EndChat, Done
<1>2. stream.mode = "chat" /\ Consumers(stream.mode) = Translator
  BY <1>1 DEF Is, Consumers
<1>3. consumer \in Translator /\ consumer.wrote = << >> /\ out \in Lines
  BY <1>1, <1>2 DEF StreamIInv, StreamTypeOK, ChatInv
<1>4. \/ stop \in {"framing", "eof", "read"} /\ Speaks(consumer, out)
      \/ stop \in {"event", "complete"} /\ Told(out, stop)
      \/ stop = "client" /\ gone /\ Proper(out)
  BY <1>1 DEF StreamIInv, ChatInv
<1>5. Wrote(c) = c.wrote /\ Written(c) = [c EXCEPT !.wrote = << >>]
  BY <1>1, Zenon DEF Wrote, Written, Is
<1>6. (reported => c = consumer) /\ (~reported => c = Fail(consumer))
  BY Zenon
<1> HIDE DEF c
<1>7. /\ c \in Translator /\ c.wrote \in Lines /\ Proper(out')
      /\ ~gone => Closed(out')
      /\ stop = "complete" => None(out', {"error"})
  <2>1. CASE reported
    <3>1. c = consumer /\ Wrote(c) = << >>
      BY <1>3, <1>5, <1>6, <2>1, Zenon
    <3>2. out' = out
      <4>1. Len(<< >>) = 0 /\ 0..(0 - 1) = {}
        OBVIOUS
      <4>2. out \o << >> = out
        BY <1>3 DEF Lines
      <4> QED
        BY <1>1, <3>1, <4>1, <4>2
    <3>3. Proper(out) /\ (~gone => Closed(out)) /\ (stop = "complete" => None(out, {"error"}))
      BY <1>4, <2>1 DEF Told, Closed
    <3>4. << >> \in Lines
      BY DEF Lines
    <3> QED
      BY <1>3, <3>1, <3>2, <3>3, <3>4, Zenon
  <2>2. CASE ~reported
    <3>1. Speaks(consumer, out) /\ c = Fail(consumer)
      BY <1>4, <1>6, <2>2
    <3>2. Ends(c, out)
      BY <1>3, <3>1, FailEnds
    <3>3. c \in Translator /\ Closed(out \o c.wrote)
      BY <3>2, Zenon DEF Ends
    <3>4. c.wrote \in Lines
      BY <3>3, TranslatorIs
    <3>5. CASE out' = out \o Wrote(c)
      BY <1>5, <2>2, <3>3, <3>4, <3>5 DEF Closed
    <3>6. CASE gone /\ \E k \in 0..(Len(Wrote(c)) - 1) : out' = out \o SubSeq(Wrote(c), 1, k)
      <4>1. PICK k \in 0..(Len(c.wrote) - 1) : out' = out \o SubSeq(c.wrote, 1, k)
        BY <1>5, <3>6
      <4>2. Proper(out \o c.wrote)
        BY <3>3 DEF Closed
      <4>3. Proper(out')
        BY <1>3, <3>4, <4>1, <4>2, ProperCut
      <4> QED
        BY <2>2, <3>3, <3>4, <3>6, <4>3
    <3> QED
      BY <1>1, <3>5, <3>6
  <2> QED
    BY <2>1, <2>2
<1>8. consumer' \in Translator /\ consumer'.wrote = << >>
  <2>1. << >> \in Lines
    BY DEF Lines
  <2>2. [c EXCEPT !.wrote = << >>] \in Translator /\ [c EXCEPT !.wrote = << >>].wrote = << >>
    BY <1>7, <2>1, TranslatorIs
  <2> QED
    BY <1>1, <1>5, <2>2, Zenon
<1>9. Served' => stop = "complete"
  <2>1. entry' = [error |-> IF stop = "complete" THEN "" ELSE stop, usage |-> c.usage]
    BY Zenon DEF EndChat, Done, c
  <2>2. PICK e : e = ""
    OBVIOUS
  <2>3. entry' = [error |-> IF stop = "complete" THEN e ELSE stop, usage |-> c.usage]
    BY <2>1, <2>2, Zenon
  <2>4. entry'.error = IF stop = "complete" THEN e ELSE stop
    BY <2>3
  <2>5. stop \in {"framing", "eof", "read", "event", "complete", "client"}
    BY <1>4
  <2>6. stop # e
    BY <2>2, <2>5, Zenon
  <2> QED
    BY <2>2, <2>4, <2>6, Zenon DEF Served
<1>10. StreamTypeOK'
  BY <1>1, <1>2, <1>8 DEF StreamIInv, StreamTypeOK
<1>11. LoopInv' /\ FrameInv'
  BY <1>1 DEF StreamIInv, LoopInv, FrameInv
<1>12. FramedWhole'
  BY <1>1, WholeKept DEF StreamIInv
<1>13. RelayInv'
  BY <1>1 DEF StreamIInv, RelayInv, Is
<1>14. Is({"chat"})' /\ ChatInv'
  <2>1. out' \in Lines
    BY <1>7 DEF Proper
  <2> QED
    BY <1>1, <1>7, <1>8, <1>9, <2>1 DEF ChatInv, Is
<1> QED
  BY <1>10, <1>11, <1>12, <1>13, <1>14 DEF StreamIInv

\* An answer, after the partial images w.
LEMMA AnswerIs ==
    ASSUME NEW w \in Shown, NEW field \in {"completed", "reply", "error"}, NEW value
    PROVE  /\ Answered(w \o Answer(field, value)) /\ Answered(Answer(field, value))
           /\ field # "error" => /\ None(w \o Answer(field, value), {"error"})
                                /\ None(Answer(field, value), {"error"})
<1> DEFINE r == [field |-> field, value |-> value]
<1> DEFINE v == w \o <<r>>
<1>1. Answer(field, value) = <<r>> /\ r.field = field
  BY DEF Answer
<1> HIDE DEF r
<1> DEFINE S == Partials \cup {r}
<1>2. w \in Seq(S) /\ <<r>> \in Seq(S)
  <2>1. w \in Seq(Partials)
    BY DEF Shown
  <2> QED
    BY <2>1
<1> HIDE DEF S
<1>3. Len(<<r>>) = 1 /\ <<r>>[1] = r
  OBVIOUS
<1>4. /\ Len(w) \in Nat /\ v \in Seq(S) /\ Len(v) = Len(w) + 1
      /\ \A i \in 1..Len(w) : v[i] = w[i]
      /\ v[Len(w) + 1] = r
  <2>1. /\ w \o <<r>> \in Seq(S) /\ Len(w \o <<r>>) = Len(w) + Len(<<r>>)
        /\ \A i \in 1..Len(w) : (w \o <<r>>)[i] = w[i]
        /\ \A i \in 1..Len(<<r>>) : (w \o <<r>>)[Len(w) + i] = <<r>>[i]
    BY <1>2, JoinOf
  <2>2. 1 \in 1..Len(<<r>>) /\ Len(w) \in Nat
    BY <1>2, <1>3
  <2> QED
    BY <1>3, <2>1, <2>2
<1> HIDE DEF v
<1>5. \A i \in 1..Len(w) : w[i].field = "partial"
  <2>1. \A i \in 1..Len(w) : w[i] \in Partials
    BY DEF Shown
  <2>2. \A p \in Partials : p.field = "partial"
    BY DEF Partials
  <2> QED
    BY <2>1, <2>2
<1>6. Answered(v)
  <2>1. Len(v) \in Nat \ {0} /\ Len(v) - 1 = Len(w)
    BY <1>4
  <2>2. v[Len(v)].field = field
    BY <1>1, <1>4
  <2> QED
    BY <1>4, <1>5, <2>1, <2>2 DEF Answered
<1>7. Answered(<<r>>)
  BY <1>1, <1>3 DEF Answered
<1>8. ASSUME field # "error" PROVE None(v, {"error"}) /\ None(<<r>>, {"error"})
  <2>1. \A i \in 1..Len(v) : i \in 1..Len(w) \/ i = Len(w) + 1
    BY <1>4
  <2>2. None(v, {"error"})
    BY <1>1, <1>4, <1>5, <1>8, <2>1 DEF None
  <2>3. None(<<r>>, {"error"})
    BY <1>1, <1>3, <1>8 DEF None
  <2> QED
    BY <2>2, <2>3
<1> QED
  BY <1>1, <1>6, <1>7, <1>8, Zenon DEF v

\* What stays of the invariant when a handler that is not a relay answers.
LEMMA AnswerKeeps ==
    ASSUME StreamIInv, at = "end", at' = "done", ~Is({"chat", "responses"}),
           UNCHANGED <<stream, read, chunk, gone, stop, forwarded, framer, delivered, consumer>>,
           Len(results') \in 0..Count, \E S : results' \in Seq(S),
           (Answered(out') /\ (Served' => None(out', {"error"}))) \/ (out' \in Shown /\ gone)
    PROVE  StreamIInv'
<1>1. StreamTypeOK'
  BY DEF StreamIInv, StreamTypeOK
<1>2. LoopInv' /\ FrameInv'
  BY DEF StreamIInv, LoopInv, FrameInv
<1>3. FramedWhole'
  BY WholeKept DEF StreamIInv
<1>4. RelayInv'
  BY DEF StreamIInv, RelayInv, Is
<1>5. ~(Is({"chat"})') /\ ReplyInv'
  BY DEF StreamIInv, ReplyInv, Is, Shown
<1> QED
  BY <1>1, <1>2, <1>3, <1>4, <1>5 DEF StreamIInv

\* The end of an aggregation.
LEMMA EndAggregateKeeps ==
    ASSUME StreamIInv, EndAggregate
    PROVE  StreamIInv'
<1>1. /\ at = "end" /\ Is({"aggregate", "completion"}) /\ at' = "done"
      /\ UNCHANGED <<stream, read, chunk, gone, stop, forwarded, framer, delivered, consumer, results>>
  BY Zenon DEF EndAggregate, Done
<1>2. \/ out' = Answer("error", << >>) /\ ~(Served')
      \/ \E v : out' = Answer("reply", v)
  <2> DEFINE response == FinalResponse(consumer)
  <2> DEFINE broken == stop # "complete"
  <2> DEFINE refused == Is({"completion"}) /\ response.status \in {"failed", "cancelled"}
  <2> DEFINE marked == Is({"aggregate"}) /\ response.status \in {"failed", "incomplete"}
  <2> DEFINE error == IF broken THEN stop ELSE IF refused \/ marked THEN response.status ELSE ""
  <2> DEFINE usage == IF broken \/ refused THEN 0 ELSE response.usage
  <2> DEFINE reply == IF Is({"completion"}) THEN ChatCompletion(response) ELSE response.output
  <2>1. /\ out' = IF broken \/ refused THEN Answer("error", << >>) ELSE Answer("reply", reply)
        /\ entry' = [error |-> error, usage |-> usage]
    BY Zenon DEF EndAggregate, Done
  <2>2. broken \/ refused => error # ""
    <3>1. stop # ""
      BY Zenon DEF StreamIInv, StreamTypeOK
    <3> QED
      BY <3>1, Zenon
  <2> HIDE DEF error, usage, reply
  <2>3. entry'.error = error
    BY <2>1
  <2> QED
    BY <2>1, <2>2, <2>3, Zenon DEF Served
<1>3. << >> \in Shown
  BY DEF Shown
<1>4. Answered(out') /\ (Served' => None(out', {"error"}))
  <2>1. CASE out' = Answer("error", << >>) /\ ~(Served')
    BY <1>3, <2>1, AnswerIs
  <2>2. CASE \E v : out' = Answer("reply", v)
    <3>1. PICK v : out' = Answer("reply", v)
      BY <2>2
    <3>2. Answered(Answer("reply", v)) /\ None(Answer("reply", v), {"error"})
      BY <1>3, AnswerIs
    <3> QED
      BY <3>1, <3>2
  <2> QED
    BY <1>2, <2>1, <2>2
<1>5. ~Is({"chat", "responses"})
  BY <1>1 DEF Is
<1>6. Len(results') \in 0..Count /\ \E S : results' \in Seq(S)
  BY <1>1 DEF StreamIInv, StreamTypeOK, LoopInv
<1> QED
  BY <1>1, <1>4, <1>5, <1>6, AnswerKeeps

\* The end of an image stream.
LEMMA EndImageKeeps ==
    ASSUME StreamIInv, EndImage
    PROVE  StreamIInv'
<1>1. /\ at = "end" /\ Is({"image"}) /\ at' = "done"
      /\ UNCHANGED <<stream, read, chunk, gone, stop, forwarded, framer, delivered, consumer, results>>
      /\ \/ out' = out \o IF gone THEN << >> ELSE Answer("completed", ImageItems(consumer)[1].payload)
         \/ /\ out' = out \o IF gone THEN << >> ELSE Answer("error", "")
            /\ entry' = [error |-> "image", usage |-> 0]
  BY Zenon DEF EndImage, Done
<1>2. out \in Shown
  BY <1>1 DEF StreamIInv, ReplyInv, Is, Shown
<1>3. [error |-> "image", usage |-> 0].error = "image" /\ "image" # ""
  <2>1. "image" # ""
    BY Zenon
  <2>2. [error |-> "image", usage |-> 0].error = "image"
    OBVIOUS
  <2> QED
    BY <2>1, <2>2, Zenon
<1>4. (Answered(out') /\ (Served' => None(out', {"error"}))) \/ (out' \in Shown /\ gone)
  <2>1. CASE gone
    <3>1. out' = out \o << >>
      BY <1>1, <2>1, Zenon
    <3>2. out \o << >> = out
      BY <1>2 DEF Shown
    <3> QED
      BY <1>2, <2>1, <3>1, <3>2, Zenon
  <2>2. CASE ~gone
    <3>1. PICK e : e = ""
      OBVIOUS
    <3>2. \/ out' = out \o Answer("completed", ImageItems(consumer)[1].payload)
          \/ out' = out \o Answer("error", e) /\ ~(Served')
      BY <1>1, <1>3, <2>2, <3>1, Zenon DEF Served
    <3> HIDE <3>1
    <3>3. /\ Answered(out \o Answer("completed", ImageItems(consumer)[1].payload))
          /\ None(out \o Answer("completed", ImageItems(consumer)[1].payload), {"error"})
          /\ Answered(out \o Answer("error", e))
      BY <1>2, AnswerIs
    <3> QED
      BY <3>2, <3>3, Zenon
  <2> QED
    BY <2>1, <2>2
<1>5. ~Is({"chat", "responses"})
  BY <1>1 DEF Is
<1>6. Len(results') \in 0..Count /\ \E S : results' \in Seq(S)
  BY <1>1 DEF StreamIInv, StreamTypeOK, LoopInv
<1> QED
  BY <1>1, <1>4, <1>5, <1>6, AnswerKeeps

\* One image more.
LEMMA CollectedIs ==
    ASSUME StreamIInv, Len(results) + 1 <= Count
    PROVE  Len(Collected) = Len(results) + 1 /\ Len(Collected) \in 0..Count /\ \E S : Collected \in Seq(S)
<1> DEFINE image == [payload |-> ImageItems(consumer)[1].payload, usage |-> consumer.completed.usage,
                     meant |-> [image |-> stream.answer.image, usage |-> stream.usage]]
<1>1. Collected = Append(results, image)
  BY Zenon DEF Collected
<1> HIDE DEF image
<1>2. PICK R : results \in Seq(R)
  BY DEF StreamIInv, LoopInv
<1> DEFINE S == R \cup {image}
<1>3. results \in Seq(S) /\ image \in S
  BY <1>2
<1> HIDE DEF S
<1>4. Append(results, image) \in Seq(S) /\ Len(Append(results, image)) = Len(results) + 1
  BY <1>3, OneMore
<1>5. Len(results) \in Nat /\ Count \in Nat
  <2>1. Count \in Nat
    BY StreamAssumption
  <2> QED
    BY <1>3, <2>1
<1>6. Len(results) + 1 \in 0..Count
  BY <1>5
<1> QED
  BY <1>1, <1>4, <1>6, Zenon

\* The end of the last image, or of one that has failed.
LEMMA EndImagesKeeps ==
    ASSUME StreamIInv, EndImages
    PROVE  StreamIInv'
<1>1. /\ at = "end" /\ Is({"images"}) /\ at' = "done"
      /\ UNCHANGED <<stream, read, chunk, gone, stop, forwarded, framer, delivered, consumer>>
      /\ \/ /\ Len(results) + 1 = Count /\ results' = Collected
            /\ out' = Answer("reply", [i \in 1..Count |-> Collected[i].payload])
         \/ /\ results' = results /\ out' = Answer("error", << >>)
            /\ entry' = [error |-> "image", usage |-> 0]
  BY Zenon DEF EndImages, Done
<1>2. [error |-> "image", usage |-> 0].error = "image" /\ "image" # ""
  <2>1. "image" # ""
    BY Zenon
  <2>2. [error |-> "image", usage |-> 0].error = "image"
    OBVIOUS
  <2> QED
    BY <2>1, <2>2, Zenon
<1>3. << >> \in Shown
  BY DEF Shown
<1>4. Answered(out') /\ (Served' => None(out', {"error"}))
  <2> DEFINE v == [i \in 1..Count |-> Collected[i].payload]
  <2> HIDE DEF v
  <2>1. Answered(Answer("error", << >>)) /\ Answered(Answer("reply", v)) /\ None(Answer("reply", v), {"error"})
    BY <1>3, AnswerIs
  <2> QED
    BY <1>1, <1>2, <2>1, Zenon DEF v, Served
<1>5. ~Is({"chat", "responses"})
  BY <1>1 DEF Is
<1>6. Len(results') \in 0..Count /\ \E S : results' \in Seq(S)
  <2>1. CASE results' = results
    BY <2>1 DEF StreamIInv, StreamTypeOK, LoopInv
  <2>2. CASE Len(results) + 1 = Count /\ results' = Collected
    <3>1. Len(results) + 1 <= Count
      <4>1. Count \in Nat
        BY StreamAssumption
      <4> QED
        BY <2>2, <4>1
    <3> QED
      BY <2>2, <3>1, CollectedIs
  <2> QED
    BY <1>1, <2>1, <2>2
<1> QED
  BY <1>1, <1>4, <1>5, <1>6, AnswerKeeps

\* Another image.
LEMMA NextImageKeeps ==
    ASSUME StreamIInv, NextImage
    PROVE  StreamIInv'
<1>1. /\ at = "end" /\ Is({"images"}) /\ Len(results) + 1 < Count /\ results' = Collected
      /\ read' = 0 /\ chunk' = << >> /\ framer' = NewFramer /\ delivered' = << >>
      /\ consumer' = NewImage /\ at' = "read" /\ stop' = "none"
      /\ UNCHANGED <<gone, out, forwarded, entry>>
  BY DEF NextImage
<1>2. PICK s \in Streams : s.mode = "images" /\ stream' = s
  BY DEF NextImage
<1>3. s.mode \in Modes /\ s.wire \in Octets
  BY StreamAssumption DEF Octets
<1>4. NewFramer \in Framer /\ << >> \in Texts /\ Framed(NewFramer, << >>, s.wire, 0)
  BY <1>3, FramedNew
<1>5. consumer' \in Consumers(s.mode) /\ consumer'.wrote = << >>
  <2>1. NewConsumer("images") = NewImage
    BY DEF NewConsumer
  <2>2. NewConsumer(s.mode) \in Consumers(s.mode)
    BY <1>3, NewConsumerType
  <2>3. NewImage.wrote = << >>
    BY DEF NewImage
  <2> QED
    BY <1>1, <1>2, <2>1, <2>2, <2>3, Zenon
<1>6. Len(results') \in 0..Count /\ \E S : results' \in Seq(S)
  <2>1. Len(results) + 1 <= Count
    <3>1. Count \in Nat /\ Len(results) \in Nat
      <4>1. Count \in Nat
        BY StreamAssumption
      <4>2. Len(results) \in 0..Count
        BY DEF StreamIInv, StreamTypeOK
      <4> QED
        BY <4>1, <4>2
    <3> QED
      BY <1>1, <3>1
  <2> QED
    BY <1>1, <2>1, CollectedIs
<1>7. forwarded = 0 /\ out \in Seq(Partials)
  BY <1>1 DEF StreamIInv, RelayInv, ReplyInv, Is
<1>8. Len(s.wire) \in Nat
  BY <1>3 DEF Octets
<1>9. StreamTypeOK'
  <2>1. delivered' \in Seq(Seq(Words)) /\ framer' \in Framer
    BY <1>1, <1>4
  <2>2. read' \in 0..Len(s.wire) /\ forwarded' \in 0..read'
    BY <1>1, <1>7, <1>8
  <2>3. gone' \in BOOLEAN
    BY <1>1 DEF StreamIInv, StreamTypeOK
  <2> QED
    BY <1>1, <1>2, <1>5, <1>6, <2>1, <2>2, <2>3 DEF StreamTypeOK
<1>10. chunk' \in Octets /\ Len(chunk') = 0 /\ read' - Len(chunk') = 0
  <2>1. chunk' \in Seq(Words) /\ Len(chunk') = 0
    BY <1>1
  <2>2. read' = 0 /\ Len(chunk') = 0
    BY <1>1, <2>1, Zenon
  <2>3. read' - Len(chunk') = 0
    BY ONLY <2>2
  <2> QED
    BY <2>1, <2>3 DEF Octets
<1>11. LoopInv'
  <2>1. SubSeq(s.wire, 1, 0) = << >>
    <3>1. 0 <= Len(s.wire) /\ 1 <= 0 + 1 /\ 1 \in Nat \ {0}
      BY <1>8
    <3> QED
      BY <1>3, <3>1, PartOf DEF Octets
  <2>2. chunk' = SubSeq(s.wire, read' - Len(chunk') + 1, read')
    BY <1>1, <1>10, <2>1
  <2>3. Len(chunk') <= read'
    BY <1>1, <1>10
  <2> QED
    BY <1>1, <1>2, <1>6, <1>10, <2>2, <2>3 DEF LoopInv
<1>12. Framed(framer', delivered', s.wire, 0)
  BY <1>1, <1>4
<1>13. FrameInv'
  BY <1>1, <1>2, <1>10, <1>12 DEF FrameInv
<1>14. FramedWhole'
  <2>1. /\ IsPrefix(delivered', EventsOf(SubSeq(s.wire, 1, 0) \o <<"n", "n">>))
        /\ delivered' = EventsOf(SubSeq(s.wire, 1, 0))
    BY <1>3, <1>8, <1>12, FramedEvents
  <2> QED
    BY <1>1, <1>2, <2>1 DEF FramedWhole
<1>15. RelayInv'
  BY <1>1, <1>2, <1>7 DEF RelayInv, Is
<1>16. ~(Is({"chat"})') /\ ReplyInv'
  BY <1>1, <1>2, <1>5, <1>7 DEF ReplyInv, Is
<1> QED
  BY <1>9, <1>11, <1>13, <1>14, <1>15, <1>16 DEF StreamIInv

-----------------------------------------------------------------------------
(* The theorems. *)

\* Every step keeps the invariant.
LEMMA StreamStep ==
    ASSUME StreamIInv, [StreamNext]_streamVars
    PROVE  StreamIInv'
<1>1. ASSUME NEW n \in 1..MaxChunk, Read(n) PROVE StreamIInv'
  BY <1>1, ReadKeeps
<1>2. CASE Feed
  BY <1>2, FeedKeeps
<1>3. CASE FeedTracker
  BY <1>3, FeedTrackerKeeps
<1>4. CASE Forward
  BY <1>4, ForwardKeeps
<1>5. CASE Eof
  BY <1>5, EofKeeps
<1>6. CASE ReadFails
  BY <1>6, ReadFailsKeeps
<1>7. CASE ClientLeaves
  BY <1>7, ClientLeavesKeeps
<1>8. CASE EndResponses
  BY <1>8, EndResponsesKeeps
<1>9. CASE EndChat
  BY <1>9, EndChatKeeps
<1>10. CASE EndAggregate
  BY <1>10, EndAggregateKeeps
<1>11. CASE EndImage
  BY <1>11, EndImageKeeps
<1>12. CASE NextImage
  BY <1>12, NextImageKeeps
<1>13. CASE EndImages
  BY <1>13, EndImagesKeeps
<1>14. CASE UNCHANGED streamVars
  <2>1. UNCHANGED <<stream, read, chunk, gone, at, stop, framer, delivered, consumer, out, forwarded, results, entry>>
    BY <1>14 DEF streamVars, handler
  <2>2. StreamTypeOK' /\ LoopInv'
    BY <2>1 DEF StreamIInv, StreamTypeOK, LoopInv, Is
  <2>3. FrameInv'
    BY <2>1 DEF StreamIInv, FrameInv, Is
  <2>4. FramedWhole'
    BY <2>1, WholeKept DEF StreamIInv
  <2>5. RelayInv'
    BY <2>1 DEF StreamIInv, RelayInv, Is
  <2>6. Served' = Served
    BY <2>1, Zenon DEF Served
  <2>7. Is({"chat"})' => ChatInv'
    BY <2>1, <2>6 DEF StreamIInv, ChatInv, Is
  <2>8. ~(Is({"chat"})') => ReplyInv'
    BY <2>1, <2>6 DEF StreamIInv, ReplyInv, Is
  <2> QED
    BY <2>2, <2>3, <2>4, <2>5, <2>7, <2>8 DEF StreamIInv
<1> QED
  BY <1>1, <1>2, <1>3, <1>4, <1>5, <1>6, <1>7, <1>8, <1>9, <1>10, <1>11, <1>12, <1>13, <1>14, Zenon
     DEF StreamNext, Conclude

\* The inductive invariant: the framer stands where the loop stands and has handed on the
\* events of what it was fed, a relay is level with its reads, and what a client was sent
\* goes on as long as its consumer does and ends as it ended.
THEOREM StreamIInvHolds == StreamSpec => []StreamIInv
<1>1. StreamInit => StreamIInv
  BY StreamInitially
<1>2. StreamIInv /\ [StreamNext]_streamVars => StreamIInv'
  BY StreamStep
<1> QED
  BY <1>1, <1>2, PTL DEF StreamSpec

\* The types, and FramedWhole: whatever the bytes of the stream, the sizes of the reads
\* and where it breaks off, readSSE and the relay's tracker are handed the events that
\* the definition of a stream's events gives for what has been read.
THEOREM StreamInvHolds == StreamSpec => []StreamInv
<1>1. StreamIInv => StreamInv
  BY DEF StreamIInv, StreamInv
<1> QED
  BY <1>1, StreamIInvHolds, PTL

\* A chat client has at all times been sent a proper stream.
LEMMA ChatProper ==
    ASSUME StreamIInv, Is({"chat"})
    PROVE  Proper(out)
<1>1. at \in {"read", "feed", "end", "done"}
  BY DEF StreamIInv, StreamTypeOK, LoopInv, Is
<1>2. ChatInv
  BY DEF StreamIInv
<1>3. consumer.wrote = << >> /\ out \in Lines
  BY <1>2 DEF ChatInv
<1>4. Speaks(consumer, out) => Proper(out)
  BY <1>3, OutIs
<1>5. Told(out, stop) => Proper(out)
  BY DEF Told, Closed
<1> QED
  BY <1>1, <1>2, <1>4, <1>5 DEF ChatInv

\* The chunks of a chat stream carry one id and the first one, and no other, gives the
\* role, whatever upstream sends and in which order: EnsureRole makes up an id once.
THEOREM OneIdentityHolds == StreamSpec => []OneIdentity
<1>1. StreamIInv => OneIdentity
  <2>1. ASSUME StreamIInv, Is({"chat"})
        PROVE  \A i \in 1..Len(out) : out[i].field \notin {"error", "done"} =>
                 /\ out[i].id = out[1].id
                 /\ out[i].field = "role" <=> i = 1
    <3>1. Proper(out)
      BY <2>1, ChatProper
    <3> QED
      BY <3>1 DEF Proper
  <2> QED
    BY <2>1, Zenon DEF OneIdentity
<1> QED
  BY <1>1, StreamIInvHolds, PTL

\* The size of a set with at most one member.
LEMMA AtMostOne ==
    ASSUME NEW A, \A i, j \in A : i = j
    PROVE  Cardinality(A) \in {0, 1} /\ (A # {} => Cardinality(A) = 1)
<1>1. CASE A = {}
  BY <1>1, FS_EmptySet
<1>2. CASE A # {}
  <2>1. PICK i : i \in A
    BY <1>2
  <2>2. A = {i}
    BY <2>1
  <2> QED
    BY <2>2, FS_Singleton
<1> QED
  BY <1>1, <1>2

\* Partial images do not end a stream.
LEMMA PartialsGoOn ==
    ASSUME out \in Seq(Partials), NEW F, "partial" \notin F
    PROVE  Fields(F) = {}
<1>1. \A i \in 1..Len(out) : out[i] \in Partials
  OBVIOUS
<1>2. \A p \in Partials : p.field = "partial"
  BY DEF Partials
<1> QED
  BY <1>1, <1>2 DEF Fields

\* A client is told once, and at last, how its request ended: whatever the stream says,
\* wherever it breaks off and whenever the client leaves; and a relay has passed on all
\* that it has read.
THEOREM EndsOnceHolds == StreamSpec => []EndsOnce
<1> DEFINE Lasts == Fields({"done", "completed", "reply"})
<1> DEFINE Telling == Fields({"finish", "error", "completed", "reply"})
<1>1. StreamIInv => EndsOnce
  <2> SUFFICES ASSUME StreamIInv PROVE EndsOnce
    OBVIOUS
  <2>1. Is({"responses"}) /\ at = "done" /\ ~gone => forwarded = read
    BY DEF StreamIInv, RelayInv
  <2>2. None(out, {"error"}) => Fields({"error"}) = {}
    BY DEF None, Fields
  <2>3. Served <=> entry.error = ""
    BY Zenon DEF Served
  <2>4. CASE Is({"chat"})
    <3>1. at = "done" /\ Served => Fields({"error"}) = {}
      BY <2>2, <2>4 DEF StreamIInv, ChatInv
    <3>2. Proper(out)
      BY <2>4, ChatProper
    <3>3. \A i \in Lasts : i = Len(out)
      BY <3>2 DEF Fields, Proper, Spoken
    <3>4. \A i, j \in Telling : i = j
      BY <3>2 DEF Fields, Proper, Spoken
    <3>5. at = "done" /\ ~gone => Closed(out)
      BY <2>4 DEF StreamIInv, ChatInv
    <3>6. Closed(out) => Telling # {}
      BY DEF Closed, Fields
    <3>7. Closed(out) => Last(out).field = "done"
      BY DEF Closed, Last
    <3>8. ~Is({"responses"})
      BY <2>4 DEF Is
    <3> HIDE DEF Lasts, Telling
    <3>9. Cardinality(Telling) \in {0, 1} /\ (Telling # {} => Cardinality(Telling) = 1)
      BY <3>4, AtMostOne
    <3>10. Cardinality(Telling) <= 1
      BY <3>9
    <3>11. at = "done" /\ ~gone => Cardinality(Telling) = 1 /\ Last(out).field = "done"
      BY <3>5, <3>6, <3>7, <3>9
    <3> QED
      BY <2>3, <3>1, <3>3, <3>8, <3>10, <3>11, Zenon DEF EndsOnce, Lasts, Telling
  <2>5. CASE ~Is({"chat"})
    <3>1. \/ Answered(out) /\ (at = "done" /\ Served => Fields({"error"}) = {})
          \/ (out \in Seq(Partials) /\ (at = "done" => gone \/ Is({"responses"})))
      BY <2>2, <2>5 DEF StreamIInv, ReplyInv
    <3>2. CASE out \in Seq(Partials) /\ (at = "done" => gone \/ Is({"responses"}))
      <4>1. Lasts = {} /\ Telling = {} /\ Fields({"error"}) = {}
        BY <3>2, PartialsGoOn
      <4> HIDE DEF Lasts, Telling
      <4>2. Cardinality(Telling) = 0
        BY <4>1, FS_EmptySet
      <4>3. Cardinality(Telling) <= 1
        BY <4>2
      <4> QED
        BY <2>1, <2>5, <3>2, <4>1, <4>3, Zenon DEF EndsOnce, Lasts, Telling
    <3>3. CASE Answered(out) /\ (at = "done" /\ Served => Fields({"error"}) = {})
      <4>1. \A i \in 1..Len(out) : i = Len(out) \/ out[i].field = "partial"
        BY <3>3 DEF Answered
      <4>2. \A i \in Lasts : i = Len(out)
        BY <4>1 DEF Fields
      <4>3. \A i \in Telling : i = Len(out)
        BY <4>1 DEF Fields
      <4>4. Len(out) \in Telling
        BY <3>3 DEF Answered, Fields
      <4> HIDE DEF Lasts, Telling
      <4>5. Cardinality(Telling) = 1
        BY <4>3, <4>4, AtMostOne
      <4>6. Cardinality(Telling) <= 1
        BY <4>5
      <4> QED
        BY <2>1, <2>3, <2>5, <3>3, <4>2, <4>5, <4>6, Zenon DEF EndsOnce, Lasts, Telling
    <3> QED
      BY <3>1, <3>2, <3>3
  <2> QED
    BY <2>4, <2>5
<1> QED
  BY <1>1, StreamIInvHolds, PTL

=============================================================================
