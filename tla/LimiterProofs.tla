---------------------------- MODULE LimiterProofs ----------------------------
(* Proofs about Limiter, for every cap and every number of requests. *)
EXTENDS Limiter, FiniteSetTheorems, SequenceTheorems, TLAPS

Holders == At({"granted", "holding"})

Waiters == At({"queued", "parked", "granted", "failed"})

\* Every part of Callers has a size.
LEMMA Sizes ==
    ASSUME NEW T \in SUBSET Callers
    PROVE  IsFiniteSet(T) /\ Cardinality(T) \in Nat
BY LimiterAssumption, FS_Subset, FS_CardinalityType

\* A newcomer makes it larger by one.
LEMMA OneIn ==
    ASSUME NEW T \in SUBSET Callers, NEW c \in Callers, c \notin T
    PROVE  Cardinality(T \cup {c}) = Cardinality(T) + 1
BY Sizes, FS_AddElement

\* A leaver makes it smaller by one.
LEMMA OneOut ==
    ASSUME NEW T \in SUBSET Callers, NEW c \in T
    PROVE  Cardinality(T \ {c}) = Cardinality(T) - 1 /\ Cardinality(T) > 0
<1>1. IsFiniteSet(T \ {c}) /\ Cardinality(T \ {c}) = Cardinality(T) - 1
  BY Sizes, FS_RemoveElement
<1>2. Cardinality(T \ {c}) \in Nat /\ Cardinality(T) \in Nat
  BY <1>1, Sizes
<1> QED
  BY <1>1, <1>2

\* What leaving the middle of the line does to it.
LEMMA RemoveAtElements ==
    ASSUME NEW s \in Seq(Callers), NEW i \in 1..Len(s)
    PROVE  /\ RemoveAt(s, i) \in Seq(Callers)
           /\ Len(RemoveAt(s, i)) = Len(s) - 1
           /\ \A j \in 1..(Len(s) - 1) : RemoveAt(s, i)[j] = IF j < i THEN s[j] ELSE s[j + 1]
<1> DEFINE a == SubSeq(s, 1, i - 1)
<1> DEFINE b == SubSeq(s, i + 1, Len(s))
<1>0. Len(s) \in Nat /\ i \in Int /\ \A j \in 1..Len(s) : s[j] \in Callers
  OBVIOUS
<1>1. a \in Seq(Callers) /\ Len(a) = i - 1 /\ \A j \in 1..(i - 1) : a[j] = s[j]
  <2>1. \A j \in 1..(i - 1) : s[j] \in Callers
    BY <1>0
  <2>2. /\ a \in Seq(Callers)
        /\ Len(a) = IF 1 <= i - 1 THEN (i - 1) - 1 + 1 ELSE 0
        /\ \A j \in 1..((i - 1) - 1 + 1) : a[j] = s[1 + j - 1]
    BY <1>0, <2>1, SubSeqProperties
  <2> QED
    BY <1>0, <2>2
<1>2. b \in Seq(Callers) /\ Len(b) = Len(s) - i /\ \A j \in 1..(Len(s) - i) : b[j] = s[i + j]
  <2>1. \A j \in (i + 1)..Len(s) : s[j] \in Callers
    BY <1>0
  <2>2. /\ b \in Seq(Callers)
        /\ Len(b) = IF i + 1 <= Len(s) THEN Len(s) - (i + 1) + 1 ELSE 0
        /\ \A j \in 1..(Len(s) - (i + 1) + 1) : b[j] = s[(i + 1) + j - 1]
    BY <1>0, <2>1, SubSeqProperties
  <2> QED
    BY <1>0, <2>2
<1> HIDE DEF a, b
<1>3. /\ a \o b \in Seq(Callers)
      /\ Len(a \o b) = Len(a) + Len(b)
      /\ \A j \in 1..(Len(a) + Len(b)) : (a \o b)[j] = IF j <= Len(a) THEN a[j] ELSE b[j - Len(a)]
  BY <1>1, <1>2, ConcatProperties
<1>4. RemoveAt(s, i) = a \o b
  BY DEF RemoveAt, a, b
<1>5. Len(a \o b) = Len(s) - 1
  BY <1>0, <1>1, <1>2, <1>3
<1>6. ASSUME NEW j \in 1..(Len(s) - 1) PROVE (a \o b)[j] = IF j < i THEN s[j] ELSE s[j + 1]
  <2>1. (a \o b)[j] = IF j <= Len(a) THEN a[j] ELSE b[j - Len(a)]
    BY <1>0, <1>1, <1>2, <1>3
  <2>2. CASE j < i
    BY <1>0, <1>1, <2>1, <2>2
  <2>3. CASE ~(j < i)
    <3>1. j - Len(a) \in 1..(Len(s) - i) /\ ~(j <= Len(a)) /\ i + (j - Len(a)) = j + 1
      BY <1>0, <1>1, <2>3
    <3> QED
      BY <1>2, <2>1, <2>3, <3>1
  <2> QED
    BY <2>2, <2>3
<1> QED
  BY <1>3, <1>4, <1>5, <1>6

-----------------------------------------------------------------------------
\* The initial state satisfies the invariant.
LEMMA LimiterInitInv == LimiterInit => LimiterInv
<1> SUFFICES ASSUME LimiterInit PROVE LimiterInv
  OBVIOUS
<1>1. Holders = {} /\ Waiters = {}
  BY DEF LimiterInit, Holders, Waiters, At
<1>2. LimiterTypeOK /\ NoIdleSlot /\ ParkedInLine
  BY LimiterAssumption DEF LimiterInit, LimiterTypeOK, NoIdleSlot, ParkedInLine, Places
<1> QED
  BY <1>1, <1>2, FS_EmptySet DEF LimiterInit, LimiterInv, SlotsAreHeld, QueuedAreWaiting, Holders, Waiters

\* Each action moves one caller in or out of the two counts.
LEMMA LimiterStepInv ==
    ASSUME LimiterInv, LimiterNext
    PROVE  LimiterInv'
<1> USE LimiterAssumption
<1>0. /\ LimiterTypeOK /\ NoIdleSlot /\ ParkedInLine
      /\ MaxSlots > 0 => slots = Cardinality(Holders)
      /\ queued = Cardinality(Waiters)
      /\ Holders \subseteq Callers /\ Waiters \subseteq Callers
  BY DEF LimiterInv, SlotsAreHeld, QueuedAreWaiting, Holders, Waiters, At
<1> USE <1>0 DEF LimiterTypeOK, Places
<1>0a. Holders' \subseteq Callers /\ Waiters' \subseteq Callers
  BY DEF Holders, Waiters, At
<1>00. /\ Cardinality(Holders) \in Nat /\ Cardinality(Waiters) \in Nat
       /\ Cardinality(Holders)' \in Nat /\ Cardinality(Waiters)' \in Nat
  BY Sizes, <1>0a
<1> DEFINE Counts == /\ MaxSlots > 0 => slots = Cardinality(Holders)
                     /\ queued = Cardinality(Waiters)
<1>goal. SUFFICES Counts' /\ LimiterTypeOK' /\ NoIdleSlot' /\ ParkedInLine'
  BY DEF LimiterInv, SlotsAreHeld, QueuedAreWaiting, Holders, Waiters
<1>1. ASSUME NEW c \in Callers, TakeNow(c)
      PROVE  Counts' /\ LimiterTypeOK' /\ NoIdleSlot' /\ ParkedInLine'
  <2> USE <1>1 DEF TakeNow
  <2>1. Holders' = Holders \cup {c} /\ c \notin Holders /\ Waiters' = Waiters
    BY DEF Holders, Waiters, At
  <2>2. Counts'
    BY <2>1, OneIn, <1>00 DEF OneMore
  <2> QED
    BY <2>2 DEF OneMore, Free, NoIdleSlot, ParkedInLine
<1>2. ASSUME NEW c \in Callers, Queue(c)
      PROVE  Counts' /\ LimiterTypeOK' /\ NoIdleSlot' /\ ParkedInLine'
  <2> USE <1>2 DEF Queue
  <2>1. Holders' = Holders /\ c \notin Waiters /\ Waiters' = Waiters \cup {c}
    BY DEF Holders, Waiters, At
  <2>2. Counts'
    BY <2>1, OneIn, <1>00
  <2> QED
    BY <2>2 DEF Free, NoIdleSlot, ParkedInLine
<1>3. ASSUME NEW c \in Callers, SelectSlot(c)
      PROVE  Counts' /\ LimiterTypeOK' /\ NoIdleSlot' /\ ParkedInLine'
  <2> USE <1>3 DEF SelectSlot
  <2>1. Holders' = Holders \cup {c} /\ c \notin Holders /\ Waiters' = Waiters
    BY DEF Holders, Waiters, At
  <2>2. Counts'
    BY <2>1, OneIn, <1>00 DEF OneMore
  <2> QED
    BY <2>2 DEF OneMore, Free, NoIdleSlot, ParkedInLine
<1>4. ASSUME NEW c \in Callers, Park(c)
      PROVE  Counts' /\ LimiterTypeOK' /\ NoIdleSlot' /\ ParkedInLine'
  <2> USE <1>4 DEF Park
  <2>1. Holders' = Holders /\ Waiters' = Waiters
    BY DEF Holders, Waiters, At
  <2>2. /\ sendq' \in Seq(Callers) /\ Len(sendq') = Len(sendq) + 1
        /\ \A i \in 1..Len(sendq) : sendq'[i] = sendq[i]
        /\ sendq'[Len(sendq) + 1] = c
    BY AppendProperties
  <2>3. ParkedInLine'
    BY <2>2 DEF ParkedInLine
  <2> QED
    BY <2>1, <2>2, <2>3 DEF NoIdleSlot, Free
<1>5. ASSUME NEW c \in Callers, GiveUpAtOnce(c)
      PROVE  Counts' /\ LimiterTypeOK' /\ NoIdleSlot' /\ ParkedInLine'
  <2> USE <1>5 DEF GiveUpAtOnce
  <2>1. Holders' = Holders /\ Waiters' = Waiters
    BY DEF Holders, Waiters, At
  <2> QED
    BY <2>1 DEF Free, NoIdleSlot, ParkedInLine
<1>6. ASSUME NEW c \in Callers, GiveUpParked(c)
      PROVE  Counts' /\ LimiterTypeOK' /\ NoIdleSlot' /\ ParkedInLine'
  <2> USE <1>6 DEF GiveUpParked
  <2>1. Holders' = Holders /\ Waiters' = Waiters
    BY DEF Holders, Waiters, At
  <2>2. PICK i \in 1..Len(sendq) : sendq[i] = c /\ sendq' = RemoveAt(sendq, i)
    OBVIOUS
  <2>3. /\ sendq' \in Seq(Callers) /\ Len(sendq') = Len(sendq) - 1
        /\ \A j \in 1..(Len(sendq) - 1) : sendq'[j] = IF j < i THEN sendq[j] ELSE sendq[j + 1]
    BY <2>2, RemoveAtElements
  <2>4. ParkedInLine'
    <3> DEFINE from(j) == IF j < i THEN j ELSE j + 1
    <3>1. ASSUME NEW j \in 1..Len(sendq')
          PROVE  from(j) \in 1..Len(sendq) /\ from(j) # i /\ sendq'[j] = sendq[from(j)]
      BY <2>3
    <3>2. ASSUME NEW j \in 1..Len(sendq') PROVE place'[sendq'[j]] = "parked"
      <4>1. sendq[from(j)] # c /\ place[sendq[from(j)]] = "parked" /\ sendq[from(j)] \in Callers
        BY <2>2, <3>1 DEF ParkedInLine
      <4> QED
        BY <3>1, <4>1
    <3>3. ASSUME NEW j \in 1..Len(sendq'), NEW k \in 1..Len(sendq'), sendq'[j] = sendq'[k] PROVE j = k
      <4>0. /\ from(j) \in 1..Len(sendq) /\ from(k) \in 1..Len(sendq)
            /\ sendq[from(j)] = sendq[from(k)]
        BY <3>1, <3>3
      <4>00. \A a, b \in 1..Len(sendq) : sendq[a] = sendq[b] => a = b
        BY DEF ParkedInLine
      <4>1. from(j) = from(k)
        <5> HIDE DEF from
        <5> QED
          BY <4>0, <4>00
      <4> QED
        BY <4>1, <2>3
    <3> QED
      BY <3>2, <3>3 DEF ParkedInLine
  <2>5. NoIdleSlot'
    BY <2>2 DEF NoIdleSlot, Free
  <2> QED
    BY <2>1, <2>3, <2>4, <2>5
<1>7. ASSUME NEW c \in Callers, Dequeue(c)
      PROVE  Counts' /\ LimiterTypeOK' /\ NoIdleSlot' /\ ParkedInLine'
  <2> USE <1>7 DEF Dequeue
  <2>1. Holders' = Holders /\ c \in Waiters /\ Waiters' = Waiters \ {c}
    BY DEF Holders, Waiters, At
  <2>2. Counts'
    BY <2>1, OneOut, <1>00
  <2> QED
    BY <2>2, <1>00 DEF Free, NoIdleSlot, ParkedInLine
<1>8. ASSUME NEW c \in Callers, Release(c), sendq = << >>
      PROVE  Counts' /\ LimiterTypeOK' /\ NoIdleSlot' /\ ParkedInLine'
  <2> USE <1>8 DEF Release
  <2>1. Holders' = Holders \ {c} /\ c \in Holders /\ Waiters' = Waiters
    BY DEF Holders, Waiters, At
  <2>2. Counts' /\ (MaxSlots > 0 => slots > 0)
    BY <2>1, OneOut, <1>00
  <2> QED
    BY <2>2 DEF NoIdleSlot, ParkedInLine
<1>9. ASSUME NEW c \in Callers, Release(c), sendq # << >>
      PROVE  Counts' /\ LimiterTypeOK' /\ NoIdleSlot' /\ ParkedInLine'
  <2> DEFINE h == Head(sendq)
  <2>1. /\ h \in Callers /\ h = sendq[1]
        /\ sendq' \in Seq(Callers) /\ Len(sendq') = Len(sendq) - 1
        /\ \A i \in 1..Len(sendq') : sendq'[i] = sendq[i + 1]
    <3>1. sendq \in Seq(Callers) /\ sendq # << >> /\ sendq' = Tail(sendq)
      BY <1>9 DEF Release
    <3> QED
      BY <3>1, HeadTailProperties
  <2>2. place[h] = "parked" /\ place[c] = "holding" /\ Len(sendq) > 0
    BY <1>9, <2>1 DEF ParkedInLine, Release
  <2>3. /\ place' = [place EXCEPT ![c] = "out", ![h] = "granted"]
        /\ slots' = slots /\ queued' = queued
    BY <1>9 DEF Release
  <2> HIDE DEF h
  <2>4. c \in Holders /\ h \notin Holders \ {c} /\ Holders' = (Holders \ {c}) \cup {h} /\ Waiters' = Waiters
    BY <2>1, <2>2, <2>3 DEF Holders, Waiters, At
  <2>5. Cardinality(Holders \ {c}) = Cardinality(Holders) - 1
    BY <2>4, OneOut
  <2>6. Cardinality((Holders \ {c}) \cup {h}) = Cardinality(Holders \ {c}) + 1
    <3>1. Holders \ {c} \in SUBSET Callers
      BY DEF Holders, At
    <3> QED
      BY <2>1, <2>4, <3>1, OneIn
  <2>7. Counts'
    BY <2>3, <2>4, <2>5, <2>6, <1>00
  <2>8. ParkedInLine'
    <3>1. ASSUME NEW j \in 1..Len(sendq') PROVE place'[sendq'[j]] = "parked"
      <4>1. j + 1 \in 1..Len(sendq) /\ 1 \in 1..Len(sendq) /\ j + 1 # 1
        BY <2>1, <2>2
      <4>2. sendq[j + 1] # h /\ place[sendq[j + 1]] = "parked" /\ sendq[j + 1] \in Callers
        BY <2>1, <4>1 DEF ParkedInLine
      <4> QED
        BY <2>1, <2>2, <2>3, <4>2
    <3>2. ASSUME NEW j \in 1..Len(sendq'), NEW k \in 1..Len(sendq'), sendq'[j] = sendq'[k] PROVE j = k
      <4>1. j + 1 \in 1..Len(sendq) /\ k + 1 \in 1..Len(sendq) /\ sendq[j + 1] = sendq[k + 1]
        BY <2>1, <3>2
      <4> QED
        BY <4>1 DEF ParkedInLine
    <3> QED
      BY <3>1, <3>2 DEF ParkedInLine
  <2> QED
    BY <2>1, <2>3, <2>7, <2>8, <1>9 DEF NoIdleSlot, Free
<1> QED
  BY <1>1, <1>2, <1>3, <1>4, <1>5, <1>6, <1>7, <1>8, <1>9 DEF LimiterNext, Waiting

\* The cap is kept and no slot leaks or idles, however each wait ends.
THEOREM LimiterInvariance == LimiterSpec => []LimiterInv
<1>1. LimiterInv /\ UNCHANGED limiterVars => LimiterInv'
  BY DEF LimiterInv, limiterVars, LimiterTypeOK, SlotsAreHeld, QueuedAreWaiting, NoIdleSlot,
         ParkedInLine, At, Free
<1> QED
  BY LimiterInitInv, LimiterStepInv, <1>1, PTL DEF LimiterSpec

\* Slots are granted first come first served.
THEOREM FirstComeFirstServed == LimiterSpec => NoOvertaking
<1> DEFINE Fair(c) == /\ place[c] = "out" /\ place'[c] = "holding" => sendq = << >>
                      /\ place[c] = "parked" /\ place'[c] = "granted" => c = Head(sendq)
<1>1. ASSUME LimiterInv, LimiterNext, NEW c \in Callers PROVE Fair(c)
  <2>1. place \in [Callers -> Places] /\ NoIdleSlot
    BY <1>1 DEF LimiterInv, LimiterTypeOK
  <2>2. PICK d \in Callers : TakeNow(d) \/ Queue(d) \/ Waiting(d) \/ Release(d)
    BY <1>1 DEF LimiterNext
  <2>3. CASE TakeNow(d)
    BY <2>1, <2>3 DEF TakeNow, NoIdleSlot
  <2>4. CASE Queue(d)
    BY <2>1, <2>4 DEF Queue
  <2>5. CASE Waiting(d)
    BY <2>1, <2>5 DEF Waiting, SelectSlot, Park, GiveUpAtOnce, GiveUpParked, Dequeue
  <2>6. CASE Release(d)
    BY <2>1, <2>6 DEF Release
  <2> QED
    BY <2>2, <2>3, <2>4, <2>5, <2>6
<1>2. LimiterInv /\ [LimiterNext]_limiterVars => [\A c \in Callers : Fair(c)]_limiterVars
  BY <1>1
<1> QED
  BY LimiterInvariance, <1>2, PTL DEF LimiterSpec, NoOvertaking
=============================================================================
