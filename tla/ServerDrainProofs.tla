-------------------------- MODULE ServerDrainProofs --------------------------
(* Proofs about ServerDrain, for every number of handlers and sockets and every
   cap of the limiter. *)
EXTENDS ServerDrain, LimiterProofs

\* The initial state satisfies the invariant.
LEMMA DrainInitInv == DrainInit => DrainInv
<1> SUFFICES ASSUME DrainInit PROVE DrainInv
  OBVIOUS
<1>1. LimiterInv /\ LimiterTypeOK
  BY LimiterInitInv DEF DrainInit, LimiterInv
<1>2. Inside = {}
  BY DEF DrainInit, Inside
<1>3. DoneMeansEmpty
  BY <1>2, FS_EmptySet DEF DrainInit, DoneMeansEmpty
<1>4. DrainTypeOK
  BY <1>1 DEF DrainInit, DrainTypeOK, Stages, Phases
<1>5. StageInv /\ PhaseInv /\ RecordInv
  BY DEF DrainInit, LimiterInit, StageInv, PhaseInv, RecordInv, Recorded
<1> QED
  BY <1>1, <1>3, <1>4, <1>5 DEF DrainInv

\* Every step is a step of the limiter or leaves it alone.
LEMMA LimiterKept ==
    ASSUME LimiterInv, DrainNext
    PROVE  LimiterInv'
<1>1. LimiterNext \/ UNCHANGED limiterVars
  BY DEF DrainNext, HandlerStep, ServeStep, LimiterNext, Waiting, handlerVars,
         Admit, Refuse, Reject, Enter, Wait, Acquired, Hijack, EndSession, EndWork, Finish, Leave,
         Stop, Drain, DrainExpires, ShutdownReturns, ShutdownTimesOut, Done, CancelWork,
         CleanupTimesOut, Return, CloseLog
<1>2. ASSUME UNCHANGED limiterVars PROVE LimiterInv'
  BY <1>2 DEF LimiterInv, limiterVars, LimiterTypeOK, SlotsAreHeld, QueuedAreWaiting, NoIdleSlot,
              ParkedInLine, At, Free
<1> QED
  BY <1>1, <1>2, LimiterStepInv

\* The size of the crowd inside.
LEMMA InsideSize ==
    /\ Inside \in SUBSET Callers /\ Cardinality(Inside) \in Nat
    /\ Cardinality(Inside) = 0 <=> Inside = {}
<1>1. Inside \in SUBSET Callers
  BY DEF Inside
<1> QED
  BY <1>1, Sizes, FS_EmptySet

\* Every action keeps the types.
LEMMA DrainTypeStep ==
    ASSUME DrainTypeOK, LimiterTypeOK', DrainNext, DoneMeansEmpty
    PROVE  DrainTypeOK'
<1> USE HandlerAssumption DEF DrainTypeOK, Stages, Phases, Move, Goto, handlerVars, serverVars, mainVars
<1>1. ASSUME NEW c \in Callers, Refuse(c) \/ Reject(c) \/ Enter(c) PROVE DrainTypeOK'
  BY <1>1 DEF Refuse, Reject, Enter, AfterSlot
<1>8. ASSUME NEW c \in Callers, Admit(c) PROVE DrainTypeOK'
  BY <1>8 DEF Admit
<1>2. ASSUME NEW c \in Callers, Wait(c) \/ Acquired(c) \/ Hijack(c) \/ EndWork(c) PROVE DrainTypeOK'
  <2>1. CASE Wait(c)
    BY <2>1 DEF Wait
  <2>2. CASE Acquired(c)
    BY <2>2 DEF Acquired, AfterSlot
  <2>3. CASE Hijack(c) \/ EndWork(c)
    BY <2>3 DEF Hijack, EndWork, AfterSlot
  <2> QED
    BY <1>2, <2>1, <2>2, <2>3
<1>3. ASSUME NEW c \in Callers, EndSession(c) \/ Finish(c) PROVE DrainTypeOK'
  BY <1>3 DEF EndSession, Finish, Record
<1>4. ASSUME NEW c \in Callers, Leave(c) PROVE DrainTypeOK'
  <2>1. active > 0
    BY <1>4, InsideSize DEF DoneMeansEmpty, Leave, Inside
  <2> QED
    BY <1>4, <2>1 DEF Leave
<1>5. CASE Drain
  BY <1>5 DEF Drain
<1>9. CASE Stop \/ DrainExpires \/ ShutdownReturns
  <2>1. CASE Stop
    BY <2>1 DEF Stop
  <2>2. CASE DrainExpires
    BY <2>2 DEF DrainExpires
  <2>3. CASE ShutdownReturns
    BY <2>3 DEF ShutdownReturns
  <2> QED
    BY <1>9, <2>1, <2>2, <2>3
<1>6. CASE ShutdownTimesOut \/ Done \/ CancelWork
  BY <1>6 DEF ShutdownTimesOut, Done, CancelWork
<1>7. CASE CleanupTimesOut \/ Return \/ CloseLog
  BY <1>7 DEF CleanupTimesOut, Return, CloseLog
<1> QED
  BY <1>1, <1>2, <1>3, <1>4, <1>5, <1>6, <1>7, <1>8, <1>9 DEF DrainNext, HandlerStep, ServeStep

\* Admission, departure and the start of the drain keep done and the count right.
LEMMA DoneStep ==
    ASSUME DrainTypeOK, DoneMeansEmpty, StageInv, PhaseInv, DrainNext
    PROVE  DoneMeansEmpty'
<1>0. Inside \in SUBSET Callers /\ Cardinality(Inside) \in Nat /\ (Cardinality(Inside) = 0 <=> Inside = {})
  BY InsideSize
<1>1. ASSUME Inside' = Inside, UNCHANGED serverVars PROVE DoneMeansEmpty'
  BY <1>1 DEF DoneMeansEmpty, serverVars
<1>2. ASSUME NEW c \in Callers, Admit(c) PROVE DoneMeansEmpty'
  <2>1. c \notin Inside /\ Inside' = Inside \cup {c}
    BY <1>2 DEF Admit, Inside, Move, DrainTypeOK
  <2>2. Cardinality(Inside') = Cardinality(Inside) + 1 /\ Inside' # {}
    BY <2>1, <1>0, OneIn
  <2> QED
    BY <1>2, <2>2 DEF Admit, DoneMeansEmpty
<1>3. ASSUME NEW c \in Callers, Leave(c) PROVE DoneMeansEmpty'
  <2>1. c \in Inside /\ Inside' = Inside \ {c}
    BY <1>3 DEF Leave, Inside, Move, DrainTypeOK
  <2>2. Cardinality(Inside') = Cardinality(Inside) - 1
    BY <2>1, <1>0, OneOut
  <2>3. Cardinality(Inside') = 0 <=> Inside' = {}
    BY <2>1, <1>0, Sizes, FS_EmptySet
  <2> QED
    BY <1>3, <2>1, <2>2, <2>3 DEF Leave, DoneMeansEmpty
<1>4. CASE Drain
  <2>1. Inside' = Inside /\ ~draining
    BY <1>4 DEF Drain, handlerVars, Inside, PhaseInv
  <2> QED
    BY <1>0, <1>4, <2>1 DEF Drain, DoneMeansEmpty
<1>5. ASSUME NEW c \in Callers, Refuse(c) \/ Reject(c) \/ Enter(c) \/ Finish(c) PROVE DoneMeansEmpty'
  <2>1. Inside' = Inside
    BY <1>5 DEF Refuse, Reject, Enter, Finish, Inside, Move, AfterSlot, DrainTypeOK
  <2> QED
    BY <1>1, <1>5, <2>1 DEF Refuse, Reject, Enter, Finish
<1>6. ASSUME NEW c \in Callers, Wait(c) \/ Acquired(c) \/ Hijack(c) \/ EndSession(c) \/ EndWork(c)
      PROVE  DoneMeansEmpty'
  <2>1. Inside' = Inside
    BY <1>6 DEF Wait, Acquired, Hijack, EndSession, EndWork, Inside, Move, AfterSlot, DrainTypeOK
  <2> QED
    BY <1>1, <1>6, <2>1 DEF Wait, Acquired, Hijack, EndSession, EndWork
<1>7. CASE Stop \/ DrainExpires \/ ShutdownReturns \/ ShutdownTimesOut \/ Done \/ CancelWork
           \/ CleanupTimesOut \/ Return \/ CloseLog
  <2>1. Inside' = Inside /\ UNCHANGED serverVars
    BY <1>7 DEF Stop, DrainExpires, ShutdownReturns, ShutdownTimesOut, Done, CancelWork, CleanupTimesOut,
                Return, CloseLog, handlerVars, Inside
  <2> QED
    BY <1>1, <2>1
<1> QED
  BY <1>2, <1>3, <1>4, <1>5, <1>6, <1>7 DEF DrainNext, HandlerStep, ServeStep

\* A caller of the limiter stays between its admission and its departure.
LEMMA StageStep ==
    ASSUME DrainTypeOK, LimiterInv, StageInv, DrainNext
    PROVE  StageInv'
<1>0. /\ place \in [Callers -> Places] /\ sendq \in Seq(Callers)
      /\ stage \in [Callers -> Stages] /\ hijacked \subseteq WebSockets
      /\ sendq # << >> => Head(sendq) \in Callers /\ place[Head(sendq)] = "parked"
  <2>1. sendq # << >> => Head(sendq) = sendq[1] /\ 1 \in 1..Len(sendq) /\ Head(sendq) \in Callers
    BY HeadTailProperties DEF LimiterInv, LimiterTypeOK
  <2> QED
    BY <2>1 DEF LimiterInv, LimiterTypeOK, ParkedInLine, DrainTypeOK
<1> USE <1>0, HandlerAssumption DEF StageInv, Move, AfterSlot
<1>1. ASSUME NEW c \in Callers, Admit(c) \/ Refuse(c) \/ Reject(c) \/ Finish(c) \/ Leave(c) PROVE StageInv'
  BY <1>1 DEF Admit, Refuse, Reject, Finish, Leave, limiterVars
<1>2. ASSUME NEW c \in Callers, Enter(c) PROVE StageInv'
  BY <1>2 DEF Enter, TakeNow, Queue
<1>3. ASSUME NEW c \in Callers, Wait(c) PROVE StageInv'
  BY <1>3 DEF Wait, SelectSlot, Park, GiveUpAtOnce, GiveUpParked
<1>4. ASSUME NEW c \in Callers, Acquired(c) PROVE StageInv'
  BY <1>4 DEF Acquired, Dequeue
<1>5. ASSUME NEW c \in Callers, Hijack(c) \/ EndSession(c) PROVE StageInv'
  BY <1>5 DEF Hijack, EndSession, limiterVars
<1>6. ASSUME NEW c \in Callers, EndWork(c) PROVE StageInv'
  BY <1>6 DEF EndWork, Release
<1>7. ASSUME UNCHANGED handlerVars PROVE StageInv'
  BY <1>7 DEF handlerVars, limiterVars
<1>8. CASE Stop \/ ServeStep
  BY <1>7, <1>8 DEF ServeStep, Stop, Drain, DrainExpires, ShutdownReturns, ShutdownTimesOut, Done, CancelWork,
                    CleanupTimesOut, Return, CloseLog
<1> QED
  BY <1>1, <1>2, <1>3, <1>4, <1>5, <1>6, <1>8 DEF DrainNext, HandlerStep

\* What serveHTTP knows of the world stays true while handlers come and go.
LEMMA PhaseStep ==
    ASSUME DrainTypeOK, PhaseInv, DoneMeansEmpty, DrainNext
    PROVE  PhaseInv'
<1>1. ASSUME NEW c \in Callers, HandlerStep(c) PROVE PhaseInv'
  <2>1. UNCHANGED <<draining, mainVars>>
    BY <1>1 DEF HandlerStep, Admit, Refuse, Reject, Enter, Wait, Acquired, Hijack, EndSession, EndWork,
                Finish, Leave, serverVars
  <2>2. closes > 0 => closes' > 0
    BY <1>1 DEF HandlerStep, Admit, Refuse, Reject, Enter, Wait, Acquired, Hijack, EndSession, EndWork,
                Finish, Leave, serverVars, DrainTypeOK
  <2> QED
    BY <2>1, <2>2 DEF PhaseInv, mainVars
<1> USE DEF PhaseInv, DrainTypeOK, Goto, serverVars, Phases
<1>2. CASE Stop \/ Drain \/ DrainExpires \/ ShutdownReturns
  BY <1>2 DEF Stop, Drain, DrainExpires, ShutdownReturns
<1>3. CASE ShutdownTimesOut \/ Done \/ CancelWork
  BY <1>3 DEF ShutdownTimesOut, Done, CancelWork
<1>4. CASE CleanupTimesOut \/ Return \/ CloseLog
  BY <1>4 DEF CleanupTimesOut, Return, CloseLog
<1> QED
  BY <1>1, <1>2, <1>3, <1>4 DEF DrainNext, ServeStep

\* A record is missed only behind a log that was closed over unfinished handlers.
LEMMA RecordStep ==
    ASSUME DrainTypeOK, DoneMeansEmpty, StageInv, PhaseInv, RecordInv, DrainNext
    PROVE  RecordInv'
<1>0. stage \in [Callers -> Stages] /\ hijacked \subseteq WebSockets
  BY DEF DrainTypeOK
<1>00. ASSUME NEW c \in Inside PROVE logOpen \/ result = "unfinished"
  BY <1>00 DEF PhaseInv, DoneMeansEmpty
<1>1. ASSUME NEW c \in Callers, EndSession(c) \/ Finish(c) PROVE RecordInv'
  <2>1. c \in Inside
    BY <1>1 DEF EndSession, Finish, Inside
  <2> QED
    BY <1>0, <1>00, <1>1, <2>1 DEF EndSession, Finish, Record, RecordInv, Recorded, Move, mainVars
<1>2. ASSUME NEW c \in Callers, Admit(c) \/ Refuse(c) \/ Reject(c) \/ Enter(c) \/ Acquired(c) PROVE RecordInv'
  BY <1>0, <1>2, HandlerAssumption
     DEF Admit, Refuse, Reject, Enter, Acquired, Dequeue, RecordInv, Recorded, Move, mainVars, AfterSlot, StageInv
<1>3. ASSUME NEW c \in Callers, Wait(c) \/ Hijack(c) \/ Leave(c) PROVE RecordInv'
  BY <1>0, <1>3 DEF Wait, Hijack, Leave, RecordInv, Recorded, Move, mainVars
<1>4. ASSUME NEW c \in Callers, EndWork(c) PROVE RecordInv'
  BY <1>0, <1>4, HandlerAssumption DEF EndWork, RecordInv, Recorded, Move, mainVars, AfterSlot
<1>5. CASE Stop \/ ServeStep
  <2>1. UNCHANGED <<stage, hijacked, logged>>
    BY <1>5 DEF ServeStep, Stop, Drain, DrainExpires, ShutdownReturns, ShutdownTimesOut, Done, CancelWork,
                CleanupTimesOut, Return, CloseLog, handlerVars
  <2>2. ~logOpen /\ result = "unfinished" => ~logOpen' /\ result' = "unfinished"
    BY <1>5 DEF ServeStep, Stop, Drain, DrainExpires, ShutdownReturns, ShutdownTimesOut, Done, CancelWork,
                CleanupTimesOut, Return, CloseLog, PhaseInv
  <2> QED
    BY <2>1, <2>2 DEF RecordInv, Recorded
<1> QED
  BY <1>1, <1>2, <1>3, <1>4, <1>5 DEF DrainNext, HandlerStep

\* The inductive invariant of the server.
THEOREM DrainInvariance == DrainSpec => []DrainInv
<1>1. ASSUME DrainInv, DrainNext PROVE DrainInv'
  <2>1. LimiterInv' /\ LimiterTypeOK'
    BY <1>1, LimiterKept DEF DrainInv, LimiterInv
  <2> QED
    BY <1>1, <2>1, DrainTypeStep, DoneStep, StageStep, PhaseStep, RecordStep DEF DrainInv
<1>2. DrainInv /\ UNCHANGED drainVars => DrainInv'
  BY DEF DrainInv, drainVars, limiterVars, serverVars, mainVars, LimiterInv, LimiterTypeOK, SlotsAreHeld,
         QueuedAreWaiting, NoIdleSlot, ParkedInLine, At, Free, DrainTypeOK, DoneMeansEmpty, Inside,
         StageInv, PhaseInv, RecordInv, Recorded
<1> QED
  BY DrainInitInv, <1>1, <1>2, PTL DEF DrainSpec

\* serveHTTP returns behind the last recorded handler, or says that it did not.
THEOREM NothingUnrecorded == DrainSpec => []LogClosedBehindHandlers
<1>1. DrainInv => LogClosedBehindHandlers
  BY DEF DrainInv, LogClosedBehindHandlers, PhaseInv, DoneMeansEmpty, RecordInv, Recorded
<1> QED
  BY DrainInvariance, <1>1, PTL

\* An admitted request has its whole drain period.
THEOREM WholeDrainPeriod == DrainSpec => []NotCutShort
<1>1. DrainInv => NotCutShort
  BY DEF DrainInv, NotCutShort, PhaseInv, DoneMeansEmpty
<1> QED
  BY DrainInvariance, <1>1, PTL

\* A drained server holds no upstream slot.
THEOREM AllSlotsReturned == DrainSpec => []SlotsReturned
<1>1. ASSUME DrainInv, closes > 0 PROVE slots = 0 /\ queued = 0 /\ sendq = << >>
  <2>1. \A c \in Callers : place[c] = "out"
    BY <1>1 DEF DrainInv, DoneMeansEmpty, StageInv, Inside
  <2>2. Holders = {} /\ Waiters = {}
    BY <2>1 DEF At, Holders, Waiters
  <2>3. sendq = << >>
    <3>1. sendq \in Seq(Callers) /\ \A i \in 1..Len(sendq) : place[sendq[i]] = "parked"
      BY <1>1 DEF DrainInv, LimiterInv, LimiterTypeOK, ParkedInLine
    <3>2. ASSUME sendq # << >> PROVE FALSE
      <4>1. 1 \in 1..Len(sendq) /\ sendq[1] \in Callers
        BY <3>1, <3>2
      <4> QED
        BY <2>1, <3>1, <4>1
    <3> QED
      BY <3>2
  <2>4. /\ slots \in 0..MaxSlots
        /\ MaxSlots > 0 => slots = Cardinality(Holders)
        /\ queued = Cardinality(Waiters)
    BY <1>1 DEF DrainInv, LimiterInv, LimiterTypeOK, SlotsAreHeld, QueuedAreWaiting, Holders, Waiters
  <2>5. Cardinality({}) = 0
    BY FS_EmptySet
  <2> QED
    BY <2>2, <2>3, <2>4, <2>5, LimiterAssumption
<1> QED
  BY DrainInvariance, <1>1, PTL DEF SlotsReturned
=============================================================================
