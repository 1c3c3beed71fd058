------------------------------- MODULE Limiter -------------------------------
(***************************************************************************)
(* concurrencyLimiter (limiter.go): the semaphore around upstream calls.   *)
(* The slots are a buffered Go channel: acquire sends, release receives.   *)
(* Of the channel the model keeps what acquire and release rely on: its    *)
(* length, and the senders parked on it in order, to whose head a receive  *)
(* hands the slot it frees.                                                *)
(***************************************************************************)
EXTENDS Naturals, FiniteSets, SequencesExt

CONSTANTS
    Callers,  \* requests that call acquireUpstreamSlot
    MaxSlots  \* max_concurrent; 0 is a nil limiter, which never blocks

ASSUME LimiterAssumption == IsFiniteSet(Callers) /\ MaxSlots \in Nat

VARIABLES
    place,   \* where each caller stands in acquire ... release
    slots,   \* len(l.slots)
    sendq,   \* the callers parked in the second select, first come first
    queued   \* l.queued

limiterVars == <<place, slots, sendq, queued>>

Places == {"out", "queued", "parked", "granted", "failed", "holding"}

LimiterTypeOK ==
    /\ place \in [Callers -> Places]
    /\ slots \in 0..MaxSlots
    /\ sendq \in Seq(Callers)
    /\ queued \in Nat

LimiterInit ==
    /\ place = [c \in Callers |-> "out"]
    /\ slots = 0
    /\ sendq = << >>
    /\ queued = 0

-----------------------------------------------------------------------------
Free == MaxSlots = 0 \/ slots < MaxSlots

OneMore == slots' = IF MaxSlots = 0 THEN slots ELSE slots + 1

\* The first select of acquire: a slot is free.
TakeNow(c) ==
    /\ place[c] = "out" /\ Free
    /\ OneMore
    /\ place' = [place EXCEPT ![c] = "holding"]
    /\ UNCHANGED <<sendq, queued>>

\* ... or none is: count the caller as queued and start its timer.
Queue(c) ==
    /\ place[c] = "out" /\ ~Free
    /\ queued' = queued + 1
    /\ place' = [place EXCEPT ![c] = "queued"]
    /\ UNCHANGED <<slots, sendq>>

\* The second select: a slot was freed since, or the caller parks.
SelectSlot(c) ==
    /\ place[c] = "queued" /\ Free
    /\ OneMore
    /\ place' = [place EXCEPT ![c] = "granted"]
    /\ UNCHANGED <<sendq, queued>>

Park(c) ==
    /\ place[c] = "queued" /\ ~Free
    /\ sendq' = Append(sendq, c)
    /\ place' = [place EXCEPT ![c] = "parked"]
    /\ UNCHANGED <<slots, queued>>

\* ctx.Done, or the timer of queueWait, wins the second select, at once or after
\* the caller parked.
GiveUpAtOnce(c) ==
    /\ place[c] = "queued"
    /\ place' = [place EXCEPT ![c] = "failed"]
    /\ UNCHANGED <<slots, sendq, queued>>

\* Mutant of GiveUpParked: a parked caller waits for its slot only.
NeverGiveUp(c) ==
    /\ place[c] = "parked" /\ Free
    /\ UNCHANGED limiterVars

GiveUpParked(c) ==
    /\ place[c] = "parked"
    /\ \E i \in 1..Len(sendq) : sendq[i] = c /\ sendq' = RemoveAt(sendq, i)
    /\ place' = [place EXCEPT ![c] = "failed"]
    /\ UNCHANGED <<slots, queued>>

\* Mutant of Dequeue: only a granted caller is taken off the count.
DequeueGrantedOnly(c) ==
    /\ place[c] \in {"granted", "failed"}
    /\ queued' = IF place[c] = "granted" THEN queued - 1 ELSE queued
    /\ place' = [place EXCEPT ![c] = IF @ = "granted" THEN "holding" ELSE "out"]
    /\ UNCHANGED <<slots, sendq>>

\* The deferred queued.Add(-1); acquireUpstreamSlot then returns release, or a
\* dispatchFailure with which the handler answers 429 or 408.
Dequeue(c) ==
    /\ place[c] \in {"granted", "failed"}
    /\ queued' = queued - 1
    /\ place' = [place EXCEPT ![c] = IF @ = "granted" THEN "holding" ELSE "out"]
    /\ UNCHANGED <<slots, sendq>>

\* Mutant of Release: the freed slot is not offered to the callers that wait.
ReleaseToNobody(c) ==
    /\ place[c] = "holding"
    /\ slots' = IF MaxSlots = 0 THEN slots ELSE slots - 1
    /\ place' = [place EXCEPT ![c] = "out"]
    /\ UNCHANGED <<sendq, queued>>

\* The receive frees one slot; a parked sender, if there is one, has it at once.
Release(c) ==
    /\ place[c] = "holding"
    /\ \/ /\ sendq = << >>
          /\ slots' = IF MaxSlots = 0 THEN slots ELSE slots - 1
          /\ place' = [place EXCEPT ![c] = "out"]
          /\ UNCHANGED <<sendq, queued>>
       \/ /\ sendq # << >>
          /\ sendq' = Tail(sendq)
          /\ place' = [place EXCEPT ![c] = "out", ![Head(sendq)] = "granted"]
          /\ UNCHANGED <<slots, queued>>

Waiting(c) == SelectSlot(c) \/ Park(c) \/ GiveUpAtOnce(c) \/ GiveUpParked(c) \/ Dequeue(c)

LimiterNext ==
    \E c \in Callers : TakeNow(c) \/ Queue(c) \/ Waiting(c) \/ Release(c)

LimiterSpec == LimiterInit /\ [][LimiterNext]_limiterVars

-----------------------------------------------------------------------------
(* What is expected of the limiter. *)

At(places) == {c \in Callers : place[c] \in places}

\* A slot is held for each request upstream and for nobody else, so none leaks and
\* the cap is kept, however a wait ends.
SlotsAreHeld == MaxSlots > 0 => slots = Cardinality(At({"granted", "holding"}))

\* What /healthz reports as queued is the number of requests that wait.
QueuedAreWaiting == queued = Cardinality(At({"queued", "parked", "granted", "failed"}))

\* A slot is never idle while somebody is parked for one.
NoIdleSlot == sendq # << >> => ~Free

\* The parked callers are in the channel's queue, each once.
ParkedInLine ==
    /\ \A i \in 1..Len(sendq) : place[sendq[i]] = "parked"
    /\ \A i, j \in 1..Len(sendq) : sendq[i] = sendq[j] => i = j

LimiterInv == LimiterTypeOK /\ SlotsAreHeld /\ QueuedAreWaiting /\ NoIdleSlot /\ ParkedInLine

\* A new request does not overtake a parked one, and of the parked ones the first
\* is served: acquire's fast path and release are first come first served.
NoOvertaking ==
    [][ \A c \in Callers :
          /\ place[c] = "out" /\ place'[c] = "holding" => sendq = << >>
          /\ place[c] = "parked" /\ place'[c] = "granted" => c = Head(sendq) ]_limiterVars

\* Nobody waits for a slot for ever, even if no slot is ever released.
EveryWaitEnds == \A c \in Callers : place[c] = "queued" ~> place[c] \in {"holding", "out"}
=============================================================================
