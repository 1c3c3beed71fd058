--------------------------- MODULE DispatchProofs ----------------------------
(* Proofs about Dispatch, for every number of accounts, of concurrent requests
   and every length of the cooldowns. *)
EXTENDS Dispatch, WellFoundedInduction, TLAPS

\* Every round of pick's loops looks at an account of the pool.
LEMMA CandidateType ==
    ASSUME active \in Accounts, NEW i \in Accounts
    PROVE  Candidate(i) \in Accounts
BY PoolAssumption DEF Candidate, Accounts

\* The rounds of one loop look at every account.
LEMMA CandidateCovers ==
    ASSUME active \in Accounts, NEW a \in Accounts
    PROVE  \E i \in Accounts : Candidate(i) = a
<1>1. CASE a >= active
  <2>1. Candidate(a - active) = a
    BY <1>1, PoolAssumption DEF Candidate, Accounts
  <2>2. a - active \in Accounts
    BY <1>1, PoolAssumption DEF Accounts
  <2> QED BY <2>1, <2>2
<1>2. CASE a < active
  <2>1. Candidate(a - active + N) = a
    BY <1>2, PoolAssumption DEF Candidate, Accounts
  <2>2. a - active + N \in Accounts
    BY <1>2, PoolAssumption DEF Accounts
  <2> QED BY <2>1, <2>2
<1> QED BY <1>1, <1>2, PoolAssumption DEF Accounts

\* soonestReset returns a deadline that some account really has.
LEMMA SoonestExists ==
    ASSUME cooldownUntil \in [Accounts -> Nat], Resets # {}
    PROVE  SoonestReset \in Resets
<1>1. Resets \subseteq Nat
  BY DEF Resets
<1> DEFINE Below == {p \in Nat \X Nat : p[1] < p[2]}
<1>2. \A u, v \in Nat : u < v => <<u, v>> \in Below
  OBVIOUS
<1>3. OpToRel(<, Nat) = Below
  BY Zenon DEF OpToRel
<1>4. IsWellFoundedOn(Below, Nat)
  BY <1>3, NatLessThanWellFounded
<1> HIDE DEF Below
<1>5. PICK t \in Resets : \A u \in Resets : ~ (<<u, t>> \in Below)
  BY <1>1, <1>4, WFMin
<1>6. \A u \in Resets : t <= u
  <2> TAKE u \in Resets
  <2>1. u \in Nat /\ t \in Nat
    BY <1>1
  <2>2. ~ (u < t)
    BY <1>2, <1>5, <2>1
  <2> QED
    BY <2>1, <2>2
<1> QED
  BY <1>6 DEF SoonestReset
-----------------------------------------------------------------------------
(* Type correctness. *)

\* The two ways a request ends or goes on keep its locals well typed.
LEMMA RespondType ==
    ASSUME RequestTypeOK, NEW r \in Requests, Respond(r)
    PROVE  RequestTypeOK'
<1> USE DEF RequestTypeOK, Respond, EndAttempt, Goto
<1>1. pc' \in [Requests -> PCs] /\ kind' \in [Requests -> Loops]
  BY DEF PCs, Loops
<1>2. attempt' \in [Requests -> 0 .. N] /\ seen' \in [Requests -> Nat] /\ acct' \in [Requests -> Accounts]
  BY PoolAssumption DEF Accounts
<1>3. probing' \in [Requests -> BOOLEAN]
  OBVIOUS
<1>4. failure' \in [Requests -> Failures]
  BY DEF NoFailure, Failures, Zero
<1> QED
  BY <1>1, <1>2, <1>3, <1>4

\* So does going on to the next attempt.
LEMMA NextAttemptType ==
    ASSUME RequestTypeOK, NEW r \in Requests, attempt[r] < N, NEW f \in Failures, NextAttempt(r, f)
    PROVE  RequestTypeOK'
<1> USE DEF RequestTypeOK, NextAttempt, EndAttempt, Goto
<1>1. pc' \in [Requests -> PCs]
  BY DEF PCs
<1>2. attempt' \in [Requests -> 0 .. N] /\ seen' \in [Requests -> Nat] /\ acct' \in [Requests -> Accounts]
  BY PoolAssumption DEF Accounts
<1>3. probing' \in [Requests -> BOOLEAN] /\ failure' \in [Requests -> Failures]
  OBVIOUS
<1> QED
  BY <1>1, <1>2, <1>3

\* Benching, releasing and leaving the pool alone keep the pool well typed.
LEMMA BenchType ==
    ASSUME DispatchTypeOK, NEW r \in Requests, NEW now \in Nat, NEW until \in Nat,
           Bench(r, now, until), UNCHANGED clock
    PROVE  PoolTypeOK' /\ HistoryTypeOK'
BY PoolAssumption DEF DispatchTypeOK, PoolTypeOK, RequestTypeOK, HistoryTypeOK, Bench, Cool, Later

\* Releasing an account keeps the types.
LEMMA ReleaseType ==
    ASSUME DispatchTypeOK, NEW r \in Requests, Release(r), UNCHANGED clock
    PROVE  PoolTypeOK' /\ HistoryTypeOK'
BY DEF DispatchTypeOK, PoolTypeOK, RequestTypeOK, HistoryTypeOK, Release, ClearCooldown, Zero

\* Leaving the pool alone keeps them.
LEMMA LeavesPoolType ==
    ASSUME PoolTypeOK, HistoryTypeOK, NEW r \in Requests, LeavesPool(r), UNCHANGED clock
    PROVE  PoolTypeOK' /\ HistoryTypeOK'
BY DEF PoolTypeOK, HistoryTypeOK, LeavesPool, poolVars

\* The initial state is well typed.
LEMMA TypeInit == Init => DispatchTypeOK
<1> SUFFICES ASSUME Init PROVE DispatchTypeOK
  OBVIOUS
<1> USE PoolAssumption, RequestAssumption DEF Init
<1>1. PoolTypeOK
  BY DEF PoolInit, PoolTypeOK, Accounts, Zero
<1>2. RequestTypeOK
  BY DEF RequestTypeOK, PCs, Loops, Accounts, NoFailure, Failures, Zero
<1>3. HistoryTypeOK
  BY DEF HistoryTypeOK, LongAgo
<1> QED
  BY <1>1, <1>2, <1>3 DEF DispatchTypeOK

\* Every action keeps the types; the bound on attempts comes from AttemptInv.
LEMMA TypeStep ==
    ASSUME DispatchTypeOK, AttemptInv, Next
    PROVE  DispatchTypeOK'
<1> USE DEF DispatchTypeOK
<1>16. 0 \in Accounts
  BY PoolAssumption DEF Accounts
<1>15. \A r \in Requests : NextRound(r) => scan' \in [Requests -> Accounts]
  BY PoolAssumption DEF NextRound, RequestTypeOK, Accounts
<1>1. CASE Tick
  BY <1>1 DEF Tick, poolVars, requestVars, history, PoolTypeOK, RequestTypeOK, HistoryTypeOK
<1>2. ASSUME NEW r \in Requests, NEW k \in Kinds, Arrive(r, k) PROVE DispatchTypeOK'
  BY <1>2, RequestAssumption
     DEF Arrive, Goto, poolVars, history, PoolTypeOK, RequestTypeOK, HistoryTypeOK, PCs
<1>3. ASSUME NEW r \in Requests, BeginAttempt(r) PROVE DispatchTypeOK'
  BY <1>3 DEF BeginAttempt, Goto, poolVars, history, PoolTypeOK, RequestTypeOK, HistoryTypeOK, PCs
<1>4. ASSUME NEW r \in Requests, Respond(r), LeavesPool(r), UNCHANGED clock PROVE DispatchTypeOK'
  BY <1>4, RespondType, LeavesPoolType
<1>5. ASSUME NEW r \in Requests, LockPool(r) PROVE DispatchTypeOK'
  BY <1>5 DEF LockPool, Goto, poolVars, history, PoolTypeOK, RequestTypeOK, HistoryTypeOK, PCs
<1>6. ASSUME NEW r \in Requests, ScanAvailable(r) PROVE DispatchTypeOK'
  <2> DEFINE a == Candidate(scan[r])
  <2>1. a \in Accounts
    BY CandidateType DEF PoolTypeOK, RequestTypeOK
  <2> HIDE DEF a
  <2>5. UNCHANGED <<clock, cooldownUntil, nextProbe, kind, attempt, seen, failure, lastTouch, lastProbe, overtaken>>
    BY <1>6 DEF ScanAvailable
  <2>2. CASE Available(a, seen[r]) /\ Picked(r, a, FALSE)
    BY <2>1, <2>2, <2>5, <1>16
       DEF Picked, Goto, PoolTypeOK, RequestTypeOK, HistoryTypeOK, PCs
  <2>3. CASE NextRound(r) /\ UNCHANGED <<active, acct, probing>>
    BY <2>3, <2>5, <1>15
       DEF NextRound, PoolTypeOK, RequestTypeOK, HistoryTypeOK
  <2>4. CASE /\ scan' = [scan EXCEPT ![r] = 0] /\ Goto(r, "scanProbe")
             /\ UNCHANGED <<poolLock, released, active, acct, probing>>
    BY <2>4, <2>5, <1>16
       DEF Goto, PoolTypeOK, RequestTypeOK, HistoryTypeOK, PCs
  <2> QED
    BY <1>6, <2>2, <2>3, <2>4 DEF ScanAvailable, a
<1>7. ASSUME NEW r \in Requests, ScanProbe(r) PROVE DispatchTypeOK'
  <2> DEFINE a == Candidate(scan[r])
  <2>1. a \in Accounts
    BY CandidateType DEF PoolTypeOK, RequestTypeOK
  <2> HIDE DEF a
  <2>5. UNCHANGED <<clock, cooldownUntil, kind, attempt, seen, failure, overtaken>>
    BY <1>7 DEF ScanProbe
  <2>2. CASE /\ ReserveProbe(a, seen[r]) /\ Picked(r, a, TRUE)
             /\ lastProbe' = [lastProbe EXCEPT ![a] = seen[r]]
             /\ lastTouch' = [lastTouch EXCEPT ![a] = clock]
    <3>1. PoolTypeOK'
      BY <2>1, <2>2, <2>5, PoolAssumption DEF ReserveProbe, Picked, PoolTypeOK, RequestTypeOK
    <3>2. RequestTypeOK'
      BY <2>1, <2>2, <2>5, <1>16 DEF Picked, Goto, RequestTypeOK, PCs
    <3>3. HistoryTypeOK'
      BY <2>1, <2>2, <2>5 DEF Picked, PoolTypeOK, RequestTypeOK, HistoryTypeOK
    <3> QED
      BY <3>1, <3>2, <3>3
  <2>3. CASE NextRound(r) /\ UNCHANGED <<active, nextProbe, acct, probing, lastTouch, lastProbe>>
    BY <2>3, <2>5, <1>15
       DEF NextRound, PoolTypeOK, RequestTypeOK, HistoryTypeOK
  <2>4. CASE PickFails(r) /\ UNCHANGED <<active, nextProbe, acct, probing, lastTouch, lastProbe>>
    BY <2>4, <2>5, <1>16
       DEF PickFails, Goto, PoolTypeOK, RequestTypeOK, HistoryTypeOK, PCs
  <2> QED
    BY <1>7, <2>2, <2>3, <2>4 DEF ScanProbe, a
<1>8. ASSUME NEW r \in Requests, FallBackOnActive(r) PROVE DispatchTypeOK'
  BY <1>8 DEF FallBackOnActive, Goto, poolVars, history, PoolTypeOK, RequestTypeOK, HistoryTypeOK, PCs
<1>9. ASSUME NEW r \in Requests, AuthReady(r) PROVE DispatchTypeOK'
  BY <1>9 DEF AuthReady, Goto, poolVars, history, PoolTypeOK, RequestTypeOK, HistoryTypeOK, PCs
<1>10. ASSUME NEW r \in Requests, AuthFailed(r) PROVE DispatchTypeOK'
  <2>1. AuthBenchFrom(r) \in Nat /\ AuthBenchFrom(r) + AuthErrorCooldown \in Nat
    BY PoolAssumption DEF AuthBenchFrom, PoolTypeOK, RequestTypeOK
  <2>2. AuthFailure(r) \in Failures
    BY DEF AuthFailure, RequestTypeOK, Failures, Zero
  <2>3. attempt[r] < N
    BY <1>10 DEF AuthFailed, AttemptInv
  <2> QED
    BY <1>10, <2>1, <2>2, <2>3, BenchType, NextAttemptType DEF AuthFailed
<1>11. ASSUME NEW r \in Requests, UpstreamServed(r) PROVE DispatchTypeOK'
  BY <1>11, ReleaseType, RespondType DEF UpstreamServed
<1>12. ASSUME NEW r \in Requests, HandshakeAccepted(r) PROVE DispatchTypeOK'
  <2>1. PoolTypeOK' /\ HistoryTypeOK'
    BY <1>12, ReleaseType DEF HandshakeAccepted
  <2>2. failure' \in [Requests -> Failures]
    BY <1>12 DEF HandshakeAccepted, RequestTypeOK, NoFailure, Failures, Zero
  <2>3. RequestTypeOK'
    BY <1>12, <2>2, PoolAssumption DEF HandshakeAccepted, EndAttempt, Goto, RequestTypeOK, PCs
  <2> QED
    BY <2>1, <2>3
<1>13. ASSUME NEW r \in Requests, NEW d \in Cooldowns, UpstreamRateLimited(r, d) PROVE DispatchTypeOK'
  <2>1. clock \in Nat /\ clock + d \in Nat
    BY PoolAssumption DEF PoolTypeOK
  <2>2. RateFailure(clock + d) \in Failures
    BY <2>1 DEF RateFailure, Failures
  <2>3. attempt[r] < N
    BY <1>13 DEF UpstreamRateLimited, AttemptInv
  <2> QED
    BY <1>13, <2>1, <2>2, <2>3, BenchType, NextAttemptType DEF UpstreamRateLimited
<1>14. ASSUME NEW r \in Requests, NEW d \in Cooldowns, SessionRateLimited(r, d) PROVE DispatchTypeOK'
  <2>1. clock \in Nat /\ clock + d \in Nat
    BY PoolAssumption DEF PoolTypeOK
  <2> QED
    BY <1>14, <2>1, BenchType, RespondType DEF SessionRateLimited
<1> QED
  BY <1>1, <1>2, <1>3, <1>4, <1>5, <1>6, <1>7, <1>8, <1>9, <1>10, <1>11, <1>12, <1>13, <1>14
     DEF Next, RequestStep, SessionEnds, CanceledAtLoop, AuthAbandoned, BestEffortServed,
         UpstreamOther, GiveUp, SessionClosed

-----------------------------------------------------------------------------
(* The control invariants: attempts, and who holds the pool. *)

\* No request is past its loop head at the start.
LEMMA ControlInit == Init => AttemptInv /\ LockInv
BY PoolAssumption, RequestAssumption DEF Init, AttemptInv, LockInv

\* Every action keeps attempts below N and pick under the pool mutex.
LEMMA ControlStep ==
    ASSUME DispatchTypeOK, AttemptInv, LockInv, Next
    PROVE  AttemptInv' /\ LockInv'
<1> USE DEF DispatchTypeOK, RequestTypeOK, AttemptInv, LockInv
<1>1. CASE Tick
  BY <1>1 DEF Tick, requestVars
<1>2. ASSUME NEW r \in Requests, NEW k \in Kinds, Arrive(r, k) PROVE AttemptInv' /\ LockInv'
  BY <1>2 DEF Arrive, Goto
<1>3. ASSUME NEW r \in Requests, BeginAttempt(r) PROVE AttemptInv' /\ LockInv'
  BY <1>3 DEF BeginAttempt, Goto
<1>4. ASSUME NEW r \in Requests, Respond(r), pc[r] \notin {"scanAvailable", "scanProbe"}
      PROVE AttemptInv' /\ LockInv'
  BY <1>4 DEF Respond, EndAttempt, Goto
<1>5. ASSUME NEW r \in Requests, LockPool(r) PROVE AttemptInv' /\ LockInv'
  BY <1>5, RequestAssumption DEF LockPool, Goto
<1>6. ASSUME NEW r \in Requests, ScanAvailable(r) PROVE AttemptInv' /\ LockInv'
  BY <1>6, RequestAssumption DEF ScanAvailable, Picked, NextRound, Goto
<1>7. ASSUME NEW r \in Requests, ScanProbe(r) PROVE AttemptInv' /\ LockInv'
  BY <1>7, RequestAssumption DEF ScanProbe, Picked, NextRound, PickFails, Goto
<1>8. ASSUME NEW r \in Requests, FallBackOnActive(r) PROVE AttemptInv' /\ LockInv'
  BY <1>8 DEF FallBackOnActive, Goto
<1>9. ASSUME NEW r \in Requests, AuthReady(r) PROVE AttemptInv' /\ LockInv'
  BY <1>9 DEF AuthReady, Goto
<1>10. ASSUME NEW r \in Requests, NEW f, NextAttempt(r, f), pc[r] \notin {"scanAvailable", "scanProbe"}
       PROVE AttemptInv' /\ LockInv'
  BY <1>10 DEF NextAttempt, EndAttempt, Goto
<1>11. ASSUME NEW r \in Requests, HandshakeAccepted(r) PROVE AttemptInv' /\ LockInv'
  BY <1>11 DEF HandshakeAccepted, EndAttempt, Goto
<1>12. ASSUME NEW r \in Requests, CanceledAtLoop(r) \/ GiveUp(r) PROVE AttemptInv' /\ LockInv'
  BY <1>4, <1>12 DEF CanceledAtLoop, GiveUp, OutOfAccounts
<1>13. ASSUME NEW r \in Requests, AuthFailed(r) \/ AuthAbandoned(r) PROVE AttemptInv' /\ LockInv'
  BY <1>4, <1>10, <1>13 DEF AuthFailed, AuthAbandoned
<1>14. ASSUME NEW r \in Requests, UpstreamServed(r) \/ BestEffortServed(r) \/ UpstreamOther(r)
       PROVE AttemptInv' /\ LockInv'
  BY <1>4, <1>14 DEF UpstreamServed, BestEffortServed, UpstreamOther
<1>15. ASSUME NEW r \in Requests, NEW d \in Cooldowns, UpstreamRateLimited(r, d)
       PROVE AttemptInv' /\ LockInv'
  BY <1>10, <1>15 DEF UpstreamRateLimited
<1>16. ASSUME NEW r \in Requests, SessionEnds(r) PROVE AttemptInv' /\ LockInv'
  BY <1>4, <1>16 DEF SessionEnds, SessionClosed, SessionRateLimited
<1> HIDE DEF DispatchTypeOK, RequestTypeOK, AttemptInv, LockInv
<1> QED
  BY <1>1, <1>2, <1>3, <1>5, <1>6, <1>7, <1>8, <1>9, <1>11, <1>12, <1>13, <1>14, <1>15, <1>16
     DEF Next, RequestStep

-----------------------------------------------------------------------------
(* The pool invariants.  Only five things happen to the pool; the lemma that   *)
(* says so spares the invariants a case for every action of the requests.      *)

\* What a bench may be: it starts now, or it is the short bench of a broken login
\* that starts at an older `now`.
BenchStart(now, until) ==
    /\ now \in Nat /\ until \in Nat /\ now <= clock
    /\ now = clock \/ until <= now + ProbeInterval

\* The request's own next `now` is the clock, or stays as it is, or is dropped.
SeenStep ==
    \A q \in Requests : seen'[q] \in {seen[q], clock, 0}

\* No account changes, nor does the scan of a request that is inside pick.
PoolAtRest ==
    /\ UNCHANGED <<cooldownUntil, nextProbe, active, lastTouch, lastProbe, released>>
    /\ clock' \in Nat /\ clock <= clock'

ScansAtRest ==
    \A q \in Requests :
        \/ pc'[q] \notin {"scanAvailable", "scanProbe"}
        \/ pc'[q] = pc[q] /\ scan'[q] = scan[q] /\ seen'[q] = seen[q]

Effect ==
    \/ PoolAtRest /\ ScansAtRest
    \/ \E r \in Requests : LockPool(r)
    \/ \E r \in Requests : ScanAvailable(r) \/ ScanProbe(r)
    \/ UNCHANGED clock /\ ScansAtRest /\ \E r \in Requests, now \in Nat, until \in Nat :
            BenchStart(now, until) /\ Bench(r, now, until)
    \/ UNCHANGED clock /\ ScansAtRest /\ \E r \in Requests : pc[r] = "sent" /\ Release(r)

\* Every action is one of a few effects on the pool and on the scans over it.
LEMMA EffectOfStep ==
    ASSUME DispatchTypeOK, ClockInv, Next
    PROVE  Effect /\ SeenStep
<1> USE DEF DispatchTypeOK, PoolTypeOK, RequestTypeOK
<1>1. CASE Tick
  <2>1. PoolAtRest /\ ScansAtRest
    BY <1>1 DEF Tick, PoolAtRest, ScansAtRest, poolVars, requestVars, history
  <2>2. SeenStep
    BY <1>1 DEF Tick, SeenStep, requestVars
  <2> QED
    BY <2>1, <2>2 DEF Effect
<1>2. ASSUME NEW r \in Requests, Respond(r) PROVE ScansAtRest /\ SeenStep
  BY <1>2 DEF Respond, EndAttempt, Goto, ScansAtRest, SeenStep
<1>3. ASSUME NEW r \in Requests, NEW f, NextAttempt(r, f) PROVE ScansAtRest /\ SeenStep
  BY <1>3 DEF NextAttempt, EndAttempt, Goto, ScansAtRest, SeenStep
<1>4. ASSUME NEW r \in Requests, LeavesPool(r), UNCHANGED clock PROVE PoolAtRest
  BY <1>4 DEF LeavesPool, PoolAtRest, poolVars
<1>5. ASSUME NEW r \in Requests, NEW k \in Kinds, Arrive(r, k) PROVE Effect /\ SeenStep
  <2>1. PoolAtRest /\ ScansAtRest /\ SeenStep
    BY <1>5 DEF Arrive, Goto, PoolAtRest, ScansAtRest, SeenStep, poolVars, history
  <2> QED
    BY <2>1 DEF Effect
<1>6. ASSUME NEW r \in Requests, BeginAttempt(r) PROVE Effect /\ SeenStep
  <2>1. PoolAtRest /\ ScansAtRest /\ SeenStep
    BY <1>6 DEF BeginAttempt, Goto, PoolAtRest, ScansAtRest, SeenStep, poolVars, history
  <2> QED
    BY <2>1 DEF Effect
<1>7. ASSUME NEW r \in Requests, FallBackOnActive(r) PROVE Effect /\ SeenStep
  <2>1. PoolAtRest /\ ScansAtRest /\ SeenStep
    BY <1>7 DEF FallBackOnActive, Goto, PoolAtRest, ScansAtRest, SeenStep, poolVars, history
  <2> QED
    BY <2>1 DEF Effect
<1>8. ASSUME NEW r \in Requests, AuthReady(r) PROVE Effect /\ SeenStep
  <2>1. PoolAtRest /\ ScansAtRest /\ SeenStep
    BY <1>8 DEF AuthReady, Goto, PoolAtRest, ScansAtRest, SeenStep, poolVars, history
  <2> QED
    BY <2>1 DEF Effect
<1>9. ASSUME NEW r \in Requests, LockPool(r) \/ ScanAvailable(r) \/ ScanProbe(r) PROVE Effect /\ SeenStep
  <2>1. SeenStep
    BY <1>9 DEF LockPool, ScanAvailable, ScanProbe, SeenStep
  <2> QED
    BY <1>9, <2>1 DEF Effect
<1>10. ASSUME NEW r \in Requests, AuthFailed(r) PROVE Effect /\ SeenStep
  <2> DEFINE from == AuthBenchFrom(r)
  <2>1. BenchStart(from, from + AuthErrorCooldown)
    BY PoolAssumption, BenchAssumption DEF AuthBenchFrom, BenchStart, ClockInv
  <2>2. from \in Nat /\ from + AuthErrorCooldown \in Nat
    BY <2>1 DEF BenchStart
  <2>3. ScansAtRest /\ SeenStep
    BY <1>3, <1>10 DEF AuthFailed
  <2> HIDE DEF from
  <2>4. Bench(r, from, from + AuthErrorCooldown) /\ UNCHANGED clock
    BY <1>10 DEF AuthFailed, from
  <2> QED
    BY <2>1, <2>2, <2>3, <2>4 DEF Effect
<1>11. ASSUME NEW r \in Requests, NEW d \in Cooldowns, Bench(r, clock, clock + d), UNCHANGED clock,
              ScansAtRest
       PROVE  Effect
  <2>1. clock \in Nat /\ clock + d \in Nat /\ BenchStart(clock, clock + d)
    BY PoolAssumption DEF BenchStart
  <2> QED
    BY <1>11, <2>1 DEF Effect
<1>12. ASSUME NEW r \in Requests, NEW d \in Cooldowns, UpstreamRateLimited(r, d) PROVE Effect /\ SeenStep
  BY <1>3, <1>11, <1>12 DEF UpstreamRateLimited
<1>13. ASSUME NEW r \in Requests, NEW d \in Cooldowns, SessionRateLimited(r, d) PROVE Effect /\ SeenStep
  BY <1>2, <1>11, <1>13 DEF SessionRateLimited
<1>14. ASSUME NEW r \in Requests, UpstreamServed(r) PROVE Effect /\ SeenStep
  BY <1>2, <1>14 DEF UpstreamServed, Effect
<1>15. ASSUME NEW r \in Requests, HandshakeAccepted(r) PROVE Effect /\ SeenStep
  <2>1. ScansAtRest /\ SeenStep
    BY <1>15 DEF HandshakeAccepted, EndAttempt, Goto, ScansAtRest, SeenStep
  <2> QED
    BY <1>15, <2>1 DEF HandshakeAccepted, Effect
<1>16. ASSUME NEW r \in Requests, Respond(r), LeavesPool(r), UNCHANGED clock PROVE Effect /\ SeenStep
  BY <1>2, <1>4, <1>16 DEF Effect
<1> HIDE DEF DispatchTypeOK, PoolTypeOK, RequestTypeOK
<1> QED
  BY <1>1, <1>5, <1>6, <1>7, <1>8, <1>9, <1>10, <1>12, <1>13, <1>14, <1>15, <1>16
     DEF Next, RequestStep, SessionEnds, CanceledAtLoop, AuthAbandoned, BestEffortServed,
         UpstreamOther, GiveUp, SessionClosed

\* A fresh pool satisfies the invariants about deadlines.
LEMMA PoolInvInit == Init => ClockInv /\ SpacingInv /\ ScanInv
<1> SUFFICES ASSUME Init PROVE ClockInv /\ SpacingInv /\ ScanInv
  OBVIOUS
<1>1. ClockInv /\ SpacingInv
  BY PoolAssumption DEF Init, PoolInit, ClockInv, SpacingInv, LongAgo, Zero
<1>2. ScanInv
  BY DEF Init, ScanInv
<1> QED
  BY <1>1, <1>2

\* What one step does to the deadlines of an account.
LEMMA BenchEffect ==
    ASSUME DispatchTypeOK, NEW r \in Requests, NEW now \in Nat, NEW until \in Nat,
           Bench(r, now, until), NEW a \in Accounts
    PROVE  /\ a # acct[r] => /\ cooldownUntil'[a] = cooldownUntil[a]
                             /\ nextProbe'[a] = nextProbe[a]
                             /\ lastTouch'[a] = lastTouch[a]
           /\ a = acct[r] => /\ cooldownUntil'[a] = Later(cooldownUntil[a], until)
                             /\ nextProbe'[a] = Later(nextProbe[a], now + ProbeInterval)
                             /\ lastTouch'[a] = clock
           /\ active' = active /\ lastProbe' = lastProbe /\ released' = released
BY DEF DispatchTypeOK, PoolTypeOK, RequestTypeOK, HistoryTypeOK, Bench, Cool

\* A release clears both deadlines and is remembered for the scan in progress.
LEMMA ReleaseEffect ==
    ASSUME DispatchTypeOK, NEW r \in Requests, Release(r), NEW a \in Accounts
    PROVE  /\ a # acct[r] => cooldownUntil'[a] = cooldownUntil[a] /\ nextProbe'[a] = nextProbe[a]
           /\ a = acct[r] => cooldownUntil'[a] = 0 /\ nextProbe'[a] = 0
           /\ poolLock # NoRequest => released' = released \cup {acct[r]}
           /\ active' = active /\ lastProbe' = lastProbe /\ lastTouch' = lastTouch
BY DEF DispatchTypeOK, PoolTypeOK, RequestTypeOK, Release, ClearCooldown, Zero

\* A probe moves its reservation one interval past its `now`.
LEMMA ProbeEffect ==
    ASSUME DispatchTypeOK, NEW r \in Requests, ScanProbe(r), NEW a \in Accounts
    PROVE  LET c == Candidate(scan[r]) IN
           /\ cooldownUntil' = cooldownUntil /\ clock' = clock
           /\ \/ nextProbe'[a] = nextProbe[a] /\ lastTouch'[a] = lastTouch[a] /\ lastProbe'[a] = lastProbe[a]
              \/ /\ a = c /\ ProbeDue(c, seen[r])
                 /\ nextProbe'[a] = seen[r] + ProbeInterval
                 /\ lastTouch'[a] = clock /\ lastProbe'[a] = seen[r]
<1> DEFINE c == Candidate(scan[r])
<1> HIDE DEF c
<1>1. cooldownUntil' = cooldownUntil /\ clock' = clock
  BY DEF ScanProbe
<1>2. CASE /\ ProbeDue(c, seen[r]) /\ ReserveProbe(c, seen[r])
           /\ lastProbe' = [lastProbe EXCEPT ![c] = seen[r]]
           /\ lastTouch' = [lastTouch EXCEPT ![c] = clock]
  BY <1>1, <1>2 DEF ReserveProbe, DispatchTypeOK, PoolTypeOK, HistoryTypeOK, c
<1>3. CASE UNCHANGED <<nextProbe, lastTouch, lastProbe>>
  BY <1>1, <1>3
<1> QED
  BY <1>2, <1>3 DEF ScanProbe, c

\* Locking the pool and looking for an available account change no account.
LEMMA LookingEffect ==
    ASSUME NEW r \in Requests, LockPool(r) \/ ScanAvailable(r)
    PROVE  UNCHANGED <<clock, cooldownUntil, nextProbe, lastTouch, lastProbe>>
BY DEF LockPool, ScanAvailable, poolVars, history

\* No step brings a `now` from the future or a probe beyond one interval.
LEMMA ClockStep ==
    ASSUME DispatchTypeOK, ClockInv, Next
    PROVE  ClockInv'
<1> USE DEF DispatchTypeOK, PoolTypeOK, RequestTypeOK, HistoryTypeOK
<1>0. Effect /\ SeenStep
  BY EffectOfStep
<1>1. clock' \in Nat /\ clock <= clock'
  <2>1. \A r \in Requests : ScanProbe(r) => clock' = clock
    BY DEF ScanProbe
  <2> QED
    BY <1>0, <2>1, LookingEffect DEF Effect, PoolAtRest
<1>2. \A q \in Requests : seen'[q] <= clock'
  BY <1>0, <1>1 DEF SeenStep, ClockInv
<1> SUFFICES ASSUME NEW a \in Accounts
             PROVE  /\ LongAgo <= lastTouch'[a] /\ lastTouch'[a] <= clock'
                    /\ lastProbe'[a] <= clock'
                    /\ nextProbe'[a] <= lastTouch'[a] + ProbeInterval
  BY <1>2 DEF ClockInv, LongAgo
<1>3. CASE UNCHANGED <<nextProbe, lastTouch, lastProbe>>
  BY <1>1, <1>3, PoolAssumption DEF ClockInv, LongAgo
<1>4. ASSUME NEW r \in Requests, ScanProbe(r)
      PROVE  /\ LongAgo <= lastTouch'[a] /\ lastTouch'[a] <= clock'
             /\ lastProbe'[a] <= clock'
             /\ nextProbe'[a] <= lastTouch'[a] + ProbeInterval
  BY <1>4, ProbeEffect, PoolAssumption DEF ClockInv, LongAgo
<1>5. ASSUME NEW r \in Requests, NEW now \in Nat, NEW until \in Nat, UNCHANGED clock,
             BenchStart(now, until), Bench(r, now, until)
      PROVE  /\ LongAgo <= lastTouch'[a] /\ lastTouch'[a] <= clock'
             /\ lastProbe'[a] <= clock'
             /\ nextProbe'[a] <= lastTouch'[a] + ProbeInterval
  <2>1. CASE a = acct[r]
    <3>1. nextProbe'[a] = Later(nextProbe[a], now + ProbeInterval) /\ lastTouch'[a] = clock
          /\ lastProbe' = lastProbe
      BY <1>5, <2>1, BenchEffect
    <3> QED
      BY <1>5, <3>1, PoolAssumption DEF ClockInv, LongAgo, BenchStart, Later
  <2>2. CASE a # acct[r]
    <3>1. nextProbe'[a] = nextProbe[a] /\ lastTouch'[a] = lastTouch[a] /\ lastProbe' = lastProbe
      BY <1>5, <2>2, BenchEffect
    <3> QED
      BY <1>5, <3>1 DEF ClockInv
  <2> QED
    BY <2>1, <2>2
<1>6. ASSUME NEW r \in Requests, Release(r), UNCHANGED clock
      PROVE  /\ LongAgo <= lastTouch'[a] /\ lastTouch'[a] <= clock'
             /\ lastProbe'[a] <= clock'
             /\ nextProbe'[a] <= lastTouch'[a] + ProbeInterval
  BY <1>6, ReleaseEffect, PoolAssumption DEF ClockInv, LongAgo
<1>7. ASSUME NEW r \in Requests, LockPool(r) \/ ScanAvailable(r)
      PROVE  /\ LongAgo <= lastTouch'[a] /\ lastTouch'[a] <= clock'
             /\ lastProbe'[a] <= clock'
             /\ nextProbe'[a] <= lastTouch'[a] + ProbeInterval
  BY <1>3, <1>7, LookingEffect
<1> HIDE DEF DispatchTypeOK, PoolTypeOK, RequestTypeOK, HistoryTypeOK
<1> QED
  BY <1>0, <1>3, <1>4, <1>5, <1>6, <1>7 DEF Effect, PoolAtRest

\* The last probe's reservation stands, whoever benches or releases the account.
LEMMA SpacingStep ==
    ASSUME DispatchTypeOK, ClockInv, SpacingInv, Next
    PROVE  SpacingInv'
<1> USE DEF DispatchTypeOK, PoolTypeOK, RequestTypeOK, HistoryTypeOK
<1>0. Effect
  BY EffectOfStep
<1> SUFFICES ASSUME NEW a \in Accounts
             PROVE  \/ nextProbe'[a] >= lastProbe'[a] + ProbeInterval
                    \/ cooldownUntil'[a] <= nextProbe'[a]
  BY DEF SpacingInv
<1>1. CASE UNCHANGED <<cooldownUntil, nextProbe, lastProbe>>
  BY <1>1 DEF SpacingInv
<1>2. ASSUME NEW r \in Requests, ScanProbe(r)
      PROVE  \/ nextProbe'[a] >= lastProbe'[a] + ProbeInterval
             \/ cooldownUntil'[a] <= nextProbe'[a]
  BY <1>2, ProbeEffect, PoolAssumption DEF SpacingInv
<1>3. ASSUME NEW r \in Requests, NEW now \in Nat, NEW until \in Nat,
             BenchStart(now, until), Bench(r, now, until)
      PROVE  \/ nextProbe'[a] >= lastProbe'[a] + ProbeInterval
             \/ cooldownUntil'[a] <= nextProbe'[a]
  <2>1. CASE a = acct[r]
    <3>1. /\ cooldownUntil'[a] = Later(cooldownUntil[a], until)
          /\ nextProbe'[a] = Later(nextProbe[a], now + ProbeInterval)
          /\ lastProbe' = lastProbe
      BY <1>3, <2>1, BenchEffect
    <3> QED
      BY <1>3, <3>1, PoolAssumption DEF SpacingInv, ClockInv, BenchStart, Later
  <2>2. CASE a # acct[r]
    <3>1. cooldownUntil'[a] = cooldownUntil[a] /\ nextProbe'[a] = nextProbe[a] /\ lastProbe' = lastProbe
      BY <1>3, <2>2, BenchEffect
    <3> QED
      BY <3>1 DEF SpacingInv
  <2> QED
    BY <2>1, <2>2
<1>4. ASSUME NEW r \in Requests, Release(r)
      PROVE  \/ nextProbe'[a] >= lastProbe'[a] + ProbeInterval
             \/ cooldownUntil'[a] <= nextProbe'[a]
  BY <1>4, ReleaseEffect DEF SpacingInv
<1>5. ASSUME NEW r \in Requests, LockPool(r) \/ ScanAvailable(r)
      PROVE  \/ nextProbe'[a] >= lastProbe'[a] + ProbeInterval
             \/ cooldownUntil'[a] <= nextProbe'[a]
  BY <1>1, <1>5, LookingEffect
<1> HIDE DEF DispatchTypeOK, PoolTypeOK, RequestTypeOK, HistoryTypeOK
<1> QED
  BY <1>0, <1>1, <1>2, <1>3, <1>4, <1>5 DEF Effect, PoolAtRest

\* An account that a scan has passed over stays passed over.
StaysPassed ==
    \A a \in Accounts, s \in Nat :
        /\ PassedOver(a, s) => PassedOver(a, s)'
        /\ NotDue(a, s) => NotDue(a, s)'

\* A step outside pick leaves alone what the scan in progress has found.
LEMMA ScanKept ==
    ASSUME DispatchTypeOK, LockInv, ScanInv, ScansAtRest, active' = active,
           poolLock # NoRequest => StaysPassed
    PROVE  ScanInv'
<1> SUFFICES ASSUME NEW q \in Requests, pc'[q] \in {"scanAvailable", "scanProbe"}
             PROVE  /\ pc'[q] = "scanAvailable" =>
                        \A i \in 0 .. (scan'[q] - 1) : PassedOver(Candidate(i), seen[q])'
                    /\ pc'[q] = "scanProbe" =>
                        /\ \A i \in Accounts : PassedOver(Candidate(i), seen[q])'
                        /\ \A i \in 0 .. (scan'[q] - 1) : NotDue(Candidate(i), seen[q])'
  BY DEF ScanInv
<1>1. pc'[q] = pc[q] /\ scan'[q] = scan[q] /\ seen'[q] = seen[q]
  BY DEF ScansAtRest
<1>2. poolLock # NoRequest
  BY <1>1, RequestAssumption DEF LockInv
<1>3. scan[q] \in Accounts /\ seen[q] \in Nat /\ active \in Accounts
  BY DEF DispatchTypeOK, RequestTypeOK, PoolTypeOK
<1>4. 0 .. (scan[q] - 1) \subseteq Accounts
  BY <1>3, PoolAssumption DEF Accounts
<1>5. \A i \in Accounts : Candidate(i) \in Accounts /\ Candidate(i)' = Candidate(i)
  BY <1>3, CandidateType DEF Candidate
<1>6. \A i \in Accounts : PassedOver(Candidate(i), seen[q]) => PassedOver(Candidate(i), seen[q])'
  BY <1>1, <1>2, <1>3, <1>5 DEF StaysPassed, PassedOver
<1>7. \A i \in Accounts : NotDue(Candidate(i), seen[q]) => NotDue(Candidate(i), seen[q])'
  BY <1>1, <1>2, <1>3, <1>5 DEF StaysPassed, NotDue
<1> QED
  BY <1>1, <1>4, <1>6, <1>7 DEF ScanInv

\* Inside pick only its own request is scanning.
LEMMA ScanAlone ==
    ASSUME DispatchTypeOK, LockInv, NEW r \in Requests, NEW q \in Requests, q # r,
           pc[r] \in {"scanAvailable", "scanProbe"}
    PROVE  pc[q] \notin {"scanAvailable", "scanProbe"}
BY DEF LockInv

\* Every action keeps what a scan in progress has established.
LEMMA ScanStep ==
    ASSUME DispatchTypeOK, LockInv, ClockInv, ScanInv, Next
    PROVE  ScanInv'
<1>0. Effect
  BY EffectOfStep
<1>1. CASE PoolAtRest /\ ScansAtRest
  BY <1>1, ScanKept DEF PoolAtRest, StaysPassed, PassedOver, NotDue
<1>2. ASSUME NEW r \in Requests, LockPool(r) PROVE ScanInv'
  <2>1. \A q \in Requests : pc'[q] = "scanAvailable" => q = r
    BY <1>2, RequestAssumption DEF LockPool, Goto, LockInv, DispatchTypeOK, RequestTypeOK
  <2>2. \A q \in Requests : pc'[q] # "scanProbe"
    BY <1>2, RequestAssumption DEF LockPool, Goto, LockInv, DispatchTypeOK, RequestTypeOK
  <2>3. scan'[r] = 0
    BY <1>2, RequestAssumption DEF LockPool, LockInv
  <2> QED
    BY <2>1, <2>2, <2>3 DEF ScanInv
<1>3. ASSUME NEW r \in Requests, ScanAvailable(r) PROVE ScanInv'
  <2> DEFINE s == seen[r]
             n == scan[r]
  <2>1. s \in Nat /\ n \in 0 .. (N - 1) /\ active \in Accounts /\ pc[r] = "scanAvailable"
    BY <1>3 DEF ScanAvailable, DispatchTypeOK, RequestTypeOK, PoolTypeOK, Accounts
  <2>2. \A q \in Requests : q # r => pc'[q] \notin {"scanAvailable", "scanProbe"}
    <3>1. \A q \in Requests : q # r => pc'[q] = pc[q]
      BY <1>3 DEF ScanAvailable, Picked, NextRound, Goto, DispatchTypeOK, RequestTypeOK
    <3> QED
      BY <2>1, <3>1, ScanAlone
  <2>3. \A i \in 0 .. (n - 1) : PassedOver(Candidate(i), s)
    BY <2>1 DEF ScanInv
  <2>4. UNCHANGED <<cooldownUntil, nextProbe, seen>>
    BY <1>3 DEF ScanAvailable
  <2>5. CASE Picked(r, Candidate(n), FALSE)
    <3>1. pc'[r] = "auth"
      BY <2>5 DEF Picked, Goto, DispatchTypeOK, RequestTypeOK
    <3> QED
      BY <2>2, <3>1 DEF ScanInv
  <2>6. CASE ~Available(Candidate(n), s) /\ UNCHANGED <<active, released>>
    <3>9. n \in Accounts
      BY <2>1 DEF Accounts
    <3>1. cooldownUntil[Candidate(n)] > s
      BY <2>1, <2>6, <3>9, CandidateType DEF Available, DispatchTypeOK, PoolTypeOK
    <3>2. \A i \in 0 .. n : PassedOver(Candidate(i), s)
      BY <2>1, <2>3, <3>1 DEF PassedOver
    <3>3. \A i \in 0 .. n : PassedOver(Candidate(i), seen[r])'
      BY <2>4, <2>6, <3>2 DEF PassedOver, Candidate
    <3>4. CASE NextRound(r)
      <4>1. pc'[r] = "scanAvailable" /\ scan'[r] = n + 1
        BY <2>1, <3>4 DEF NextRound, DispatchTypeOK, RequestTypeOK
      <4>2. \A i \in 0 .. (scan'[r] - 1) : PassedOver(Candidate(i), seen[r])'
        BY <2>1, <3>3, <4>1
      <4> QED
        BY <2>2, <4>1, <4>2 DEF ScanInv
    <3>5. CASE n + 1 = N /\ scan' = [scan EXCEPT ![r] = 0] /\ Goto(r, "scanProbe")
      <4>1. pc'[r] = "scanProbe" /\ scan'[r] = 0
        BY <3>5 DEF Goto, DispatchTypeOK, RequestTypeOK
      <4>2. \A i \in Accounts : PassedOver(Candidate(i), seen[r])'
        BY <2>1, <3>3, <3>5, PoolAssumption DEF Accounts
      <4> QED
        BY <2>2, <4>1, <4>2 DEF ScanInv
    <3> QED
      BY <1>3, <2>5, <3>4, <3>5 DEF ScanAvailable
  <2> QED
    BY <1>3, <2>5, <2>6 DEF ScanAvailable, NextRound
<1>4. ASSUME NEW r \in Requests, ScanProbe(r) PROVE ScanInv'
  <2> DEFINE s == seen[r]
             n == scan[r]
  <2>1. s \in Nat /\ n \in 0 .. (N - 1) /\ active \in Accounts /\ pc[r] = "scanProbe"
    BY <1>4 DEF ScanProbe, DispatchTypeOK, RequestTypeOK, PoolTypeOK, Accounts
  <2>2. \A q \in Requests : q # r => pc'[q] \notin {"scanAvailable", "scanProbe"}
    <3>1. \A q \in Requests : q # r => pc'[q] = pc[q]
      BY <1>4 DEF ScanProbe, Picked, NextRound, PickFails, Goto, DispatchTypeOK, RequestTypeOK
    <3> QED
      BY <2>1, <3>1, ScanAlone
  <2>3. /\ \A i \in Accounts : PassedOver(Candidate(i), s)
        /\ \A i \in 0 .. (n - 1) : NotDue(Candidate(i), s)
    BY <2>1 DEF ScanInv
  <2>4. CASE pc'[r] \notin {"scanAvailable", "scanProbe"}
    BY <2>2, <2>4 DEF ScanInv
  <2>5. CASE /\ ~ProbeDue(Candidate(n), s) /\ NextRound(r)
             /\ UNCHANGED <<active, nextProbe, cooldownUntil, seen>>
    <3>1. Candidate(n) \in Accounts /\ n \in Accounts
      BY <2>1, CandidateType DEF Accounts
    <3>2. NotDue(Candidate(n), s)
      BY <2>1, <2>3, <2>5, <3>1 DEF ProbeDue, PassedOver, NotDue, DispatchTypeOK, PoolTypeOK
    <3>3. pc'[r] = "scanProbe" /\ scan'[r] = n + 1 /\ released' = released
      BY <2>1, <2>5 DEF NextRound, DispatchTypeOK, RequestTypeOK
    <3>4. \A i \in 0 .. n : NotDue(Candidate(i), s)
      BY <2>1, <2>3, <3>2
    <3>5. \A i \in 0 .. (scan'[r] - 1) : NotDue(Candidate(i), seen[r])'
      BY <2>1, <2>5, <3>3, <3>4 DEF NotDue, Candidate
    <3>6. \A i \in Accounts : PassedOver(Candidate(i), seen[r])'
      BY <2>3, <2>5, <3>3 DEF PassedOver, Candidate
    <3> QED
      BY <2>2, <3>3, <3>5, <3>6 DEF ScanInv
  <2>6. CASE Picked(r, Candidate(n), TRUE) \/ PickFails(r)
    BY <2>4, <2>6 DEF Picked, PickFails, Goto, DispatchTypeOK, RequestTypeOK
  <2> QED
    BY <1>4, <2>5, <2>6 DEF ScanProbe
<1>5. ASSUME NEW r \in Requests, NEW now \in Nat, NEW until \in Nat, ScansAtRest, Bench(r, now, until)
      PROVE  ScanInv'
  <2>1. StaysPassed
    <3> SUFFICES ASSUME NEW a \in Accounts, NEW s \in Nat
                 PROVE  /\ PassedOver(a, s) => PassedOver(a, s)'
                        /\ NotDue(a, s) => NotDue(a, s)'
      BY DEF StaysPassed
    <3>1. /\ cooldownUntil'[a] \in {cooldownUntil[a], Later(cooldownUntil[a], until)}
          /\ nextProbe'[a] \in {nextProbe[a], Later(nextProbe[a], now + ProbeInterval)}
          /\ released' = released
      BY <1>5, BenchEffect
    <3> QED
      BY <3>1, PoolAssumption DEF Later, PassedOver, NotDue, DispatchTypeOK, PoolTypeOK
  <2> QED
    BY <1>5, <2>1, ScanKept DEF Bench
<1>6. ASSUME NEW r \in Requests, ScansAtRest, Release(r) PROVE ScanInv'
  <2>1. ASSUME poolLock # NoRequest PROVE StaysPassed
    BY <1>6, <2>1, ReleaseEffect DEF StaysPassed, PassedOver, NotDue
  <2> QED
    BY <1>6, <2>1, ScanKept DEF Release
<1> QED
  BY <1>0, <1>1, <1>2, <1>3, <1>4, <1>5, <1>6 DEF Effect

-----------------------------------------------------------------------------
(* The theorems. *)

\* The inductive invariant: types, attempts, the pool mutex, the clock relations,
\* the reservation of probes and what a scan in progress has established.
THEOREM Invariance == Spec => []DispatchInv
<1>1. Init => DispatchInv
  BY TypeInit, ControlInit, PoolInvInit DEF DispatchInv
<1>2. DispatchInv /\ [Next]_vars => DispatchInv'
  <2> SUFFICES ASSUME DispatchInv, [Next]_vars PROVE DispatchInv'
    OBVIOUS
  <2>1. CASE Next
    BY <2>1, TypeStep, ControlStep, ClockStep, SpacingStep, ScanStep DEF DispatchInv
  <2>2. CASE UNCHANGED vars
    <3> USE <2>2 DEF vars, poolVars, requestVars, history, DispatchInv
    <3>1. DispatchTypeOK'
      BY DEF DispatchTypeOK, PoolTypeOK, RequestTypeOK, HistoryTypeOK
    <3>2. AttemptInv' /\ LockInv'
      BY DEF AttemptInv, LockInv
    <3>3. ClockInv' /\ SpacingInv'
      BY DEF ClockInv, SpacingInv
    <3>4. ScanInv'
      BY DEF ScanInv, PassedOver, NotDue, Candidate
    <3> QED
      BY <3>1, <3>2, <3>3, <3>4
  <2> QED
    BY <2>1, <2>2
<1> QED
  BY <1>1, <1>2, PTL DEF Spec

\* Type correctness of the failover loops: in particular no request makes more
\* attempts than there are accounts, and pick never indexes outside the pool.
THEOREM TypeCorrectness == Spec => []DispatchTypeOK
<1>1. DispatchInv => DispatchTypeOK
  BY DEF DispatchInv
<1> QED
  BY <1>1, Invariance, PTL

\* Only a round of pick's second loop probes or refuses.
LEMMA ScanProbeOnly ==
    ASSUME DispatchTypeOK, Next, NEW r \in Requests, pc[r] = "scanProbe",
           pc'[r] \in {"auth", "refused"}
    PROVE  ScanProbe(r)
<1> USE DEF DispatchTypeOK, RequestTypeOK, Goto
<1>1. ~Tick
  BY DEF Tick, requestVars
<1>2. \A q \in Requests : Respond(q) => q = r
  BY DEF Respond, EndAttempt
<1>3. \A q \in Requests : ~(Respond(q) /\ pc[q] # "scanProbe")
  BY <1>2
<1>4. \A q \in Requests : \A f : ~(NextAttempt(q, f) /\ pc[q] # "scanProbe")
  BY DEF NextAttempt, EndAttempt
<1>5. \A q \in Requests, k \in Kinds : ~Arrive(q, k)
  BY DEF Arrive
<1>6. \A q \in Requests : ~BeginAttempt(q) /\ ~LockPool(q) /\ ~FallBackOnActive(q) /\ ~AuthReady(q)
  BY DEF BeginAttempt, LockPool, FallBackOnActive, AuthReady
<1>7. \A q \in Requests : ~HandshakeAccepted(q)
  BY DEF HandshakeAccepted
<1>8. \A q \in Requests : ~ScanAvailable(q)
  BY DEF ScanAvailable, Picked, NextRound
<1>9. \A q \in Requests : ScanProbe(q) => q = r
  BY DEF ScanProbe, Picked, NextRound, PickFails
<1>10. \A q \in Requests : ~CanceledAtLoop(q) /\ ~GiveUp(q) /\ ~AuthAbandoned(q) /\ ~UpstreamServed(q)
                           /\ ~BestEffortServed(q) /\ ~UpstreamOther(q)
  BY <1>3 DEF CanceledAtLoop, GiveUp, OutOfAccounts, AuthAbandoned, UpstreamServed, BestEffortServed, UpstreamOther
<1>11. \A q \in Requests : ~SessionEnds(q)
  BY <1>3 DEF SessionEnds, SessionClosed, SessionRateLimited
<1>12. \A q \in Requests : ~AuthFailed(q)
  BY <1>4 DEF AuthFailed
<1>13. \A q \in Requests, d \in Cooldowns : ~UpstreamRateLimited(q, d)
  BY <1>4 DEF UpstreamRateLimited
<1> HIDE DEF DispatchTypeOK, RequestTypeOK, Goto
<1> QED
  BY <1>1, <1>5, <1>6, <1>7, <1>8, <1>9, <1>10, <1>11, <1>12, <1>13 DEF Next, RequestStep

\* Two probes of one account are at least ProbeInterval apart, for every number of
\* accounts and requests, whatever is benched and released between them: this is
\* where the short bench of a broken login (BenchAssumption) is needed.
THEOREM ProbeSpacing == Spec => ProbesSpaced
<1>1. ASSUME DispatchInv, [Next]_vars, NEW r \in Requests, Probes(r)
      PROVE  seen[r] >= lastProbe[acct'[r]] + ProbeInterval
  <2> USE <1>1 DEF DispatchInv
  <2>1. Next
    BY <1>1 DEF Probes, vars, requestVars
  <2>2. ScanProbe(r)
    BY <1>1, <2>1, ScanProbeOnly DEF Probes
  <2> DEFINE a == Candidate(scan[r])
  <2> HIDE DEF a
  <2>3. ProbeDue(a, seen[r]) /\ Picked(r, a, TRUE)
    <3>1. ~NextRound(r) /\ ~PickFails(r)
      BY <1>1 DEF Probes, NextRound, PickFails, Goto, DispatchTypeOK, RequestTypeOK
    <3> QED
      BY <2>2, <3>1 DEF ScanProbe, a
  <2>4. acct'[r] = a
    BY <2>3 DEF Picked, DispatchTypeOK, RequestTypeOK
  <2>5. a \in Accounts
    BY CandidateType DEF a, DispatchTypeOK, PoolTypeOK, RequestTypeOK
  <2>6. cooldownUntil[a] > seen[r] /\ nextProbe[a] <= seen[r]
    BY <2>3 DEF ProbeDue
  <2>7. /\ cooldownUntil[a] \in Nat /\ nextProbe[a] \in Nat /\ seen[r] \in Nat
        /\ lastProbe[a] \in Int /\ ProbeInterval \in Nat
    BY <2>5, PoolAssumption DEF DispatchTypeOK, PoolTypeOK, RequestTypeOK, HistoryTypeOK
  <2>8. nextProbe[a] >= lastProbe[a] + ProbeInterval \/ cooldownUntil[a] <= nextProbe[a]
    BY <2>5 DEF SpacingInv
  <2> QED
    BY <2>4, <2>6, <2>7, <2>8
<1>2. DispatchInv /\ [Next]_vars =>
        [\A r \in Requests : Probes(r) => seen[r] >= lastProbe[acct'[r]] + ProbeInterval]_vars
  BY <1>1
<1> QED
  BY <1>2, Invariance, PTL DEF Spec, ProbesSpaced

\* pick refuses a request only on evidence younger than ProbeInterval about every
\* account, or about accounts that were released under it.
THEOREM RecentEvidence == Spec => RefusedOnlyOnRecentEvidence
<1>1. ASSUME DispatchInv, [Next]_vars, NEW r \in Requests, Refuses(r), NEW b \in Accounts
      PROVE  seen[r] < lastTouch[b] + ProbeInterval \/ b \in released
  <2> USE <1>1 DEF DispatchInv
  <2>1. Next
    BY <1>1 DEF Refuses, vars, requestVars
  <2>2. ScanProbe(r)
    BY <1>1, <2>1, ScanProbeOnly DEF Refuses
  <2>3. PickFails(r) /\ ~ProbeDue(Candidate(scan[r]), seen[r])
    <3>1. ~NextRound(r) /\ \A a, p : ~Picked(r, a, p)
      BY <1>1 DEF Refuses, NextRound, Picked, Goto, DispatchTypeOK, RequestTypeOK
    <3> QED
      BY <2>2, <3>1 DEF ScanProbe
  <2>4. seen[r] \in Nat /\ scan[r] \in Nat /\ scan[r] + 1 = N /\ active \in Accounts
    BY <2>3 DEF PickFails, DispatchTypeOK, RequestTypeOK, PoolTypeOK, Accounts
  <2>5. PICK i \in Accounts : Candidate(i) = b
    BY <2>4, CandidateCovers
  <2>6. pc[r] = "scanProbe"
    BY <1>1 DEF Refuses
  <2>7. PassedOver(b, seen[r])
    BY <2>5, <2>6 DEF ScanInv
  <2>8. NotDue(b, seen[r])
    <3>1. CASE i = scan[r]
      <4>1. ~ProbeDue(b, seen[r])
        BY <2>3, <2>5, <3>1
      <4> QED
        BY <2>4, <2>7, <4>1 DEF ProbeDue, PassedOver, NotDue, DispatchTypeOK, PoolTypeOK
    <3>2. CASE i # scan[r]
      <4>1. i \in 0 .. (scan[r] - 1)
        BY <2>4, <3>2, PoolAssumption DEF Accounts
      <4> QED
        BY <2>5, <2>6, <4>1 DEF ScanInv
    <3> QED
      BY <3>1, <3>2
  <2>9. nextProbe[b] <= lastTouch[b] + ProbeInterval
    BY DEF ClockInv
  <2>10. nextProbe[b] \in Nat /\ lastTouch[b] \in Int /\ ProbeInterval \in Nat
    BY PoolAssumption DEF DispatchTypeOK, PoolTypeOK, HistoryTypeOK
  <2> QED
    BY <2>4, <2>8, <2>9, <2>10 DEF NotDue
<1>2. DispatchInv /\ [Next]_vars =>
        [\A r \in Requests : Refuses(r) =>
            \A a \in Accounts : seen[r] < lastTouch[a] + ProbeInterval \/ a \in released]_vars
  BY <1>1
<1> QED
  BY <1>2, Invariance, PTL DEF Spec, RefusedOnlyOnRecentEvidence

\* Cutting a wait to whole seconds loses less than a second of it.
LEMMA WholeSeconds ==
    ASSUME NEW w \in Nat, NEW s \in Nat \ {0}
    PROVE  s * (w \div s) \in Nat /\ s * (w \div s) <= w /\ w < s * (w \div s) + s
OBVIOUS

\* What Retry-After promises of a deadline that is set.
LEMMA RetryAfterRounds ==
    ASSUME clock \in Nat, NEW until \in Nat
    PROVE  /\ RetryAfter(until) \in Nat
           /\ until # Zero => \/ until < clock + RetryAfter(until) + Second
                             \/ clock + ProbeInterval < clock + RetryAfter(until) + Second
<1> DEFINE wait == IF until - clock > ProbeInterval THEN ProbeInterval ELSE until - clock
<1>0. ProbeInterval \in Nat \ {0} /\ Second \in Nat \ {0}
  BY PoolAssumption, RequestAssumption
<1>1. CASE until = Zero \/ wait <= 0
  <2>1. RetryAfter(until) = 0
    BY <1>1 DEF RetryAfter
  <2> QED
    BY <1>0, <1>1, <2>1
<1>2. CASE ~(until = Zero \/ wait <= 0)
  <2>1. RetryAfter(until) = Second * (wait \div Second) /\ wait \in Nat
    BY <1>0, <1>2 DEF RetryAfter
  <2>2. wait = ProbeInterval \/ wait = until - clock
    OBVIOUS
  <2> HIDE DEF wait
  <2>3. RetryAfter(until) \in Nat /\ wait < RetryAfter(until) + Second
    BY <1>0, <2>1, WholeSeconds
  <2> QED
    BY <1>0, <2>1, <2>2, <2>3
<1> QED
  BY <1>1, <1>2

\* Whoever waits out the Retry-After of a 429, and the fraction of a second that it
\* leaves out, finds an account out of its cooldown or due for a probe, if nothing
\* else happens meanwhile.
THEOREM RetryAfterHonest == Spec => []RetryAfterFindsAnAccount
<1>1. ASSUME DispatchInv PROVE RetryAfterFindsAnAccount
  <2> USE <1>1 DEF DispatchInv
  <2> SUFFICES ASSUME NEW r \in Requests, kind[r] # "capability"
               PROVE  \E a \in Accounts :
                        LET back == clock + RetryAfter(FailureDeadline(r)) + Second IN
                        cooldownUntil[a] < back \/ nextProbe[a] < back
    BY DEF RetryAfterFindsAnAccount
  <2> DEFINE wait == RetryAfter(FailureDeadline(r))
  <2>1. /\ clock \in Nat /\ ProbeInterval \in Nat /\ Second \in Nat \ {0} /\ 0 \in Accounts
        /\ cooldownUntil \in [Accounts -> Nat] /\ failure[r].until \in Nat
    <3>1. failure[r] \in Failures
      BY DEF DispatchTypeOK, RequestTypeOK
    <3>2. failure[r].until \in Nat
      BY <3>1 DEF Failures
    <3>3. 0 \in Accounts
      BY PoolAssumption DEF Accounts
    <3> QED
      BY <3>2, <3>3, PoolAssumption, RequestAssumption DEF DispatchTypeOK, PoolTypeOK
  <2>2. CASE Resets = {}
    <3>1. cooldownUntil[0] = 0
      BY <2>1, <2>2 DEF Resets, Zero
    <3>2. SoonestReset = 0
      BY <2>2 DEF SoonestReset, Zero
    <3>3. FailureDeadline(r) \in Nat
      BY <2>1, <3>2 DEF FailureDeadline
    <3>4. wait \in Nat
      BY <2>1, <3>3, RetryAfterRounds
    <3> QED
      BY <2>1, <3>1, <3>4
  <2>3. CASE Resets # {}
    <3>1. SoonestReset \in Resets
      BY <2>1, <2>3, SoonestExists
    <3>2. PICK a \in Accounts : cooldownUntil[a] = SoonestReset /\ SoonestReset # 0
      BY <3>1 DEF Resets, Zero
    <3>3. FailureDeadline(r) = cooldownUntil[a]
      BY <3>2 DEF FailureDeadline, Zero
    <3>4. nextProbe[a] <= clock + ProbeInterval /\ nextProbe[a] \in Nat /\ cooldownUntil[a] \in Nat
      BY <2>1, PoolAssumption DEF ClockInv, DispatchTypeOK, PoolTypeOK, HistoryTypeOK
    <3>5. /\ wait \in Nat
          /\ \/ FailureDeadline(r) < clock + wait + Second
             \/ clock + ProbeInterval < clock + wait + Second
      BY <2>1, <3>2, <3>3, <3>4, RetryAfterRounds DEF Zero
    <3> HIDE DEF wait
    <3>6. cooldownUntil[a] < clock + wait + Second \/ nextProbe[a] < clock + wait + Second
      BY <2>1, <3>3, <3>4, <3>5
    <3> QED
      BY <3>6 DEF wait
  <2> QED
    BY <2>2, <2>3
<1> QED
  BY <1>1, Invariance, PTL

\* Selection is sticky: pick moves the active index only past an account that was
\* cooling at its `now`, or that was released under it.
THEOREM Stickiness == Spec => LeavesActiveOnlyWhenCooling
<1>1. ASSUME DispatchInv, [Next]_vars, active' # active
      PROVE  active \in released \/ cooldownUntil[active] > seen[poolLock]
  <2> USE <1>1 DEF DispatchInv
  <2>1. Next
    BY DEF vars, poolVars
  <2>2. Effect
    BY <2>1, EffectOfStep
  <2>3. PICK r \in Requests : ScanAvailable(r) \/ ScanProbe(r)
    BY <2>2 DEF Effect, PoolAtRest, LockPool, Bench, Release, poolVars
  <2>4. poolLock = r
    BY <2>3 DEF ScanAvailable, ScanProbe, LockInv
  <2>5. active \in Accounts /\ 0 \in Accounts /\ Candidate(0) = active
    <3>1. active \in Accounts
      BY DEF DispatchTypeOK, PoolTypeOK
    <3> HIDE <1>1
    <3> QED
      BY <3>1, PoolAssumption DEF Candidate, Accounts
  <2>6. scan[r] \in Nat
    BY DEF DispatchTypeOK, RequestTypeOK, Accounts
  <2>7. PassedOver(active, seen[r])
    <3>1. CASE ScanAvailable(r)
      <4>1. Picked(r, Candidate(scan[r]), FALSE)
        BY <3>1 DEF ScanAvailable, NextRound
      <4>2. active' = Candidate(scan[r])
        BY <4>1 DEF Picked
      <4>3. scan[r] # 0
        BY <2>5, <4>2
      <4>4. 0 \in 0 .. (scan[r] - 1)
        BY <2>6, <4>3
      <4>5. \A i \in 0 .. (scan[r] - 1) : PassedOver(Candidate(i), seen[r])
        BY <3>1 DEF ScanAvailable, ScanInv
      <4> QED
        BY <2>5, <4>4, <4>5
    <3>2. CASE ScanProbe(r)
      BY <2>5, <3>2 DEF ScanProbe, ScanInv
    <3> QED
      BY <2>3, <3>1, <3>2
  <2> QED
    BY <2>4, <2>7 DEF PassedOver
<1>2. DispatchInv /\ [Next]_vars =>
        [active' # active => active \in released \/ cooldownUntil[active] > seen[poolLock]]_vars
  BY <1>1
<1> QED
  BY <1>2, Invariance, PTL DEF Spec, LeavesActiveOnlyWhenCooling
=============================================================================
