------------------------------ MODULE Dispatch -------------------------------
(***************************************************************************)
(* Concurrent requests running the broker's failover loops over one        *)
(* account pool:                                                           *)
(*   "responses"   dispatchUpstream (proxy.go), the HTTP Responses, Chat   *)
(*                 and Images paths;                                       *)
(*   "websocket"   dialResponsesWebSocket (websocket.go) and the session   *)
(*                 it opens;                                               *)
(*   "capability"  postSubscription (capabilities.go), native compaction   *)
(*                 and voice calls;                                        *)
(*   "bestEffort"  the callers of accountPool.preferred: model list, usage *)
(*                 and alpha search, which never bench or release.         *)
(*                                                                         *)
(* A step is one critical section of account.mu or accountPool.mu, with    *)
(* the clock read just before it; whatever can block (the pool mutex, the  *)
(* token refresh, the upstream call) lies between two steps.  pick is      *)
(* therefore a scan that other requests' cool and clearCooldown interleave *)
(* with, run against the `now` that was read before the pool was locked.   *)
(***************************************************************************)
EXTENDS AccountPool

CONSTANTS
    Requests,   \* handler goroutines; each may serve one request after another
    NoRequest,
    Kinds,      \* which of the four loops arriving requests run
    Second,     \* units of time in the second that Retry-After counts in
    MaxClock    \* bound: time stops here

Loops == {"responses", "websocket", "capability", "bestEffort"}

ASSUME RequestAssumption ==
    /\ NoRequest \notin Requests
    /\ Kinds \subseteq Loops
    /\ MaxClock \in Nat
    /\ Second \in Nat \ {0}

VARIABLES
    poolLock,   \* holder of accountPool.mu
    pc,         \* where each request stands
    kind,       \* the loop it runs
    attempt,    \* the loop variable
    seen,       \* `now`, read at the loop head and handed to pick
    scan,       \* i of the pick loop it is in
    acct,       \* the account pick returned
    probing,    \* pick returned it as a probe
    failure     \* lastRateLimit / lastAuthErr / lastFailure

\* History, read by the properties only.
VARIABLES
    lastTouch,  \* when each account was last benched or let through as a probe
    lastProbe,  \* the `now` of each account's last probe
    released,   \* accounts released since the holder of the pool locked it
    overtaken   \* requests whose account was benched since they were sent

requestVars == <<poolLock, pc, kind, attempt, seen, scan, acct, probing, failure>>
history     == <<lastTouch, lastProbe, released, overtaken>>
vars        == <<clock, poolVars, requestVars, history>>

-----------------------------------------------------------------------------
PCs == {"idle", "loop", "lockPool", "scanAvailable", "scanProbe", "refused",
        "auth", "sent", "session"}

NoFailure == [is |-> "none", until |-> Zero]
Failures  == [is : {"none", "auth", "rate"}, until : Nat]

RequestTypeOK ==
    /\ poolLock \in Requests \cup {NoRequest}
    /\ pc \in [Requests -> PCs]
    /\ kind \in [Requests -> Loops]
    /\ attempt \in [Requests -> 0 .. N]
    /\ seen \in [Requests -> Nat]
    /\ scan \in [Requests -> Accounts]
    /\ acct \in [Requests -> Accounts]
    /\ probing \in [Requests -> BOOLEAN]
    /\ failure \in [Requests -> Failures]

HistoryTypeOK ==
    /\ lastTouch \in [Accounts -> Int]
    /\ lastProbe \in [Accounts -> Int]
    /\ released \subseteq Accounts
    /\ overtaken \subseteq Requests

\* Every variable keeps its type; `attempt` never passes the size of the pool and
\* `scan` always names a round of the pick loops.
DispatchTypeOK == PoolTypeOK /\ RequestTypeOK /\ HistoryTypeOK

\* Long enough ago: a time that constrains no probe.
LongAgo == -ProbeInterval

Init ==
    /\ PoolInit
    /\ poolLock = NoRequest
    /\ pc = [r \in Requests |-> "idle"]
    /\ kind = [r \in Requests |-> "responses"]
    /\ attempt = [r \in Requests |-> 0]
    /\ seen = [r \in Requests |-> 0]
    /\ scan = [r \in Requests |-> 0]
    /\ acct = [r \in Requests |-> 0]
    /\ probing = [r \in Requests |-> FALSE]
    /\ failure = [r \in Requests |-> NoFailure]
    /\ lastTouch = [a \in Accounts |-> LongAgo]
    /\ lastProbe = [a \in Accounts |-> LongAgo]
    /\ released = {}
    /\ overtaken = {}

-----------------------------------------------------------------------------
(* Helpers: where a request goes next, and what it leaves clean behind it. *)

Goto(r, label) == pc' = [pc EXCEPT ![r] = label]

\* The call is over with this attempt: its locals go out of scope.
EndAttempt(r) ==
    /\ seen' = [seen EXCEPT ![r] = 0]
    /\ probing' = [probing EXCEPT ![r] = FALSE]

\* The client has its answer, and the goroutine may take another request.
Respond(r) ==
    /\ Goto(r, "idle")
    /\ EndAttempt(r)
    /\ kind' = [kind EXCEPT ![r] = "responses"]
    /\ attempt' = [attempt EXCEPT ![r] = 0]
    /\ acct' = [acct EXCEPT ![r] = 0]
    /\ failure' = [failure EXCEPT ![r] = NoFailure]
    /\ UNCHANGED <<poolLock, scan>>

\* continue: the next attempt, on whatever account pick then finds.
NextAttempt(r, fail) ==
    /\ Goto(r, "loop")
    /\ EndAttempt(r)
    /\ attempt' = [attempt EXCEPT ![r] = @ + 1]
    /\ acct' = [acct EXCEPT ![r] = 0]
    /\ failure' = [failure EXCEPT ![r] = fail]
    /\ UNCHANGED <<poolLock, kind, scan>>

\* cool and clearCooldown as the requests call them, with their history.
Bench(r, now, until) ==
    /\ Cool(acct[r], now, until)
    /\ lastTouch' = [lastTouch EXCEPT ![acct[r]] = clock]
    /\ overtaken' = {q \in Requests : q # r /\ pc[q] = "sent"
                                        /\ (q \in overtaken \/ acct[q] = acct[r])}
    /\ UNCHANGED <<active, lastProbe, released>>

Release(r) ==
    /\ ClearCooldown(acct[r])
    /\ released' = IF poolLock = NoRequest THEN released ELSE released \cup {acct[r]}
    /\ overtaken' = overtaken \ {r}
    /\ UNCHANGED <<active, lastTouch, lastProbe>>

\* The request leaves the pool alone.
LeavesPool(r) ==
    /\ overtaken' = overtaken \ {r}
    /\ UNCHANGED <<poolVars, lastTouch, lastProbe, released>>

\* Mutant of RetryAfter: the cap is a second short of the probe interval.
RetryAfterCappedShort(until) ==
    LET cap  == ProbeInterval - Second
        wait == IF until - clock > cap THEN cap ELSE until - clock
    IN  IF until = Zero \/ wait <= 0 THEN 0 ELSE Second * (wait \div Second)

\* writeDispatchFailure: the wait in the Retry-After header, capped for a 429 at
\* the probe interval and cut to whole seconds; nothing is sent for less than one.
RetryAfter(until) ==
    LET wait == IF until - clock > ProbeInterval THEN ProbeInterval ELSE until - clock
    IN  IF until = Zero \/ wait <= 0 THEN 0 ELSE Second * (wait \div Second)

\* dispatchUpstream and the WebSocket handler report a rate limit they met
\* before an auth error; postSubscription reports whichever came last.
AuthFailure(r) ==
    IF kind[r] # "capability" /\ failure[r].is = "rate"
    THEN failure[r]
    ELSE [is |-> "auth", until |-> Zero]

RateFailure(until) == [is |-> "rate", until |-> until]

-----------------------------------------------------------------------------
(* The loop head and pick. *)

Arrive(r, k) ==
    /\ pc[r] = "idle"
    /\ Goto(r, "loop")
    /\ kind' = [kind EXCEPT ![r] = k]
    /\ UNCHANGED <<clock, poolVars, poolLock, attempt, seen, scan, acct, probing, failure, history>>

BeginAttempt(r) ==
    /\ pc[r] = "loop" /\ attempt[r] < N
    /\ Goto(r, "lockPool")
    /\ seen' = [seen EXCEPT ![r] = clock]
    /\ UNCHANGED <<clock, poolVars, poolLock, kind, attempt, scan, acct, probing, failure, history>>

\* ctx.Err() at the loop head (408); preferred's callers have no such check.
CanceledAtLoop(r) ==
    /\ pc[r] = "loop" /\ attempt[r] < N /\ kind[r] # "bestEffort"
    /\ Respond(r)
    /\ LeavesPool(r)
    /\ UNCHANGED clock

\* Mutant of LockPool: pick does not take the pool's mutex for its scan.
LockPoolAlways(r) ==
    /\ pc[r] = "lockPool"
    /\ poolLock' = r
    /\ Goto(r, "scanAvailable")
    /\ UNCHANGED <<clock, poolVars, kind, attempt, seen, scan, acct, probing, failure, history>>

LockPool(r) ==
    /\ pc[r] = "lockPool" /\ poolLock = NoRequest
    /\ poolLock' = r
    /\ Goto(r, "scanAvailable")
    /\ UNCHANGED <<clock, poolVars, kind, attempt, seen, scan, acct, probing, failure, history>>

\* pick returns account a: it becomes the active one and the pool is unlocked.
Picked(r, a, probe) ==
    /\ active' = a
    /\ acct' = [acct EXCEPT ![r] = a]
    /\ probing' = [probing EXCEPT ![r] = probe]
    /\ scan' = [scan EXCEPT ![r] = 0]
    /\ poolLock' = NoRequest
    /\ released' = {}
    /\ Goto(r, "auth")

\* The loop of pick that r is in goes on to its next round.
NextRound(r) ==
    /\ scan[r] + 1 < N
    /\ scan' = [scan EXCEPT ![r] = @ + 1]
    /\ UNCHANGED <<pc, poolLock, released>>

\* One round of pick's first loop.
ScanAvailable(r) ==
    /\ pc[r] = "scanAvailable"
    /\ LET a == Candidate(scan[r]) IN
        \/ /\ Available(a, seen[r])
           /\ Picked(r, a, FALSE)
        \/ /\ ~Available(a, seen[r])
           /\ \/ NextRound(r)
              \/ /\ scan[r] + 1 = N
                 /\ scan' = [scan EXCEPT ![r] = 0]
                 /\ Goto(r, "scanProbe")
                 /\ UNCHANGED <<poolLock, released>>
           /\ UNCHANGED <<active, acct, probing>>
    /\ UNCHANGED <<clock, cooldownUntil, nextProbe, kind, attempt, seen, failure, lastTouch, lastProbe, overtaken>>

\* Mutant of PickFails: the error return forgets the pool mutex.
PickFailsLocked(r) ==
    /\ scan[r] + 1 = N
    /\ scan' = [scan EXCEPT ![r] = 0]
    /\ released' = {}
    /\ Goto(r, "refused")
    /\ UNCHANGED poolLock

\* Both loops found nothing: unlock the pool and return errAllCoolingDown.
PickFails(r) ==
    /\ scan[r] + 1 = N
    /\ scan' = [scan EXCEPT ![r] = 0]
    /\ poolLock' = NoRequest
    /\ released' = {}
    /\ Goto(r, "refused")

\* One round of pick's second loop.
ScanProbe(r) ==
    /\ pc[r] = "scanProbe"
    /\ LET a == Candidate(scan[r]) IN
        \/ /\ ProbeDue(a, seen[r])
           /\ ReserveProbe(a, seen[r])
           /\ lastProbe' = [lastProbe EXCEPT ![a] = seen[r]]
           /\ lastTouch' = [lastTouch EXCEPT ![a] = clock]
           /\ Picked(r, a, TRUE)
        \/ /\ ~ProbeDue(a, seen[r])
           /\ NextRound(r) \/ PickFails(r)
           /\ UNCHANGED <<active, nextProbe, acct, probing, lastTouch, lastProbe>>
    /\ UNCHANGED <<clock, cooldownUntil, kind, attempt, seen, failure, overtaken>>

\* preferred: pick returned errAllCoolingDown, so lock the pool again and fall
\* back on the active account.
FallBackOnActive(r) ==
    /\ pc[r] = "refused" /\ kind[r] = "bestEffort" /\ poolLock = NoRequest
    /\ Goto(r, "auth")
    /\ acct' = [acct EXCEPT ![r] = active]
    /\ UNCHANGED <<clock, poolVars, poolLock, kind, attempt, seen, scan, probing, failure, history>>

-----------------------------------------------------------------------------
(* authManager.current and the upstream call. *)

AuthReady(r) ==
    /\ pc[r] = "auth"
    /\ Goto(r, "sent")
    /\ seen' = [seen EXCEPT ![r] = 0]
    /\ UNCHANGED <<clock, poolVars, poolLock, kind, attempt, scan, acct, probing, failure, history>>

\* dispatchUpstream benches from the `now` it read before pick; the two other
\* loops read the clock again.
AuthBenchFrom(r) == IF kind[r] = "responses" THEN seen[r] ELSE clock

AuthFailed(r) ==
    /\ pc[r] = "auth" /\ kind[r] # "bestEffort"
    /\ Bench(r, AuthBenchFrom(r), AuthBenchFrom(r) + AuthErrorCooldown)
    /\ NextAttempt(r, AuthFailure(r))
    /\ UNCHANGED clock

\* current fails because the client went away (408, no bench), or fails at all
\* for a best-effort caller (502).
AuthAbandoned(r) ==
    /\ pc[r] = "auth"
    /\ Respond(r)
    /\ LeavesPool(r)
    /\ UNCHANGED clock

\* A status below 400: whatever cooldown the account carries is released.
UpstreamServed(r) ==
    /\ pc[r] = "sent" /\ kind[r] \in {"responses", "capability"}
    /\ Release(r)
    /\ Respond(r)
    /\ UNCHANGED clock

\* The handshake succeeded: the account is released and pinned to the session.
HandshakeAccepted(r) ==
    /\ pc[r] = "sent" /\ kind[r] = "websocket"
    /\ Release(r)
    /\ Goto(r, "session")
    /\ EndAttempt(r)
    /\ attempt' = [attempt EXCEPT ![r] = 0]
    /\ failure' = [failure EXCEPT ![r] = NoFailure]
    /\ UNCHANGED <<clock, poolLock, kind, scan, acct>>

\* A best-effort call is answered; the callers of preferred release nothing.
BestEffortServed(r) ==
    /\ pc[r] = "sent" /\ kind[r] = "bestEffort"
    /\ Respond(r)
    /\ LeavesPool(r)
    /\ UNCHANGED clock

UpstreamRateLimited(r, d) ==
    /\ pc[r] = "sent" /\ kind[r] # "bestEffort"
    /\ Bench(r, clock, clock + d)
    /\ NextAttempt(r, RateFailure(clock + d))
    /\ UNCHANGED clock

\* Any other answer ends the request without touching the pool: an upstream
\* error status, a transport failure, a 429 whose body postSubscription could
\* not read, a 429 to a best-effort call.
UpstreamOther(r) ==
    /\ pc[r] = "sent"
    /\ Respond(r)
    /\ LeavesPool(r)
    /\ UNCHANGED clock

\* A 429 event on an established WebSocket (observeServerEvent): the account is
\* benched and the session ends so that the client reconnects.
SessionRateLimited(r, d) ==
    /\ pc[r] = "session"
    /\ Bench(r, clock, clock + d)
    /\ Respond(r)
    /\ UNCHANGED clock

SessionClosed(r) ==
    /\ pc[r] = "session"
    /\ Respond(r)
    /\ LeavesPool(r)
    /\ UNCHANGED clock

\* A loop is over when pick refused or every attempt was used up.
OutOfAccounts(r) ==
    /\ kind[r] # "bestEffort"
    /\ pc[r] = "refused" \/ (pc[r] = "loop" /\ attempt[r] = N)

\* The code after the loops.  The deadline reported with a 429 is the soonest
\* reset of the pool, except that postSubscription hands on its last failure.
FailureDeadline(r) ==
    CASE failure[r].is = "rate" /\ kind[r] = "capability" -> failure[r].until
      [] failure[r].is = "rate" /\ kind[r] = "responses" /\ SoonestReset = Zero -> failure[r].until
      [] OTHER -> SoonestReset

\* The status the client of a loop that ran out of accounts gets.
FailureStatus(r) == IF failure[r].is = "auth" THEN 502 ELSE 429

GiveUp(r) ==
    /\ OutOfAccounts(r)
    /\ Respond(r)
    /\ LeavesPool(r)
    /\ UNCHANGED clock

-----------------------------------------------------------------------------
Tick ==
    /\ clock < MaxClock
    /\ clock' = clock + 1
    /\ UNCHANGED <<poolVars, requestVars, history>>

RequestStep(r) ==
    \/ BeginAttempt(r)
    \/ CanceledAtLoop(r)
    \/ LockPool(r)
    \/ ScanAvailable(r)
    \/ ScanProbe(r)
    \/ FallBackOnActive(r)
    \/ AuthReady(r)
    \/ AuthFailed(r)
    \/ AuthAbandoned(r)
    \/ UpstreamServed(r)
    \/ HandshakeAccepted(r)
    \/ BestEffortServed(r)
    \/ \E d \in Cooldowns : UpstreamRateLimited(r, d)
    \/ UpstreamOther(r)
    \/ GiveUp(r)

SessionEnds(r) == SessionClosed(r) \/ \E d \in Cooldowns : SessionRateLimited(r, d)

Next ==
    \/ Tick
    \/ \E r \in Requests :
        \/ \E k \in Kinds : Arrive(r, k)
        \/ RequestStep(r)
        \/ SessionEnds(r)

Spec == Init /\ [][Next]_vars

\* Goroutines are scheduled, the upstream clients time out (cfg.timeout, 30 s for
\* a refresh), and a waiter cannot lose sync.Mutex for ever (starvation mode).
Fairness ==
    \A r \in Requests : WF_vars(RequestStep(r)) /\ SF_vars(LockPool(r) \/ FallBackOnActive(r))

FairSpec == Spec /\ Fairness

-----------------------------------------------------------------------------
(* The inductive invariant behind the safety properties. *)

\* A request past the loop head is in one of its N attempts.
AttemptInv ==
    \A r \in Requests : pc[r] \notin {"idle", "loop", "session"} => attempt[r] < N

\* pick runs under accountPool.mu, and each of its calls starts at round 0.
LockInv ==
    \A r \in Requests :
        /\ pc[r] \in {"scanAvailable", "scanProbe"} <=> poolLock = r
        /\ poolLock # r => scan[r] = 0

\* No request carries a `now` from the future, and no account waits longer for
\* its next probe than one interval after it was last benched or probed.
ClockInv ==
    /\ \A r \in Requests : seen[r] <= clock
    /\ \A a \in Accounts :
        /\ LongAgo <= lastTouch[a] /\ lastTouch[a] <= clock
        /\ lastProbe[a] <= clock
        /\ nextProbe[a] <= lastTouch[a] + ProbeInterval

\* The reservation of the last probe stands, unless the account was released
\* since and is not benched past its next probe.
SpacingInv ==
    \A a \in Accounts :
        nextProbe[a] >= lastProbe[a] + ProbeInterval \/ cooldownUntil[a] <= nextProbe[a]

\* The accounts that pick has passed over are cooling, or were released since;
\* those it has passed over twice are not due for a probe either.
PassedOver(a, now)  == cooldownUntil[a] > now \/ a \in released
NotDue(a, now)      == nextProbe[a] > now \/ a \in released

ScanInv ==
    \A r \in Requests :
        /\ pc[r] = "scanAvailable" =>
            \A i \in 0 .. (scan[r] - 1) : PassedOver(Candidate(i), seen[r])
        /\ pc[r] = "scanProbe" =>
            /\ \A i \in Accounts : PassedOver(Candidate(i), seen[r])
            /\ \A i \in 0 .. (scan[r] - 1) : NotDue(Candidate(i), seen[r])

DispatchInv == DispatchTypeOK /\ AttemptInv /\ LockInv /\ ClockInv /\ SpacingInv /\ ScanInv

-----------------------------------------------------------------------------
(* What is expected of the pool. *)

\* The steps the properties speak of.
Probes(r)  == pc[r] = "scanProbe" /\ pc'[r] = "auth"
Refuses(r) == pc[r] = "scanProbe" /\ pc'[r] = "refused"

\* Upstream sees at most one probe per interval and account: whatever requests
\* bench, release and pick in between, and however old the `now` they carry, two
\* probes of one account are at least ProbeInterval apart (account.probeDue).
ProbesSpaced ==
    [][\A r \in Requests : Probes(r) =>
          seen[r] >= lastProbe[acct'[r]] + ProbeInterval]_vars

\* Stale cooldowns never keep the pool dark: pick refuses a request only if every
\* account was benched or probed less than ProbeInterval before the request's
\* `now`, or was released while pick was scanning (accountPool.pick).
RefusedOnlyOnRecentEvidence ==
    [][\A r \in Requests : Refuses(r) =>
          \A a \in Accounts :
             seen[r] < lastTouch[a] + ProbeInterval \/ a \in released]_vars

\* Selection is sticky: pick leaves the active account only if that account was
\* cooling at the request's `now`, or was released while pick was scanning.
LeavesActiveOnlyWhenCooling ==
    [][active' # active =>
          \/ active \in released
          \/ cooldownUntil[active] > seen[poolLock]]_vars

\* A client told to come back is sent away again for less than a second: when the
\* Retry-After of a 429 from dispatchUpstream or the WebSocket handler and the
\* fraction that the header cuts off have passed, some account is out of its
\* cooldown or due for a probe (writeDispatchFailure's cap).
RetryAfterFindsAnAccount ==
    \A r \in Requests :
        OutOfAccounts(r) /\ kind[r] # "capability" /\ FailureStatus(r) = 429 =>
            \E a \in Accounts :
                LET back == clock + RetryAfter(FailureDeadline(r)) + Second IN
                cooldownUntil[a] < back \/ nextProbe[a] < back

\* Every request is answered or becomes a session: attempts are bounded, and
\* neither the pool mutex nor a cooling pool can hold a request for ever.
EveryRequestAnswered ==
    \A r \in Requests : pc[r] = "loop" ~> pc[r] \in {"idle", "session"}

-----------------------------------------------------------------------------
(* What the documentation says and the code does not do. *)

\* docs/multi-account.md: an account whose token refresh fails is benched, so
\* that the pool rotates past it.
AuthErrorBenches ==
    [][\A r \in Requests : pc[r] = "auth" /\ pc'[r] = "loop" =>
          cooldownUntil'[acct[r]] > clock]_vars

\* docs/multi-account.md: the Retry-After of a 429 points at the soonest reset
\* across the pool, capped at the probe interval.
RetryAfterIsSoonest ==
    \A r \in Requests : OutOfAccounts(r) /\ FailureStatus(r) = 429 =>
        RetryAfter(FailureDeadline(r)) = RetryAfter(SoonestReset)

\* docs/multi-account.md: a non-error response to a probe clears the account's
\* cooldown outright.
ProbeSuccessClears ==
    [][\A r \in Requests :
          probing[r] /\ (UpstreamServed(r) \/ HandshakeAccepted(r) \/ BestEffortServed(r)) =>
             cooldownUntil'[acct[r]] = Zero]_vars

\* clearCooldown's comment: a success proves that the recorded cooldown is out of
\* date, so it never erases one that was recorded after the request was sent.
SuccessIsNewerThanCooldown ==
    [][\A r \in Requests :
          r \in overtaken /\ (UpstreamServed(r) \/ HandshakeAccepted(r)) =>
             Available(acct[r], clock)]_vars
=============================================================================
