----------------------------- MODULE AccountPool -----------------------------
(***************************************************************************)
(* The account pool of accounts.go: per account a cooldown deadline and    *)
(* the time of its next permitted probe, and the sticky index of the       *)
(* active account.  This module holds the pool's state and the operations  *)
(* of `account` (each one critical section of account.mu); Dispatch.tla    *)
(* runs the request loops over it.                                         *)
(*                                                                         *)
(* Time is a natural number of units.  Zero stands for Go's zero           *)
(* time.Time, which lies before every instant the process can read.        *)
(***************************************************************************)
EXTENDS Integers, FiniteSets

CONSTANTS
    N,                  \* len(pool.accounts)
    ProbeInterval,      \* probeInterval (5 minutes)
    AuthErrorCooldown,  \* authErrorCooldown (2 minutes)
    Cooldowns           \* lengths of bench deriveCooldown can return

\* loadConfig never builds an empty pool, and every clamped cooldown is positive.
ASSUME PoolAssumption ==
    /\ N \in Nat \ {0}
    /\ ProbeInterval \in Nat \ {0}
    /\ AuthErrorCooldown \in Nat \ {0}
    /\ Cooldowns \subseteq Nat \ {0}

\* The bench of a broken login is shorter than the probe interval (accounts.go:26-32).
ASSUME BenchAssumption == AuthErrorCooldown <= ProbeInterval

Accounts == 0 .. (N - 1)
Zero     == 0

VARIABLES
    clock,          \* what time.Now() returns
    cooldownUntil,  \* account.cooldownUntil
    nextProbe,      \* account.nextProbe
    active          \* accountPool.active

poolVars == <<cooldownUntil, nextProbe, active>>

-----------------------------------------------------------------------------
(* The operations of `account`. *)

Later(t, u) == IF u > t THEN u ELSE t

Available(a, now) == cooldownUntil[a] <= now

\* Mutant of Cool: the next probe waits for the bench to end.
CoolProbesAtReset(a, now, until) ==
    /\ cooldownUntil' = [cooldownUntil EXCEPT ![a] = Later(@, until)]
    /\ nextProbe' = [nextProbe EXCEPT ![a] = Later(@, until)]

\* account.cool: neither deadline ever moves back.
Cool(a, now, until) ==
    /\ cooldownUntil' = [cooldownUntil EXCEPT ![a] = Later(@, until)]
    /\ nextProbe' = [nextProbe EXCEPT ![a] = Later(@, now + ProbeInterval)]

\* account.probeDue, its test and, when it says yes, its reservation.
ProbeDue(a, now) == cooldownUntil[a] > now /\ nextProbe[a] <= now

\* Mutant of ReserveProbe: a due probe is not reserved.
ReserveNothing(a, now) == UNCHANGED nextProbe

ReserveProbe(a, now) ==
    nextProbe' = [nextProbe EXCEPT ![a] = now + ProbeInterval]

\* account.clearCooldown
ClearCooldown(a) ==
    /\ cooldownUntil' = [cooldownUntil EXCEPT ![a] = Zero]
    /\ nextProbe' = [nextProbe EXCEPT ![a] = Zero]

-----------------------------------------------------------------------------
(* The operations of `accountPool` that only read. *)

\* Mutant of Candidate: plain round robin, starting after the active account.
CandidateAfterActive(i) == (active + i + 1) % N

\* The account that pick looks at in round i of either of its loops.
Candidate(i) == (active + i) % N

\* accountPool.soonestReset: the earliest recorded deadline, lapsed ones included.
Resets == {cooldownUntil[a] : a \in {b \in Accounts : cooldownUntil[b] # Zero}}

SoonestReset ==
    IF Resets = {} THEN Zero ELSE CHOOSE t \in Resets : \A u \in Resets : t <= u

-----------------------------------------------------------------------------
PoolTypeOK ==
    /\ clock \in Nat \ {0}
    /\ cooldownUntil \in [Accounts -> Nat]
    /\ nextProbe \in [Accounts -> Nat]
    /\ active \in Accounts

\* newAccountPool: nobody is cooling, the first file listed is active.
PoolInit ==
    /\ clock = 1
    /\ cooldownUntil = [a \in Accounts |-> Zero]
    /\ nextProbe = [a \in Accounts |-> Zero]
    /\ active = 0
=============================================================================
