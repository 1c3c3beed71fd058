----------------------------- MODULE AuthRefresh -----------------------------
(***************************************************************************)
(* authManager.current (auth.go): the callers of one Codex login, in one   *)
(* or several broker processes, share its auth.json and refresh it when    *)
(* its access token is about to expire.  Refresh tokens rotate: each is    *)
(* good for one exchange, and the login is lost if the successor of a      *)
(* spent one never reaches the disk.                                       *)
(*                                                                         *)
(* A refresh token is its generation number; an access token is only fresh *)
(* or not.  The OAuth server is external: it is modelled from how refresh  *)
(* uses it.                                                                *)
(***************************************************************************)
EXTENDS Integers

CONSTANTS
    Callers,     \* goroutines that call current
    Brokers,     \* broker processes
    BrokerOf,    \* the process each caller runs in
    None,
    FlockWorks,  \* lockFile really locks: linux and darwin
    MaxToken     \* bound on the rotations

ASSUME CallerAssumption ==
    /\ BrokerOf \in [Callers -> Brokers]
    /\ None \notin Callers
    /\ FlockWorks \in BOOLEAN
    /\ MaxToken \in Nat

\* Where lockFile is a no-op only one broker may own the login
\* (docs/multi-account.md, "Ownership note").
ASSUME OwnershipAssumption ==
    FlockWorks \/ \A c, d \in Callers : BrokerOf[c] = BrokerOf[d]

VARIABLES
    mutex,        \* holder of authManager.mu in each process
    fileLock,     \* holder of the flock on auth.json.lock
    pc,           \* where each caller stands
    held,         \* the refresh token it read
    got,          \* the refresh token it goes on with after the exchange
    diskRefresh,  \* refresh_token in auth.json
    diskFresh,    \* its access token expires after now + refreshSkew
    live          \* the refresh token the server accepts

\* History: a rotated token was dropped before it reached the disk.
VARIABLE lost

disk    == <<diskRefresh, diskFresh>>
locks   == <<mutex, fileLock>>
locals  == <<pc, held, got>>
vars    == <<locks, locals, disk, live, lost>>

PCs == {"idle", "mutex", "locked", "flock", "read", "refresh", "response", "sync"}

\* The places inside the file lock.
Locked == {"read", "refresh", "response", "sync"}

AuthTypeOK ==
    /\ mutex \in [Brokers -> Callers \cup {None}]
    /\ fileLock \in Callers \cup {None}
    /\ pc \in [Callers -> PCs]
    /\ held \in [Callers -> Nat]
    /\ got \in [Callers -> Nat]
    /\ diskRefresh \in Nat
    /\ diskFresh \in BOOLEAN
    /\ live \in Nat
    /\ lost \in BOOLEAN

Init ==
    /\ mutex = [b \in Brokers |-> None]
    /\ fileLock = None
    /\ pc = [c \in Callers |-> "idle"]
    /\ held = [c \in Callers |-> 0]
    /\ got = [c \in Callers |-> 0]
    /\ diskRefresh = 0
    /\ diskFresh \in BOOLEAN
    /\ live = 0
    /\ lost = FALSE

-----------------------------------------------------------------------------
\* Mutant of FileFree: the flock is not exclusive.
FileAlwaysFree == TRUE

FileFree == FlockWorks => fileLock = None

\* Mutant of Stale: the deadline in the file is ignored.
AlwaysStale == TRUE

\* auth.json says that the access token runs out within refreshSkew.
Stale == ~diskFresh

\* Mutant of Return: an early return leaves the mutex locked.
ReturnKeepsMutex(c) ==
    /\ pc' = [pc EXCEPT ![c] = "idle"]
    /\ held' = [held EXCEPT ![c] = 0]
    /\ got' = [got EXCEPT ![c] = 0]
    /\ fileLock' = IF fileLock = c THEN None ELSE fileLock
    /\ mutex' = IF pc[c] = "locked" THEN mutex ELSE [mutex EXCEPT ![BrokerOf[c]] = IF @ = c THEN None ELSE @]

\* Mutant of Return: an early return forgets to unlock the file.
ReturnKeepsFile(c) ==
    /\ pc' = [pc EXCEPT ![c] = "idle"]
    /\ held' = [held EXCEPT ![c] = 0]
    /\ got' = [got EXCEPT ![c] = 0]
    /\ fileLock' = IF fileLock = c /\ pc[c] # "read" THEN None ELSE fileLock
    /\ mutex' = [mutex EXCEPT ![BrokerOf[c]] = IF @ = c THEN None ELSE @]

\* The deferred unlocks, innermost first, and the return.
Return(c) ==
    /\ pc' = [pc EXCEPT ![c] = "idle"]
    /\ held' = [held EXCEPT ![c] = 0]
    /\ got' = [got EXCEPT ![c] = 0]
    /\ fileLock' = IF fileLock = c THEN None ELSE fileLock
    /\ mutex' = [mutex EXCEPT ![BrokerOf[c]] = IF @ = c THEN None ELSE @]

\* A caller whose context is already done returns before it locks anything, so
\* its call is no step.
Call(c) ==
    /\ pc[c] = "idle"
    /\ pc' = [pc EXCEPT ![c] = "mutex"]
    /\ UNCHANGED <<locks, held, got, disk, live, lost>>

\* Mutant of TakeMutex: a lock that a second caller passes.
TakeMutexAlways(c) ==
    /\ pc[c] = "mutex"
    /\ mutex' = [mutex EXCEPT ![BrokerOf[c]] = c]
    /\ pc' = [pc EXCEPT ![c] = "locked"]
    /\ UNCHANGED <<fileLock, held, got, disk, live, lost>>

TakeMutex(c) ==
    /\ pc[c] = "mutex" /\ mutex[BrokerOf[c]] = None
    /\ mutex' = [mutex EXCEPT ![BrokerOf[c]] = c]
    /\ pc' = [pc EXCEPT ![c] = "locked"]
    /\ UNCHANGED <<fileLock, held, got, disk, live, lost>>

\* The context is still alive and auth.json.lock is open: block in flock.
WaitForFile(c) ==
    /\ pc[c] = "locked"
    /\ pc' = [pc EXCEPT ![c] = "flock"]
    /\ UNCHANGED <<locks, held, got, disk, live, lost>>

TakeFileLock(c) ==
    /\ pc[c] = "flock" /\ FileFree
    /\ fileLock' = IF FlockWorks THEN c ELSE fileLock
    /\ pc' = [pc EXCEPT ![c] = "read"]
    /\ UNCHANGED <<mutex, held, got, disk, live, lost>>

\* Behind the mutex: the context ended meanwhile, the lock file cannot be opened, or
\* flock fails at once. Behind the file lock: the context ended meanwhile, or
\* auth.json cannot be read or parsed. Nothing takes a caller out of flock.
GiveUpBeforeRefresh(c) ==
    /\ pc[c] \in {"locked", "read"}
    /\ Return(c)
    /\ UNCHANGED <<disk, live, lost>>

ReadFresh(c) ==
    /\ pc[c] = "read" /\ ~Stale
    /\ Return(c)
    /\ UNCHANGED <<disk, live, lost>>

ReadStale(c) ==
    /\ pc[c] = "read" /\ Stale
    /\ held' = [held EXCEPT ![c] = diskRefresh]
    /\ pc' = [pc EXCEPT ![c] = "refresh"]
    /\ UNCHANGED <<locks, got, disk, live, lost>>

\* The server exchanges a live refresh token and hands out a successor, or lets
\* it live on and hands out none (then the old one is kept).
ServerRotates(c) ==
    /\ pc[c] = "refresh" /\ held[c] = live /\ live < MaxToken
    /\ live' = live + 1
    /\ got' = [got EXCEPT ![c] = live + 1]
    /\ pc' = [pc EXCEPT ![c] = "response"]
    /\ UNCHANGED <<locks, held, disk, lost>>

ServerKeeps(c) ==
    /\ pc[c] = "refresh" /\ held[c] = live
    /\ got' = [got EXCEPT ![c] = held[c]]
    /\ pc' = [pc EXCEPT ![c] = "response"]
    /\ UNCHANGED <<locks, held, disk, live, lost>>

\* The exchange fails before it takes effect: the token is spent and rejected,
\* the request is lost, times out or is canceled, or there is no refresh token.
RefreshFails(c) ==
    /\ pc[c] = "refresh"
    /\ Return(c)
    /\ UNCHANGED <<disk, live, lost>>

\* The exchange took effect but its result is dropped: the response is lost, late
\* or canceled with the request's context, its JWT has no deadline or account, or
\* auth.json cannot be written.
ResultDropped(c) ==
    /\ pc[c] = "response"
    /\ lost' = (lost \/ got[c] # diskRefresh)
    /\ Return(c)
    /\ UNCHANGED <<disk, live>>

\* Mutant of Rename: a rotated refresh token is not adopted.
RenameKeepsOldToken(c) ==
    /\ pc[c] = "response"
    /\ diskFresh' = TRUE
    /\ pc' = [pc EXCEPT ![c] = "sync"]
    /\ UNCHANGED <<locks, held, got, diskRefresh, live, lost>>

\* writeAuthDocument up to os.Rename, which replaces the file atomically.
Rename(c) ==
    /\ pc[c] = "response"
    /\ diskRefresh' = got[c]
    /\ diskFresh' = TRUE
    /\ pc' = [pc EXCEPT ![c] = "sync"]
    /\ UNCHANGED <<locks, held, got, live, lost>>

\* syncDir, whose error current returns although the new file is in place.
SyncDir(c) ==
    /\ pc[c] = "sync"
    /\ Return(c)
    /\ UNCHANGED <<disk, live, lost>>

\* A broker dies: its locks are freed and what its callers held is gone.
Crash(b) ==
    LET mine == {c \in Callers : BrokerOf[c] = b} IN
    /\ pc' = [c \in Callers |-> IF c \in mine THEN "idle" ELSE pc[c]]
    /\ held' = [c \in Callers |-> IF c \in mine THEN 0 ELSE held[c]]
    /\ got' = [c \in Callers |-> IF c \in mine THEN 0 ELSE got[c]]
    /\ mutex' = [mutex EXCEPT ![b] = None]
    /\ fileLock' = IF fileLock \in mine THEN None ELSE fileLock
    /\ lost' = (lost \/ \E c \in mine : pc[c] = "response" /\ got[c] # diskRefresh)
    /\ UNCHANGED <<disk, live>>

\* Time passes and the access token in the file nears its end.
Expire ==
    /\ diskFresh
    /\ diskFresh' = FALSE
    /\ UNCHANGED <<locks, locals, diskRefresh, live, lost>>

CallerStep(c) ==
    \/ TakeMutex(c)
    \/ WaitForFile(c)
    \/ TakeFileLock(c)
    \/ GiveUpBeforeRefresh(c)
    \/ ReadFresh(c)
    \/ ReadStale(c)
    \/ ServerRotates(c)
    \/ ServerKeeps(c)
    \/ RefreshFails(c)
    \/ ResultDropped(c)
    \/ Rename(c)
    \/ SyncDir(c)

Next ==
    \/ \E c \in Callers : Call(c) \/ CallerStep(c)
    \/ \E b \in Brokers : Crash(b)
    \/ Expire

Spec == Init /\ [][Next]_vars

\* The refresh client times out after 30 s (main.go:122); sync.Mutex and flock do
\* not starve a waiter.
Fairness ==
    \A c \in Callers :
        WF_vars(CallerStep(c)) /\ SF_vars(TakeMutex(c)) /\ SF_vars(TakeFileLock(c))

FairSpec == Spec /\ Fairness

-----------------------------------------------------------------------------
(* What is expected of the refresh. *)

\* The locks: inside the file lock a caller holds its broker's mutex and, where
\* flock works, the file.
LockInv ==
    /\ \A c \in Callers :
        pc[c] \in Locked \cup {"locked", "flock"} <=> mutex[BrokerOf[c]] = c
    /\ FlockWorks => \A c \in Callers : pc[c] \in Locked <=> fileLock = c

\* At most one caller, of whatever broker, is between reading auth.json and
\* leaving it.
OneRefresher ==
    \A c, d \in Callers : pc[c] \in Locked /\ pc[d] \in Locked => c = d

\* The login survives: the live refresh token is in auth.json, or in the hands of
\* the one caller that is about to write it, unless a failure between the exchange
\* and the rename dropped it (current, writeAuthDocument).
LoginNeverStranded ==
    lost \/ diskRefresh = live \/ \E c \in Callers : pc[c] = "response" /\ got[c] = live

\* No caller presents a spent refresh token, which a rotating server may answer by
\* revoking the login, unless the live one was dropped before.
NoSpentToken ==
    \A c \in Callers : pc[c] = "refresh" => held[c] = live \/ lost

\* Callers that all found the token stale do not refresh it one after another: a
\* rotation happens only while auth.json still holds a stale token.
NoRedundantRotation == [][live' # live => ~diskFresh]_vars

\* The inductive strengthening: what the caller inside the file lock knows.
RefreshInv ==
    \A c \in Callers :
        /\ pc[c] = "refresh" => held[c] = diskRefresh
        /\ pc[c] \in {"refresh", "response"} => ~diskFresh
        /\ pc[c] = "response" => got[c] = live

AuthInv == AuthTypeOK /\ LockInv /\ RefreshInv /\ LoginNeverStranded

\* Every call of current returns, whatever crashes, is canceled or times out: each
\* waits, with no way out but the lock itself, for whoever holds mutex or file, so
\* every way through current has to release both.
EveryCallReturns == \A c \in Callers : pc[c] = "mutex" ~> pc[c] = "idle"
=============================================================================
