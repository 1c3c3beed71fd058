-------------------------- MODULE AuthRefreshProofs --------------------------
(* Proofs about AuthRefresh, for every number of callers and brokers, wherever
   flock works or one broker owns the login. *)
EXTENDS AuthRefresh, TLAPS

\* The two locks together serialize the refresh across brokers.
LEMMA LocksExclude == LockInv => OneRefresher
BY CallerAssumption, OwnershipAssumption DEF LockInv, OneRefresher, Locked

\* The initial states satisfy the invariant.
LEMMA AuthInit == Init => AuthInv
<1> SUFFICES ASSUME Init PROVE AuthInv
  OBVIOUS
<1>1. AuthTypeOK
  BY CallerAssumption DEF Init, AuthTypeOK, PCs
<1>2. LockInv /\ RefreshInv /\ LoginNeverStranded
  BY CallerAssumption DEF Init, LockInv, RefreshInv, LoginNeverStranded, Locked
<1> QED
  BY <1>1, <1>2 DEF AuthInv

\* Every action keeps the types.
LEMMA AuthTypeStep ==
    ASSUME AuthTypeOK, Next
    PROVE  AuthTypeOK'
<1> USE CallerAssumption DEF AuthTypeOK, locks, disk, locals, PCs
<1>1. ASSUME NEW c \in Callers, Return(c), UNCHANGED <<disk, live>>, lost' \in BOOLEAN PROVE AuthTypeOK'
  BY <1>1 DEF Return
<1>2. ASSUME NEW c \in Callers, Call(c) \/ TakeMutex(c) \/ WaitForFile(c) \/ TakeFileLock(c) PROVE AuthTypeOK'
  BY <1>2 DEF Call, TakeMutex, WaitForFile, TakeFileLock
<1>3. ASSUME NEW c \in Callers, ReadStale(c) \/ ServerKeeps(c) PROVE AuthTypeOK'
  BY <1>3 DEF ReadStale, ServerKeeps
<1>8. ASSUME NEW c \in Callers, ServerRotates(c) PROVE AuthTypeOK'
  BY <1>8 DEF ServerRotates
<1>9. ASSUME NEW c \in Callers, Rename(c) PROVE AuthTypeOK'
  BY <1>9 DEF Rename
<1>4. ASSUME NEW c \in Callers, GiveUpBeforeRefresh(c) \/ ReadFresh(c) \/ RefreshFails(c) \/ SyncDir(c) PROVE AuthTypeOK'
  BY <1>1, <1>4 DEF GiveUpBeforeRefresh, ReadFresh, RefreshFails, SyncDir
<1>5. ASSUME NEW c \in Callers, ResultDropped(c) PROVE AuthTypeOK'
  BY <1>1, <1>5 DEF ResultDropped
<1>6. ASSUME NEW b \in Brokers, Crash(b) PROVE AuthTypeOK'
  BY <1>6 DEF Crash
<1>7. CASE Expire
  BY <1>7 DEF Expire
<1> HIDE DEF AuthTypeOK
<1> QED
  BY <1>2, <1>3, <1>4, <1>5, <1>6, <1>7, <1>8, <1>9 DEF Next, CallerStep

\* Every action, a crash included, keeps holders and places in step.
LEMMA LockStep ==
    ASSUME AuthTypeOK, LockInv, Next
    PROVE  LockInv'
<1> USE CallerAssumption DEF AuthTypeOK, LockInv, Locked, locks, locals
<1>1. ASSUME NEW c \in Callers, Return(c) PROVE LockInv'
  BY <1>1 DEF Return
<1>2. ASSUME NEW c \in Callers, Call(c) \/ WaitForFile(c) PROVE LockInv'
  BY <1>2 DEF Call, WaitForFile
<1>3. ASSUME NEW c \in Callers, TakeMutex(c) PROVE LockInv'
  BY <1>3 DEF TakeMutex
<1>4. ASSUME NEW c \in Callers, TakeFileLock(c) PROVE LockInv'
  BY <1>4 DEF TakeFileLock, FileFree
<1>5. ASSUME NEW c \in Callers, ReadStale(c) \/ ServerRotates(c) \/ ServerKeeps(c) \/ Rename(c) PROVE LockInv'
  BY <1>5 DEF ReadStale, ServerRotates, ServerKeeps, Rename
<1>6. ASSUME NEW c \in Callers,
             GiveUpBeforeRefresh(c) \/ ReadFresh(c) \/ RefreshFails(c) \/ SyncDir(c) \/ ResultDropped(c)
      PROVE  LockInv'
  BY <1>1, <1>6 DEF GiveUpBeforeRefresh, ReadFresh, RefreshFails, SyncDir, ResultDropped
<1>7. ASSUME NEW b \in Brokers, Crash(b) PROVE LockInv'
  BY <1>7 DEF Crash
<1>8. CASE Expire
  BY <1>8 DEF Expire
<1> HIDE DEF AuthTypeOK, LockInv
<1> QED
  BY <1>2, <1>3, <1>4, <1>5, <1>6, <1>7, <1>8 DEF Next, CallerStep

\* Each step keeps the promise of the caller inside the lock and the login alive.
LEMMA RefreshStep ==
    ASSUME AuthInv, Next
    PROVE  RefreshInv' /\ LoginNeverStranded'
<1>1. AuthTypeOK /\ OneRefresher /\ RefreshInv /\ LoginNeverStranded
  BY LocksExclude DEF AuthInv
<1> USE <1>1, CallerAssumption
    DEF AuthTypeOK, RefreshInv, LoginNeverStranded, OneRefresher, Locked, locks, locals, disk
<1>2. ASSUME NEW c \in Callers, Return(c), UNCHANGED <<disk, live>>,
             (lost' = lost /\ pc[c] # "response") \/ lost' = (lost \/ got[c] # diskRefresh)
      PROVE  RefreshInv' /\ LoginNeverStranded'
  BY <1>2 DEF Return
<1>3. ASSUME NEW c \in Callers, Call(c) \/ TakeMutex(c) \/ WaitForFile(c) \/ TakeFileLock(c)
      PROVE  RefreshInv' /\ LoginNeverStranded'
  BY <1>3 DEF Call, TakeMutex, WaitForFile, TakeFileLock
<1>4. ASSUME NEW c \in Callers, ReadStale(c) PROVE RefreshInv' /\ LoginNeverStranded'
  BY <1>4 DEF ReadStale, Stale
<1>5. ASSUME NEW c \in Callers, ServerRotates(c) PROVE RefreshInv' /\ LoginNeverStranded'
  BY <1>5 DEF ServerRotates
<1>6. ASSUME NEW c \in Callers, ServerKeeps(c) PROVE RefreshInv' /\ LoginNeverStranded'
  BY <1>6 DEF ServerKeeps
<1>7. ASSUME NEW c \in Callers, Rename(c) PROVE RefreshInv' /\ LoginNeverStranded'
  BY <1>7 DEF Rename
<1>8. ASSUME NEW c \in Callers,
             GiveUpBeforeRefresh(c) \/ ReadFresh(c) \/ RefreshFails(c) \/ SyncDir(c) \/ ResultDropped(c)
      PROVE  RefreshInv' /\ LoginNeverStranded'
  BY <1>2, <1>8 DEF GiveUpBeforeRefresh, ReadFresh, RefreshFails, SyncDir, ResultDropped
<1>9. ASSUME NEW b \in Brokers, Crash(b) PROVE RefreshInv' /\ LoginNeverStranded'
  BY <1>9 DEF Crash
<1>10. CASE Expire
  BY <1>10 DEF Expire
<1> HIDE DEF RefreshInv, LoginNeverStranded
<1> QED
  BY <1>3, <1>4, <1>5, <1>6, <1>7, <1>8, <1>9, <1>10 DEF Next, CallerStep

\* A stuttering step changes nothing of it.
LEMMA AuthStutter ==
    ASSUME AuthInv, UNCHANGED vars
    PROVE  AuthInv'
BY DEF AuthInv, vars, AuthTypeOK, LockInv, RefreshInv, LoginNeverStranded, locks, locals, disk

\* The inductive invariant of the refresh.
THEOREM AuthInvariance == Spec => []AuthInv
<1>1. AuthInv /\ [Next]_vars => AuthInv'
  BY AuthTypeStep, LockStep, RefreshStep, AuthStutter DEF AuthInv
<1> QED
  BY AuthInit, <1>1, PTL DEF Spec

\* Brokers and goroutines refresh a login one at a time.
THEOREM SingleRefresher == Spec => []OneRefresher
<1>1. AuthInv => OneRefresher
  BY LocksExclude DEF AuthInv
<1> QED
  BY AuthInvariance, <1>1, PTL

\* Unless the live token was dropped, auth.json or its writer has it.
THEOREM LoginSurvives == Spec => []LoginNeverStranded
<1>1. AuthInv => LoginNeverStranded
  BY DEF AuthInv
<1> QED
  BY AuthInvariance, <1>1, PTL

\* A refresh never presents a token that an earlier refresh spent.
THEOREM TokenNotSpent == Spec => []NoSpentToken
<1>1. ASSUME AuthInv PROVE NoSpentToken
  <2>1. OneRefresher
    BY <1>1, LocksExclude DEF AuthInv
  <2> QED
    BY <1>1, <2>1 DEF AuthInv, NoSpentToken, RefreshInv, LoginNeverStranded, OneRefresher, Locked
<1> QED
  BY AuthInvariance, <1>1, PTL

\* A token rotates only while the one in auth.json is stale.
THEOREM RotationNeeded == Spec => NoRedundantRotation
<1>1. ASSUME AuthInv, Next, live' # live PROVE ~diskFresh
  <2>1. PICK c \in Callers : ServerRotates(c)
    BY <1>1 DEF Next, CallerStep, Call, TakeMutex, WaitForFile, TakeFileLock, GiveUpBeforeRefresh,
                ReadFresh, ReadStale, ServerKeeps, RefreshFails, ResultDropped, Rename, SyncDir,
                Crash, Expire
  <2> QED
    BY <1>1, <2>1 DEF ServerRotates, AuthInv, RefreshInv
<1>2. AuthInv /\ [Next]_vars => [live' # live => ~diskFresh]_vars
  BY <1>1 DEF vars
<1> QED
  BY AuthInvariance, <1>2, PTL DEF Spec, NoRedundantRotation
=============================================================================
