CONSTANTS
    N = 2
    ProbeInterval = 2
    AuthErrorCooldown = 1
    Cooldowns = {3}
    Requests = {r1, r2}
    NoRequest = NoRequest
    Kinds = {"responses", "websocket", "bestEffort"}
    MaxClock = 3
    Second = 2
SPECIFICATION Spec
SYMMETRY RequestSymmetry
INVARIANTS DispatchInv RetryAfterFindsAnAccount
PROPERTIES RefusedOnlyOnRecentEvidence LeavesActiveOnlyWhenCooling ProbesSpaced
