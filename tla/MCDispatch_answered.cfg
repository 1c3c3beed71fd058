CONSTANTS
    N = 2
    ProbeInterval = 1
    AuthErrorCooldown = 1
    Cooldowns = {2}
    Requests = {r1, r2}
    NoRequest = NoRequest
    Kinds = {"responses", "websocket", "capability", "bestEffort"}
    MaxClock = 1
    Second = 1
SPECIFICATION FairSpec
PROPERTY EveryRequestAnswered
