CONSTANTS
    N = 2
    ProbeInterval = 2
    AuthErrorCooldown = 1
    Cooldowns = {3}
    Requests = {r1, r2}
    NoRequest = NoRequest
    Kinds = {"responses"}
    MaxClock = 4
    Second = 1
SPECIFICATION Spec
SYMMETRY RequestSymmetry
PROPERTY AuthErrorBenches
