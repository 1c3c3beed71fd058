SPECIFICATION LiveSpec
CONSTANTS
    KeyFiles <- ClientFiles
    Implicit <- ApiKey
    Nobody = Nobody
    StatInterval = 2
    MaxClock = 3
    Handlers = {h1, h2}
    Tokens = {"k1", "k2"}
    Offers <- SomeOffers
    CallIDs = {"c1", "c2"}
    MaxCalls = 1
    TTL = 1
INVARIANTS LiveInv AttributedAsAdmitted LocationUsable
PROPERTIES RotationTakesEffect
SYMMETRY SymmetricHandlers
