CONSTANTS
    c1 = c1
    c2 = c2
    c3 = c3
    b1 = b1
    b2 = b2
    Callers = {c1, c2, c3}
    Brokers = {b1, b2}
    BrokerOf <- TwoBrokers
    None = None
    FlockWorks = TRUE
    MaxToken = 3
SPECIFICATION FairSpec
INVARIANTS AuthInv OneRefresher LoginNeverStranded NoSpentToken
PROPERTIES NoRedundantRotation EveryCallReturns
