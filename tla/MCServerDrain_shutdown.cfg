SPECIFICATION DrainFairSpec
CONSTANTS
    h1 = h1
    h2 = h2
    h3 = h3
    ws = ws
    Callers <- FourHandlers
    WebSockets <- OneSocket
    MaxSlots = 1
INVARIANTS DrainInv LimiterInv LogClosedBehindHandlers SlotsReturned NotCutShort
PROPERTIES NoOvertaking EveryWaitEnds StopEnds
CHECK_DEADLOCK FALSE
