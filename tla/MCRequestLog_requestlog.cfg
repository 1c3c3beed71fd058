SPECIFICATION LogSpec
CONSTANTS
    Sizes = {2, 3, 4, 8, 9}
    MaxBytes = 8
    RingLimit = 3
    Files <- EarlierFiles
    MaxID = 7
INVARIANTS LogInv MemoryMatchesFile ReportIsConsistent
PROPERTIES NeverGrowsPastLimit ImplementsHistory
