SPECIFICATION FairSpec
CONSTANTS
    aapl = aapl
    msft = msft
    None = None
    Order <- TwoSamples
    MaxStrategies = 6
    PageLimit = 6
    MaxFaults = 3
    MaxEdits = 1
INVARIANTS
    SeedingInvariant
    DoneIsPrepared
    OthersUntouched
PROPERTIES
    EventuallyPrepared
CHECK_DEADLOCK FALSE
