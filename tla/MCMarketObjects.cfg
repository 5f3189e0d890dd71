SPECIFICATION FairSpec
CONSTANTS
    None = None
    bars = bars
    fixture = fixture
    macd = macd
    Order <- TwoSources
    Outputs <- OneOutput
    Fixtures <- SeededSource
    Buckets = {main, old}
    Target = main
    SealedAway = FALSE
    MaxVersions = 14
    MaxCrashes = 2
INVARIANTS MarketInvariant PreparedSources
PROPERTIES KeepsResolving EventuallyResolved
CHECK_DEADLOCK FALSE
