SPECIFICATION Spec
CONSTANTS
    None = None
    Flows <- CorpusFlows
    Prices <- ThreePrices
    MissingBars <- LastShortBar
    InstantsPerSession = 2
    Sessions = 2
    Week <- OneWeekADay
    Month <- OneMonth
    Window = 3
    MaxFills = 3
INVARIANTS
    ReplayInvariant
    PositionsAgree
    PeakAndHoldingAreOwn
    NoHindsight
CHECK_DEADLOCK FALSE
