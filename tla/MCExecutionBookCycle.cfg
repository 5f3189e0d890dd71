SPECIFICATION Spec
CONSTANTS
    Instruments = {i1}
    Spans = {1}
    SlotsPerSession = 2
    Sessions = 2
    Prices = {8, 12}
    Capacities = {0, 1, 2}
    Scale = 8
    FeeRate = 1
    SlippageRate = 1
    BufferRate = 1
    InitialCash = 60
    MaxStrategyNotional = 50
    MaxGrossExposure = 48
    MaxInstrumentExposure = 40
    PositionLimits = {40}
    MaxOrders = 3
    MaxQuantity = 2
INVARIANT HeldHasCycle
CHECK_DEADLOCK FALSE
