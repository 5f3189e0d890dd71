SPECIFICATION PlanSpec
CONSTANTS
    Partitions = {p, q}
    Instruments = {x, y}
    Clocks <- TwoClocks
    MaxFlows = 3
INVARIANTS
    PlansInvariant
    AcceptedResolves
    NoForeignClock
CHECK_DEADLOCK FALSE
