SPECIFICATION Spec
CONSTANTS
    i1 = i1
    Instruments = {i1}
    Flows = {f}
    OtherSides <- BothSides
    Terminals <- AnyTerminal
    BarLengths <- SomeLengths
    OtherLengths <- OneInstant
    InstantsPerSession = 2
    Sessions = 3
INVARIANTS
    WithinLimit
PROPERTIES
    WaitsAreKept
    DueIsAttempted
CHECK_DEADLOCK FALSE
