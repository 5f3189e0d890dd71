SPECIFICATION PinsSpec
CONSTANTS
    Ids <- ThreeIds
    Days = 3
    MaxRuns = 1
INVARIANTS CoversInvariant VerifiesWhilePinsStand
CHECK_DEADLOCK FALSE
