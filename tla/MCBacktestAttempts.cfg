SPECIFICATION Spec
CONSTANTS
    Runs = {r1}
    Sessions = {s1, s2}
    Nobody = Nobody
    Leases = {1, 2}
    CloseRequests <- MCCloseRequests
    RecoveryReasons <- MCRecoveryReasons
    MaxAttempts = 2
    MaxTime = 3
SYMMETRY SessionSymmetry
INVARIANTS
    AttemptsInvariant
PROPERTIES
    LiveLeaseIsRespected
    NoSuccessAfterCancellation
    TerminalIsFinal
CHECK_DEADLOCK FALSE
