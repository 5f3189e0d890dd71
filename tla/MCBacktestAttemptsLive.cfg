SPECIFICATION FairSpec
CONSTANTS
    Runs = {r1}
    Sessions = {s1, s2}
    Nobody = Nobody
    Leases = {1}
    CloseRequests <- MCFewRequests
    RecoveryReasons <- MCOneRecoveryReason
    MaxAttempts = 2
    MaxTime = 2
PROPERTIES
    ImplementsLedger
    HolderIsReleased
CHECK_DEADLOCK FALSE
