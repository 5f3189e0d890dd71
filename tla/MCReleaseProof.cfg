SPECIFICATION FairSpec
CONSTANTS
    None = None
    clock30 = clock30
    typed = typed
    Schedule <- ThreeRuns
    Repeated = {clock30}
    Untradeable = {typed}
    MaxBatch = 3
    MaxFaults = 1
    MaxEdition = 2
INVARIANTS ProofInvariant ReceiptIsProof ProvedIsFresh
PROPERTY EventuallyReceipt
CHECK_DEADLOCK FALSE
