SPECIFICATION Spec
CONSTANTS
    Objects = {o1, o2}
    Sessions = {s1, s2}
    Calls = {"register", "transition", "reissue", "cleanup", "publish", "refer"}
    MaxAttempts = 3
    MaxTokens = 2
CONSTRAINT OneOrFresh
SYMMETRY Interchangeable
INVARIANTS
    ObjectsInvariant
    DeletedIsUnwanted
    DeletedByKin
    ResultsAgree
PROPERTIES
    OwnershipMovesForward
    StatusAdvances
