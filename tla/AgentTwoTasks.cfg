SPECIFICATION Spec
CONSTANTS
    t1 = t1
    t2 = t2
    Tasks <- MCTasks
    ProcessCap = 1
    HasInProgress = FALSE
    HasAbort = TRUE
    CanExpire = FALSE
    UserActs = {"reopen", "cancel", "assign"}
    MaxFaults = 1
    MaxMoves = 1
SYMMETRY TaskSymmetry
INVARIANTS
    OneFinalizer
    NoRunWhilePending
PROPERTIES
    NoPickAfterRetry
