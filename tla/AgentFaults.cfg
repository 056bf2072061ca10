SPECIFICATION Spec
CONSTANTS
    t1 = t1
    t2 = t2
    Tasks = {t1}
    ProcessCap = 1
    HasInProgress = TRUE
    HasAbort = TRUE
    CanExpire = TRUE
    UserActs = {"reopen", "cancel", "assign"}
    MaxFaults = 3
    MaxMoves = 1
INVARIANTS
    TypeOK
    SummaryAtMostOnce
    PendingSurvivesCrash
    DoneOnlyWithSummary
