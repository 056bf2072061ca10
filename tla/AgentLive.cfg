SPECIFICATION FairSpec
CONSTANTS
    t1 = t1
    t2 = t2
    Tasks = {t1}
    ProcessCap = 1
    HasInProgress = FALSE
    HasAbort = TRUE
    CanExpire = FALSE
    UserActs = {"reopen", "cancel"}
    MaxFaults = 2
    MaxMoves = 1
PROPERTIES
    DeliversResults
    StartedIsSettled
