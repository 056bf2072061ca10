SPECIFICATION Spec
CONSTANTS
    t1 = t1
    t2 = t2
    Tasks = {t1}
    ProcessCap = 1
    HasInProgress = FALSE
    HasAbort = TRUE
    CanExpire = FALSE
    UserActs = {}
    MaxFaults = 0
    MaxMoves = 0
PROPERTIES
    NoPickOfDelivered
