SPECIFICATION Spec
CONSTANTS
    t1 = t1
    q1 = q1
    Tasks <- MCTasks
    Prompts = {}
    Probes <- MCProbes
    HasListing = TRUE
    HasFallback = TRUE
INVARIANTS
    TypeOK
    SignalsOnlyLive
    AbortWins
    CliGoneAtExit
PROPERTIES
    RunsSettle
    AbortSettles
