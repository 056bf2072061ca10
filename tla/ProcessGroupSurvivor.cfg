SPECIFICATION Spec
CONSTANTS
    t1 = t1
    q1 = q1
    Tasks <- MCTasks
    Prompts = {}
    Probes = {}
    HasListing = FALSE
    HasFallback = FALSE
PROPERTIES
    NothingSurvivesKill
