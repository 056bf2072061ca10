SPECIFICATION FairSpec
CONSTANTS
    t1 = t1
    t2 = t2
    j1 = j1
    j2 = j2
    j3 = j3
    Tasks <- MCTasks
    Jobs <- MCJobs
    Caps = {1, 3}
    Concurrency = 2
    Threshold = 2
    MaxChanges = 1
INVARIANTS
    TypeOK
    WithinConcurrency
    NoStrandedWaiter
    AnswersAreCurrent
PROPERTIES
    JobsEnd
