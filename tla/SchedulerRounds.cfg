SPECIFICATION Spec
CONSTANTS
    t1 = t1
    t2 = t2
    t3 = t3
    repo = repo
    lock = lock
    Tasks <- MCTasks
    Keys = {repo, lock}
    RepoKeys = {repo}
    Budgets = {0, 2, 6, 8}
    Descs <- MCDescs
    Answers <- MCAnswers
SYMMETRY TaskSymmetry
INVARIANTS
    TypeOK
    ConflictFree
    StartsWhatItCan
    OvertakenByLighter
PROPERTIES
    RoundFits
