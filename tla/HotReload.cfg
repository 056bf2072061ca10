SPECIFICATION Spec
CONSTANTS
    Unset = Unset
    Garbage = Garbage
    Files <- MCFiles
    Environment <- None
    Projects = {"p"}
    Repositories = {"r", "s"}
    MaxDelay = 3
    Defaults <- MCDefaults
    MaxChanges = 2
    MaxReads = 2
    MaxRevisions = 1
    MaxFaults = 1
INVARIANTS
    TypeOK
    CacheIsCurrent
    OneNote
PROPERTIES
    JobsFollowFile
CHECK_DEADLOCK FALSE
