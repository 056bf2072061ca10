SPECIFICATION Spec
CONSTANTS
    Projects <- MCProjects
    Contents <- MCContents
    Edits <- MCEdits
    MaxChanges = 2
    MaxFaults = 1
INVARIANTS
    TypeOK
    ConversationsHeard
PROPERTIES
    LatestApplied
CHECK_DEADLOCK FALSE
