SPECIFICATION Spec
CONSTANTS
    MaxRounds = 1
    StartComments = TRUE
    MaxUserComments = 2
    MaxNotes = 1
    MaxFaults = 2
INVARIANTS
    TypeOK
    AnsweredOrPending
PROPERTIES
    OneRunPerBatch
    EveryCommentAnswered
