SPECIFICATION Spec
CONSTANTS
    RunningLabels <- MCRunningLabels
    HumanLabels <- MCHumanLabels
    MaxEdits = 2
    MaxFaults = 1
    MaxCrashes = 2
INVARIANTS
    TypeOK
    ShownWhileWorking
PROPERTIES
    LabelGoes
