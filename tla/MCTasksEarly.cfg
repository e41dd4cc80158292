SPECIFICATION Spec
CONSTANTS
    a = a
    b = b
    c = c
    Root = Root
    Unknown = Unknown
    TaskList <- MCTaskList
    Configurations <- MCConfigurations
    TooFrequent <- MCTooFrequent
    MaxFaults <- MCMaxFaults
CHECK_DEADLOCK FALSE
INVARIANT BlockedUntilSuccess
