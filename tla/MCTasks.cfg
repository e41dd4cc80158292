SPECIFICATION FairSpec
CONSTANTS
    a = a
    b = b
    c = c
    Root = Root
    Unknown = Unknown
    TaskList <- MCTaskList
    Configurations <- MCConfigurations
    TooFrequent <- MCTooFrequent
    MaxFaults <- MCMaxFaults
CHECK_DEADLOCK FALSE
INVARIANTS
    TypeOK
    OrderIsTopological
    RecoversFromTheTop
    InSpecIsEarned
    SilenceIsExplained
PROPERTY BackInSpec
