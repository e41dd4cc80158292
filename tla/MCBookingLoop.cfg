SPECIFICATION Spec
CONSTANTS
    own = own
    oth = oth
    None = None
    Owner = own
    Other = oth
    W = 4
    TicksPerSlot = 1
    MaxSize = 6
    MaxSlots = 3
    MaxInterval = 3
INVARIANTS
    TypeOK
    BooksGreedily
    GreedyIsUnique
    NothingOverwritten
PROPERTIES
    LoopTerminates
CHECK_DEADLOCK FALSE
