SPECIFICATION Spec
CONSTANTS
    t1 = t1
    t2 = t2
    e1 = e1
    n1 = n1
    None = None
    W = 4
    TicksPerSlot = 2
    UpdateInterval = 4
    Grace = 1
    ResultBuffer = 2
    MaxLate = 2
    MaxRunning = 1
    Tasks = {}
    Duration <- MCDuration
    CheckDuration <- MCCheckDuration
    Interval <- MCInterval
    Checked = {}
    Rescheduled = {}
    Exps = {e1}
    Names = {n1}
    RequestBases <- MCRequestBases
    Requests <- MCRequests
    MaxBlocks = 1
PROPERTIES
    PrunedHaveFired
