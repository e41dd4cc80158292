SPECIFICATION Spec
CONSTANTS
    t1 = t1
    t2 = t2
    e1 = e1
    n1 = n1
    None = None
    W = 2
    TicksPerSlot = 2
    UpdateInterval = 1
    Grace = 1
    ResultBuffer = 2
    MaxLate = 4
    MaxRunning = 1
    Tasks = {t1, t2}
    Duration <- MCDuration
    CheckDuration <- MCCheckDuration
    Interval <- MCInterval
    Checked = {t2}
    Rescheduled = {}
    Exps = {}
    Names = {}
    RequestBases <- MCNoRequests
    Requests <- MCNoRequests
    MaxBlocks = 0
INVARIANTS
    TypeOK
    SlotOwnership
    JobsHoldTheirSlots
    WindowIsFilled
PROPERTIES
    UpdateKeepsFutureJobs
