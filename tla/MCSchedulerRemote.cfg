SPECIFICATION Spec
CONSTANTS
    t1 = t1
    t2 = t2
    e1 = e1
    n1 = n1
    None = None
    W = 3
    TicksPerSlot = 2
    UpdateInterval = 3
    Grace = 1
    ResultBuffer = 1
    MaxLate = 2
    MaxRunning = 1
    Tasks = {t1}
    Duration <- MCDuration
    CheckDuration <- MCCheckDuration
    Interval <- MCInterval
    Checked = {}
    Rescheduled = {t1}
    Exps = {e1}
    Names = {n1}
    RequestBases <- MCRequestBases
    Requests <- MCRequests
    MaxBlocks = 2
INVARIANTS
    SlotOwnership
    JobsHoldTheirSlots
    NoDoubleBooking
