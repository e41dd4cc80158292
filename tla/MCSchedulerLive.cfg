SPECIFICATION FairSpec
CONSTANTS
    t1 = t1
    t2 = t2
    e1 = e1
    n1 = n1
    None = None
    W = 3
    TicksPerSlot = 1
    UpdateInterval = 2
    Grace = 0
    ResultBuffer = 1
    MaxLate = 1
    MaxRunning = 2
    Tasks = {t1}
    Duration <- MCDuration
    CheckDuration <- MCCheckDuration
    Interval <- MCInterval
    Checked = {}
    Rescheduled = {}
    Exps = {e1}
    Names = {n1}
    RequestBases <- MCBaseZero
    Requests <- MCWholeWindow
    MaxBlocks = 1
PROPERTIES
    Recalibrates
    ResultAnswered
