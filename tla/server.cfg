\* Requests on shifts, the scheduler and a signal, from start to exit.
CONSTANTS
    s1 = s1  s2 = s2
    ann = ann
    hualong = hualong
    w1 = w1  w2 = w2
    ShiftID = {s1, s2}
    EquipmentID = {}
    ClaimID = {}
    Officer = {ann}
    Station = {hualong}
    ShiftSpec <- MCShiftSpec
    EquipmentSpec <- MCNoEquipment
    WeatherReport = {}
    LockLeadTime = 1
    MaxTime = 1
    None = None
    Worker = {w1, w2}
    MaxLoad = 3
SPECIFICATION FairSpec
INVARIANTS TypeOK StartsInTime ApprovalIsSigned NoSweepAfterStop
PROPERTIES ShiftsFollowWorkflow SignalEndsProcess DueShiftsStart
CHECK_DEADLOCK FALSE
