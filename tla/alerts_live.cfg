\* One worker against the sweep and the clock, two keys, batches of two.
CONSTANTS
    r1 = r1  r2 = r2  r3 = r3
    k1 = k1  k2 = k2  k3 = k3
    w1 = w1  w2 = w2
    Report = {r1, r2, r3}
    Key = {k1, k2, k3}
    ReportSpec <- MCReportSpec
    NoTime = NoTime
    AlertID <- MCTwoAlerts
    Worker = {w1}
    Deadline = 2
    MaxTime = 2
    MaxBatch = 2
SPECIFICATION FairSpec
INVARIANTS OneAlertPerKey
PROPERTIES OverdueHandled
CHECK_DEADLOCK FALSE
