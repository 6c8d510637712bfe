\* Two workers, the sweep and the clock overlap freely on retries of one key.
CONSTANTS
    r1 = r1  r2 = r2  r3 = r3
    k1 = k1  k2 = k2  k3 = k3
    w1 = w1  w2 = w2
    Report = {r2, r3}
    Key = {k1, k2, k3}
    ReportSpec <- MCReportSpec
    NoTime = NoTime
    AlertID <- MCTwoAlerts
    Worker = {w1, w2}
    Deadline = 1
    MaxTime = 1
    MaxBatch = 2
SPECIFICATION Spec
SYMMETRY WorkerSymmetry
INVARIANTS TypeOK IndexSound NoReportLost WorkIsSigned
PROPERTIES FollowsWorkflow SignatureStands
CHECK_DEADLOCK FALSE
