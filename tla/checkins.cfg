\* A backlog of three records, one of them invalid, sent over a lossy network.
CONSTANTS
    r1 = r1  r2 = r2  r3 = r3
    k1 = k1  k2 = k2  k3 = k3
    w1 = w1  w2 = w2
    Record = {r1, r2, r3}
    Key = {k1, k2, k3}
    RecordSpec <- MCRecordSpec
    NoTime = NoTime
    CheckInID <- MCCheckIns
    Worker = {w1, w2}
    MaxTime = 1
    MaxBatch = 3
SPECIFICATION FairSpec
INVARIANTS TypeOK NothingForgotten ReplayedByDeviceTime CountedOnce
PROPERTIES Delivered
CHECK_DEADLOCK FALSE
