\* A home shift and an urgent cross-station one, one drone, three claims.
CONSTANTS
    c1 = c1  c2 = c2  c3 = c3
    s1 = s1  s2 = s2
    e1 = e1
    ann = ann  bo = bo
    hualong = hualong  kaike = kaike
    ShiftID = {s1, s2}
    EquipmentID = {e1}
    ClaimID = {c1, c2, c3}
    Officer = {ann, bo}
    Station = {hualong, kaike}
    ShiftSpec <- MCShiftSpec
    EquipmentSpec <- MCEquipmentSpec
    WeatherReport <- MCWeather
    LockLeadTime = 2
    MaxTime = 3
    None = None
SPECIFICATION Spec
SYMMETRY ClaimSymmetry
PROPERTY TerminalIsFinal
CHECK_DEADLOCK FALSE
