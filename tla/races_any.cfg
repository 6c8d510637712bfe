\* Any two calls may overlap, as in the server.
CONSTANTS
    c1 = c1  c2 = c2  c3 = c3
    s1 = s1  s2 = s2  s3 = s3  s4 = s4
    e1 = e1  e2 = e2
    ann = ann  bo = bo
    hualong = hualong  kaike = kaike
    w1 = w1  w2 = w2
    ShiftID = {s1, s2, s3, s4}
    EquipmentID = {e1, e2}
    ClaimID = {c1, c2, c3}
    Officer = {ann, bo}
    Station = {hualong, kaike}
    ShiftSpec <- MCShiftSpec
    EquipmentSpec <- MCEquipmentSpec
    WeatherReport <- MCWeather
    LockLeadTime = 1
    MaxTime = 2
    None = None
    Worker = {w1, w2}
    Setup <- MCAnyCalls
SPECIFICATION RaceSpec
SYMMETRY RaceSymmetry
INVARIANTS OneHolder
CHECK_DEADLOCK FALSE
