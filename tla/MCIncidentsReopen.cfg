SPECIFICATION Spec
CONSTANTS
    s1 = s1
    s2 = s2
    p1 = p1
    m1 = m1
    i1 = i1
    i2 = i2
    Sessions = {s1, s2}
    Probes = {p1}
    NoProbe = NoProbe
    Serials = {m1}
    NoSerial = NoSerial
    Severities = {100}
    Ids = {i1, i2}
    None = None
    MaxOps = 4
    MaxFaults = 1
PROPERTIES OfferedStatusSaved
CHECK_DEADLOCK FALSE
