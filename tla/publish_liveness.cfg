SPECIFICATION FairSpec
CONSTANTS
    p1 = p1
    p2 = p2
    Publisher = {p1, p2}
    o = o
    d1 = d1
    d2 = d2
    Dir = {o, d1, d2}
    None = None
    Original = o
    Faults = {"cancel"}
    MaxMeddling = 0
PROPERTIES
    FailuresLeaveNoData
