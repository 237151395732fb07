SPECIFICATION Spec
CONSTANTS
    p1 = p1
    Publisher = {p1}
    o = o
    d1 = d1
    d2 = d2
    Dir = {o, d1, d2}
    None = None
    Original = o
    Faults = {"cancel", "crash", "io", "insertTarget", "insertStaging", "swapTarget", "swapStaging"}
    MaxMeddling = 3
PROPERTIES
    NeverAbsent
    NothingElseIsLost
SYMMETRY Symmetry
