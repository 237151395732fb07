SPECIFICATION MCSpec
CONSTANTS
    None = None
    Subject = {0, 1, 2, 3}
    p = p
    q = q
    Product = {p, q}
    Plans <- MCPlans
    MaxRecords = 2
    r1 = r1
    r2 = r2
    Resource = {r1, r2}
    Faults = {"cancel", "io", "kill", "foreign"}
    MaxLosses = 1
INVARIANTS
    ReportAgrees
    CountersAreTrue
    FailsClosed
    SessionsAreScoped
    ManifestLast
    FinalFilesWhole
    ValidIsWhole
SYMMETRY Symmetry
