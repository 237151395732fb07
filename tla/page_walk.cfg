SPECIFICATION Spec
CONSTANTS
    a = a
    b = b
    c = c
    d = d
    e = e
    None = None
    Name = {a, b, c, d, e}
    Identified = {a, b, c, d}
    PageSize = 3
    MaxPages = 3
    MaxChanges = 2
    Caps = {1, 2, 4}
    Lookups = {b}
    Tenants <- MCTenants
INVARIANTS
    NothingIsMissed
    NoRecordTwice
    StillTenantsAreRead
    RequestsAreBounded
