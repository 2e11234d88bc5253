CONSTANTS
    cr1 = cr1
    cr2 = cr2
    p1 = p1
    p2 = p2
    p3 = p3
    none = none
    Crs = {cr1, cr2}
    Existing = {cr1}
    Clients = {p1, p2, p3}
    None = none
    MaxAsks = 4
    MaxFaults = 1
SPECIFICATION Spec
INVARIANTS ContributionsInv MergedOnce
SYMMETRY AnyClients
CHECK_DEADLOCK FALSE
