CONSTANTS
    root = root
    child = child
    owner = owner
    u1 = u1
    u2 = u2
    p1 = p1
    p2 = p2
    none = none
    Nodes = {root, child}
    Root = root
    Owner = owner
    Users = {u1, u2}
    Clients = {p1, p2}
    None = none
    MaxAsks = 4
    MaxFaults = 1
SPECIFICATION Spec
INVARIANTS MembershipInv Expelled
SYMMETRY Alike
CHECK_DEADLOCK FALSE
