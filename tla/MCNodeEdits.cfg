CONSTANTS
    root = root
    a = a
    b = b
    x = x
    nobody = nobody
    r1 = r1
    r2 = r2
    Nodes = {root, a, b, x}
    Root = root
    Nobody = nobody
    Parent <- Tree
    Requests = {r1, r2}
    Plans <- DeletionAndOther
    Racing = FALSE
    MaxFaults = 2
SPECIFICATION Spec
INVARIANTS TypeOK EditsInv Listed Agree
PROPERTIES NothingLost UndoRestores
CHECK_DEADLOCK FALSE
