CONSTANTS
    q1 = q1
    q2 = q2
    q3 = q3
    main = main
    contribution = contribution
    Requests = {q1, q2, q3}
    Branches = {main, contribution}
    Root = main
    Kinds = {"edit", "delete", "reorder", "merge"}
    SlowEdits = TRUE
SYMMETRY Symmetry
SPECIFICATION LockerSpec
INVARIANTS LockerTypeOK Exclusion LockerInv NoLeak
CHECK_DEADLOCK FALSE
