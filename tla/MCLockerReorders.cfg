CONSTANTS
    q1 = q1
    q2 = q2
    q3 = q3
    main = main
    contribution = contribution
    Requests = {q1, q2}
    Branches = {main, contribution}
    Root = main
    Kinds = {"reorder"}
    SlowEdits = FALSE
SYMMETRY Symmetry
SPECIFICATION LockerSpec
INVARIANTS ReorderAlone
CHECK_DEADLOCK FALSE
