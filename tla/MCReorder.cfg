CONSTANTS
    root = root
    a = a
    b = b
    c = c
    main = main
    branch = branch
    none = none
    Nodes = {root, a, b, c}
    Root = root
    Original = main
    Contributions = {branch}
    Nobody = none
    Trees <- Shapes
    Indexes <- ZeroOne
    GivenIndexes = {2}
    MoveBudgets <- OneInEither
    MaxFaults = 2
    CopyFaults = FALSE
    SilentListError = FALSE
SPECIFICATION Spec
INVARIANTS TypeOK OriginalRight ListFollowsTree
PROPERTIES RollbackRestores Placed OriginalUntouched
CHECK_DEADLOCK FALSE
