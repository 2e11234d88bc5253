CONSTANTS
    root = root
    a = a
    b = b
    c = c
    main = main
    branch = branch
    none = none
    Nodes = {root, a, b}
    Root = root
    Original = main
    Contributions = {branch}
    Nobody = none
    Trees <- Pairs
    Indexes = {0}
    GivenIndexes = {}
    MoveBudgets <- OneEachOrTwo
    MaxFaults = 1
    CopyFaults = TRUE
    SilentListError = FALSE
SPECIFICATION Spec
INVARIANTS OriginalRight
PROPERTIES OriginalUntouched MovedListed
CHECK_DEADLOCK FALSE
