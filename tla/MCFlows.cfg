CONSTANTS
    n1 = n1
    n2 = n2
    f1 = f1
    f2 = f2
    s1 = s1
    s2 = s2
    s4 = s4
    s3 = s3
    i1 = i1
    i2 = i2
    i3 = i3
    none = none
    c1 = c1
    c2 = c2
    Nodes <- AllNodes
    Flows <- AllFlows
    Steps <- AllSteps
    Ios <- AllIos
    NodeOf <- NodeOfAll
    FlowOf <- FlowOfAll
    StepOf <- StepOfAll
    IndexOf <- IndexOfAll
    None = none
    At <- AtAll
    MainOf <- MainOfAll
    Titles = {}
    NoTitle = none
    Texts = {}
    Original <- OriginalTables
    Asked <- Requests
    FirstNodes <- FirstNodesOfAll
    Clients = {c1, c2}
    MaxAsks = 3
    MaxFaults = 1
    Racing = FALSE
SPECIFICATION Spec
INVARIANTS FlowsInv IndexOwn DeletedStays
PROPERTIES AsOne
CHECK_DEADLOCK FALSE
