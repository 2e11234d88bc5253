CONSTANTS
    n1 = n1
    n2 = n2
    f1 = f1
    f2 = f2
    s1 = s1
    i1 = i1
    none = none
    r1 = r1
    r2 = r2
    Nodes = {n1, n2}
    Flows = {f1, f2}
    Steps = {s1}
    Ios = {i1}
    NodeOf <- NodeOfAll
    FlowOf <- FlowOfAll
    StepOf <- StepOfAll
    IndexOf <- IndexOfAll
    Ancestors <- AncestorsOf
    None = none
    Requests = {r1, r2}
    NewObjects = {n2, f2}
    Deletable = {n1}
    Calls <- AllCalls
    MaxCalls = 3
    MaxFaults = 1
SYMMETRY Interchangeable
SPECIFICATION Spec
INVARIANTS ChangesInv FateListed
CHECK_DEADLOCK FALSE
