CONSTANTS
    n1 = n1
    n2 = n2
    n3 = n3
    n4 = n4
    f1 = f1
    f2 = f2
    f3 = f3
    s1 = s1
    s2 = s2
    s3 = s3
    i1 = i1
    i2 = i2
    i3 = i3
    none = none
    oldTitle = oldTitle
    newTitle = newTitle
    thirdTitle = thirdTitle
    Nodes <- AllNodes
    Flows <- AllFlows
    Steps <- AllSteps
    Ios <- AllIos
    NodeOf <- NodeOfAll
    FlowOf <- FlowOfAll
    StepOf <- StepOfAll
    IndexOf <- IndexOfAll
    None = none
    At <- AtAll
    MainOf <- MainOfAll
    Titles = {oldTitle, newTitle, thirdTitle}
    NoTitle = none
    Texts = {"first", "second", "third"}
    Original <- OriginalTables
    Edits <- BranchEdits
    OtherEdits <- OthersEdits
    MaxEdits = 2
    MaxOtherEdits = 1
    MaxMerges = 2
    MaxFaults = 2
SPECIFICATION Spec
INVARIANTS MergeInv MergedRight Undone AllOrNothing
CHECK_DEADLOCK FALSE
