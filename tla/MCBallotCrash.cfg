CONSTANTS
    n1 = n1 n2 = n2 n3 = n3
    Node <- Nodes
    Slices <- TwoOfThree
    MaxValue = 2
    UINT32_MAX = 9
    MAX_ADVANCE_SLOT_RECURSION = 50
    MayTimeout <- Nodes
    MaxTimeout = 0
    Reaching <- All
    Delayed = FALSE
    MayRestart <- First
    MaxRestart = 1
    Candidates <- Mixed
    validateValue <- AllFullyValid
SPECIFICATION FairSpec
CHECK_DEADLOCK FALSE
PROPERTIES Termination
