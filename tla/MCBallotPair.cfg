CONSTANTS
    n1 = n1 n2 = n2 n3 = n3
    Node <- Pair
    Slices <- Both
    MaxValue = 2
    UINT32_MAX = 9
    MAX_ADVANCE_SLOT_RECURSION = 50
    MayTimeout <- Pair
    MaxTimeout = 1
    Reaching <- All
    Delayed = TRUE
    MayRestart <- Pair
    MaxRestart = 1
    Candidates <- PairAny
    validateValue <- PairValid
SPECIFICATION Spec
CHECK_DEADLOCK FALSE
INVARIANTS NoException EmitsOnlyValidated
PROPERTIES EmitsInOrder
