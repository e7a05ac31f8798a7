CONSTANTS
    n1 = n1 n2 = n2 n3 = n3
    Node <- Nodes
    Slices <- Star
    MaxValue = 2
    UINT32_MAX = 9
    MAX_ADVANCE_SLOT_RECURSION = 50
    MayTimeout = {n3}
    MaxTimeout = 1
    Reaching <- Spokes
    Delayed = FALSE
    MayRestart = {n3}
    MaxRestart = 1
    Candidates <- Torn
    validateValue <- AllFullyValid
SPECIFICATION Spec
CHECK_DEADLOCK FALSE
INVARIANTS PreparedForCommit TimerRuns CounterNeverWraps CheckInvariants AcceptedCommitsAgree Agreement
