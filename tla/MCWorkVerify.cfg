SPECIFICATION Spec
CONSTANTS
    Kind <- VerifyKind
    Parts <- VerifyParts
    Gate <- VerifyGate
    MaxRetries <- VerifyRetries
    StopAtFirstFailure <- Stop
    MaxConcurrent = 2
    Root = "ws"
    MayShutdown = FALSE
INVARIANTS
    ResetRestores
CHECK_DEADLOCK FALSE
